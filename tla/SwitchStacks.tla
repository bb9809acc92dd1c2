----------------------------- MODULE SwitchStacks -----------------------------
(***************************************************************************)
(* Switch stacks, from bunnyauto/netbox/stacks.py: which NetBox device owns *)
(* each of the ports a switch reports.  Both steps of `wired interfaces`   *)
(* resolve the stack of every host they reach, and file ports by it.       *)
(*                                                                         *)
(* A fleet is what NetBox knows, a record of functions on its devices:     *)
(*   base, suffix   the name, split by split_stack_suffix and normalized;  *)
(*                  suffix is NoMember without one                         *)
(*   ip             management_ip, NoIP without one                        *)
(*   chassis        virtual_chassis, NoChassis without one                 *)
(*   position       vc_position, NoMember without one                      *)
(* with master, the master of each chassis (NoDevice for none), and scope, *)
(* the devices the run may touch.                                          *)
(***************************************************************************)
EXTENDS Integers, FiniteSets, Functions

NoMember == -1          \* stack_member and vc_position give None
NoDevice == "no device"
NoIP == "no ip"
NoChassis == "no chassis"

(* A port or interface name.  A numbered one, Gi<member>/0/<slot>, carries *)
(* a member; a Port-Channel and the management port do not.                *)
Numbered(member, slot) == [member |-> member, slot |-> slot]
PortChannel == [member |-> NoMember, slot |-> 100]
Management == [member |-> NoMember, slot |-> 0]

IsStackWide(port) == port = PortChannel

MembersOf(reported) == {port.member : port \in reported} \ {NoMember}

Stack(connected, anchor, source, own, members, claimed, key) ==
  [connected |-> connected, anchor |-> anchor, source |-> source, own |-> own,
   members |-> members, claimed |-> claimed, key |-> key]

-----------------------------------------------------------------------------
LoneSwitch(d) ==
  Stack(d, d, "", NoMember, [m \in {} |-> d], {}, <<"device", d>>)

(* A chassis is trusted as it is: its members need not be in scope.        *)
FromVirtualChassis(fleet, d) ==
  LET chassis == fleet.chassis[d]
      inChassis == {e \in DOMAIN fleet.chassis : fleet.chassis[e] = chassis}
      positions == {fleet.position[e] : e \in inChassis} \ {NoMember}
      members == [m \in positions |-> CHOOSE e \in inChassis : fleet.position[e] = m]
      master == fleet.master[chassis] IN
  Stack(d, IF master \in inChassis THEN master ELSE d, "virtual-chassis",
        fleet.position[d], members, {}, <<"virtual-chassis", chassis>>)

(* A sibling with a management IP of its own is another switch.            *)
SeparateSwitch(fleet, d, e) ==
  /\ fleet.ip[d] # NoIP
  /\ fleet.ip[e] # NoIP
  /\ fleet.ip[d] # fleet.ip[e]

NamedLike(fleet, d, m) ==
  {e \in DOMAIN fleet.base :
     e # d /\ fleet.base[e] = fleet.base[d] /\ fleet.suffix[e] = m}

(* The members whose own device exists and cannot be used: more than one   *)
(* candidate in scope, or one outside it.  The devices outside the scope   *)
(* come from a second NetBox lookup; when it raises, there are none.       *)
Claimed(fleet, d, reported, lookupFails) ==
  {m \in reported \ {fleet.suffix[d]} :
     LET found == NamedLike(fleet, d, m) \cap fleet.scope
         outside == IF lookupFails THEN {} ELSE NamedLike(fleet, d, m) \ fleet.scope IN
     \/ Cardinality(found) > 1
     \/ found = {} /\ \E e \in outside : ~SeparateSwitch(fleet, d, e)}

(* The <host>-<member> names: the one sibling in scope, when it is not a   *)
(* switch of its own.                                                      *)
FromNames(fleet, d, reported, lookupFails) ==
  LET own == fleet.suffix[d]
      Siblings(m) == NamedLike(fleet, d, m) \cap fleet.scope
      resolved == {m \in reported \ {own} :
                     /\ Cardinality(Siblings(m)) = 1
                     /\ \A e \in Siblings(m) : ~SeparateSwitch(fleet, d, e)}
      members == [m \in resolved \cup {own} |->
                    IF m = own THEN d ELSE CHOOSE e \in Siblings(m) : TRUE] IN
  Stack(d, d, "name", own, members, Claimed(fleet, d, reported, lookupFails),
        <<"name", fleet.base[d]>>)

(* resolve_stack for the device a run is connected to.                     *)
ResolveStack(fleet, d, reported, lookupFails) ==
  IF fleet.chassis[d] # NoChassis THEN FromVirtualChassis(fleet, d)
  ELSE IF /\ fleet.suffix[d] \in reported
          /\ Cardinality(reported) > 1
          /\ \A m \in reported : m > 0
       THEN FromNames(fleet, d, reported, lookupFails)
  ELSE LoneSwitch(d)

-----------------------------------------------------------------------------
IsStack(stack) == stack.source # ""

StackDevices(stack) == {stack.connected, stack.anchor} \cup Range(stack.members)

(* The device a port belongs to, NoDevice when its member is unresolved.   *)
Owner(stack, port) ==
  IF ~IsStack(stack) THEN stack.connected
  ELSE IF port.member = NoMember THEN stack.anchor
  ELSE IF port.member \in DOMAIN stack.members THEN stack.members[port.member]
  ELSE NoDevice

(* The connected device, where its interface of this name is the port of a *)
(* member NetBox has no device for.                                        *)
StandIn(stack, port) ==
  IF \/ ~IsStack(stack)
     \/ port.member \in DOMAIN stack.members \cup stack.claimed \cup {NoMember}
     \/ port.member = 1 /\ stack.own \notin {NoMember, 1}
  THEN NoDevice ELSE stack.connected

=============================================================================
