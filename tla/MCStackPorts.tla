----------------------------- MODULE MCStackPorts -----------------------------
(***************************************************************************)
(* StackPorts for TLC: up to three NetBox devices that can be one stack,   *)
(* by Virtual Chassis or by name, in each way the members can be usable,   *)
(* out of scope, absent, ambiguous or switches of their own.               *)
(***************************************************************************)
EXTENDS StackPorts

P11 == Numbered(1, 1)
P21 == Numbered(2, 1)
P31 == Numbered(3, 1)
AllPorts == {P11, P21, PortChannel, Management}

(* The switch its hosts reach is "A", with member 1 at home[1].            *)
Site(fleet, hosts, home1, home2) ==
  [fleet |-> fleet,
   reports |-> [h \in hosts |-> AllPorts \ {Management}],
   plane |-> [h \in hosts |-> "A"],
   home |-> [h \in hosts |-> <<home1, home2>>],
   names |-> [d \in DOMAIN fleet.base |->
                IF d = "s3" THEN {P11} ELSE AllPorts \ {Management}]]

WithManagement(s) ==
  [s EXCEPT !.reports = [h \in DOMAIN @ |-> AllPorts],
            !.names = [d \in DOMAIN @ |-> AllPorts]]

Both == {"s1", "s2"}

-----------------------------------------------------------------------------
Chassis(master, position2, scope) ==
  LET ds == {"s1", "s2"} IN
  [base |-> [d \in ds |-> d], suffix |-> [d \in ds |-> NoMember],
   ip |-> [d \in ds |-> NoIP], chassis |-> [d \in ds |-> "c"],
   position |-> [d \in ds |-> IF d = "s1" THEN 1 ELSE position2],
   master |-> [c \in {"c"} |-> master], scope |-> scope]

(* s1 and s2 are SW-1 and SW-2, s3 another device named like member 2.     *)
Named(ds, ip2, scope) ==
  [base |-> [d \in ds |-> "sw"], suffix |-> [d \in ds |-> IF d = "s1" THEN 1 ELSE 2],
   ip |-> [d \in ds |-> IF d = "s1" THEN "ip1" ELSE ip2],
   chassis |-> [d \in ds |-> NoChassis], position |-> [d \in ds |-> NoMember],
   master |-> [c \in {} |-> NoDevice], scope |-> scope]

Lone ==
  [base |-> [d \in {"s1"} |-> "core"], suffix |-> [d \in {"s1"} |-> NoMember],
   ip |-> [d \in {"s1"} |-> "ip1"], chassis |-> [d \in {"s1"} |-> NoChassis],
   position |-> [d \in {"s1"} |-> NoMember], master |-> [c \in {} |-> NoDevice],
   scope |-> {"s1"}]

(* Reached through the master, the management port included, or through    *)
(* any members in scope; and a chassis with one position filled in.        *)
ChassisSites ==
  {WithManagement(Site(Chassis("s1", 2, scope), {"s1"}, "s1", "s2")) :
     scope \in {{"s1"}, Both}}
    \cup {Site(Chassis(master, 2, Both), hosts, "s1", "s2") :
            master \in {"s1", "s2", NoDevice}, hosts \in {{"s1"}, {"s2"}, Both}}
    \cup {Site(Chassis(master, NoMember, Both), {"s1"}, "s1", "s1") :
            master \in {"s1", NoDevice}}

NameSites ==
  {WithManagement(Site(Named(Both, NoIP, Both), {h}, "s1", "s2")) : h \in Both}
    \cup {Site(Named(Both, "ip1", Both), Both, "s1", "s2"),
          Site(Named(Both, NoIP, {"s1"}), {"s1"}, "s1", "s2"),
          Site(Named({"s1"}, NoIP, {"s1"}), {"s1"}, "s1", "s1"),
          Site(Named({"s2"}, NoIP, {"s2"}), {"s2"}, NoDevice, "s2"),
          Site(Named({"s1", "s2", "s3"}, NoIP, {"s1", "s2", "s3"}), {"s1"}, "s1", "s2")}

(* Two switches named like members, each with ports of its own as member 1. *)
TwinSites ==
  {[Site(Named(Both, "ip2", Both), Both, "s1", "s1") EXCEPT
      !.reports = [h \in Both |-> {P11, PortChannel}],
      !.plane = [h \in Both |-> h],
      !.home = [h \in Both |-> <<h>>],
      !.names = [d \in Both |-> {P11, PortChannel}]]}

(* SW-1 is a chassis whose second line card reads like member 2; SW-2 is   *)
(* a switch of its own.                                                    *)
SeparateSites ==
  {Site(Named(Both, "ip2", scope), {"s1"}, "s1", "s1") : scope \in {{"s1"}, Both}}

LoneSites == {WithManagement(Site(Lone, {"s1"}, "s1", "s1"))}

(* A chassis of three, with the Port-Channel on any of its members.        *)
TripleSites ==
  LET ds == {"s1", "s2", "s3"}
      fleet == [base |-> [d \in ds |-> d], suffix |-> [d \in ds |-> NoMember],
                ip |-> [d \in ds |-> NoIP], chassis |-> [d \in ds |-> "c"],
                position |-> [s1 |-> 1, s2 |-> 2, s3 |-> 3],
                master |-> [c \in {"c"} |-> "s1"], scope |-> ds] IN
  {[Site(fleet, hosts, "s1", "s2") EXCEPT
      !.reports = [h \in hosts |-> {P11, P21, P31, PortChannel}],
      !.home = [h \in hosts |-> <<"s1", "s2", "s3">>],
      !.names = [s1 |-> {P11, PortChannel}, s2 |-> {P21, PortChannel},
                 s3 |-> {P11, P31, PortChannel}]] : hosts \in {{"s1"}, Both}}

MCSites ==
  UNION {TripleSites, ChassisSites, NameSites, SeparateSites, LoneSites, TwinSites}

(* These sites keep every promise the theorems of StackPortsProofs ask for. *)
ASSUME PromisesAssumption ==
  \A s \in MCSites :
    /\ StacksApart(s)
    /\ RoutesAgree(s)
    /\ PlainAtAnchor(s)
    /\ KeysArePlanes(s)
    /\ MembersAreHome(s, {FALSE})

(* Both of the redundant pair are reached.                                 *)
PairSites ==
  {[Site(Named(Both, "ip2", Both), Both, "s1", "s1") EXCEPT
      !.plane = [h \in Both |-> h],
      !.home = [h \in Both |-> <<h, h>>]]}

(* Member 2 out of scope, with a copy of its port on member 1.             *)
OutOfScopeSites ==
  {Site(Named(Both, NoIP, {"s1"}), {"s1"}, "s1", "s2")}

(* A chassis reached through a member that is not its master.              *)
OtherMemberSites ==
  {WithManagement(Site(Chassis("s1", 2, Both), {"s2"}, "s1", "s2"))}

=============================================================================
