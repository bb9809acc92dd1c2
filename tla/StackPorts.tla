------------------------------ MODULE StackPorts ------------------------------
(***************************************************************************)
(* Where the ports of switches and stacks go in NetBox: the two steps of   *)
(* `wired interfaces` seen from the interfaces.  The create step files     *)
(* each reported port under the device that owns it (_classify of          *)
(* create_interfaces.py) and creates or renames interfaces (_apply); the   *)
(* sync step matches each port to an interface (match_scoped_interface of  *)
(* sync/engine.py) and writes its state there (sync_device).               *)
(*                                                                         *)
(* Every host here is reached, and what is written of a port, its VLANs,   *)
(* enabled state and description together, is the port itself:             *)
(* cfg[<<d, n>>] is the port whose state interface n of device d was       *)
(* given.  Types and optics are left out, and the failures of a collection *)
(* or of a lookup of this module's state are those of WiredInterfaces.     *)
(***************************************************************************)
EXTENDS SwitchStacks

CONSTANTS
  Sites,       (* the fleets explored, with the switches behind them       *)
  Lookups      (* whether the second lookup of _from_names raises          *)

(* A site is a record: fleet, the NetBox facts of SwitchStacks; reports,   *)
(* the ports each Nornir host reports; plane, the switch that host really  *)
(* is; home, the device each member of that switch really is in NetBox;    *)
(* names, the interfaces each device may have at the start.                *)

Ports == [member : Int, slot : Nat]

ASSUME LookupsAssumption == Lookups \subseteq BOOLEAN

ASSUME SitesAssumption ==
  \A s \in Sites :
    LET devices == DOMAIN s.fleet.base IN
    /\ IsFiniteSet(devices)
    /\ NoDevice \notin devices
    /\ DOMAIN s.fleet.chassis = devices
    /\ DOMAIN s.reports \subseteq devices
    /\ \A h \in DOMAIN s.reports : s.reports[h] \subseteq Ports
    /\ \A d \in devices : s.names[d] \subseteq Ports

Blank == <<>>

VARIABLES
  site,        (* one of Sites                                             *)
  apply,       (* ctx.settings.apply                                       *)
  ifs,         (* the interfaces each device has in NetBox                 *)
  cfg,         (* what each interface was last given: <<plane, port>>      *)
  stage,       (* "create", "apply", "sync" or "done"                      *)
  waiting,     (* hosts, then devices, the stage has still to go through   *)
  stacksSeen,  (* <<stack key, host it was handled through>> in this step  *)
  plans,       (* what the create step would do, by device                 *)
  pending,     (* CreateOutcome.pending: <<device, name>>                  *)
  errors,      (* ports the sync step reports as missing or ambiguous      *)
  skipped,     (* ports blocked by either step: <<step, host, port>>       *)
  passedOver,  (* history: <<host, via>>, "same stack as via"              *)
  writes,      (* history: <<host, port, device>> of every write           *)
  trouble      (* history: a write failed                                  *)

vars == <<site, apply, ifs, cfg, stage, waiting, stacksSeen, plans, pending,
          errors, skipped, passedOver, writes, trouble>>

Devices == DOMAIN site.fleet.base
Hosts == DOMAIN site.reports
NoPlan == [missing |-> {}, rename |-> {}, via |-> NoDevice]

Names == UNION ({site.names[d] : d \in Devices} \cup {site.reports[h] : h \in Hosts})
PortsOfSite == UNION {{site.plane[h]} \X site.reports[h] : h \in Hosts}

TypeOK ==
  /\ site \in Sites
  /\ apply \in BOOLEAN
  /\ ifs \in [Devices -> SUBSET Names]
  /\ cfg \in [Devices \X Names -> PortsOfSite \cup {Blank}]
  /\ \A i \in Devices \X Names : cfg[i] # Blank => i[2] \in ifs[i[1]]
  /\ stage \in {"create", "apply", "sync", "done"}
  /\ waiting \in SUBSET (Hosts \cup Devices)
  /\ \A t \in stacksSeen : t[2] \in Hosts
  /\ plans \in [Devices -> [missing : SUBSET Names, rename : SUBSET (Names \X Names),
                            via : Hosts \cup {NoDevice}]]
  /\ pending \in SUBSET (Devices \X Names)
  /\ errors \in SUBSET (Hosts \X Names)
  /\ skipped \in SUBSET ({"create", "sync"} \X Hosts \X Names)
  /\ passedOver \in SUBSET (Hosts \X Hosts)
  /\ writes \in SUBSET (Hosts \X Names \X Devices)
  /\ trouble \in BOOLEAN

Init ==
  /\ site \in Sites
  /\ apply \in BOOLEAN
  /\ ifs \in [Devices -> SUBSET Names]
  /\ \A d \in Devices : ifs[d] \subseteq site.names[d]
  /\ cfg = [i \in Devices \X Names |-> Blank]
  /\ stage = "create"
  /\ waiting = Hosts
  /\ stacksSeen = {}
  /\ plans = [d \in Devices |-> NoPlan]
  /\ pending = {}
  /\ errors = {}
  /\ skipped = {}
  /\ passedOver = {}
  /\ writes = {}
  /\ trouble = FALSE

(* The stack a host's ports are filed by.                                  *)
Route(s, h, lookupFails) ==
  ResolveStack(s.fleet, h, MembersOf(s.reports[h]), lookupFails)

(* Mutant of StackOf: the name is proof enough of a stack.                 *)
StackOfByNameAlone(h, lookupFails) ==
  IF site.fleet.chassis[h] = NoChassis /\ site.fleet.suffix[h] # NoMember
  THEN FromNames(site.fleet, h, MembersOf(site.reports[h]), lookupFails)
  ELSE Route(site, h, lookupFails)

StackOf(h, lookupFails) == Route(site, h, lookupFails)

(* The host the stack was handled through already in this step.            *)
SeenVia(stack) == {s[2] : s \in {t \in stacksSeen : t[1] = stack.key}}

-----------------------------------------------------------------------------
(* The create step.  A stack port may be in NetBox under the device type's *)
(* member-1 name.                                                          *)
Template(port) == Numbered(1, port.slot)

HasTemplate(stack, port, d) ==
  /\ IsStack(stack)
  /\ port.member # NoMember
  /\ Template(port) \in ifs[d]

(* Mutant of IsHeldElsewhere: a Port-Channel on another member is missing. *)
IsHeldElsewhereNever(stack, port) == FALSE

(* A Port-Channel is one per stack: any member's will do.                  *)
IsHeldElsewhere(stack, port) ==
  /\ IsStack(stack)
  /\ IsStackWide(port)
  /\ \E d \in StackDevices(stack) \ {Owner(stack, port)} : port \in ifs[d]

IsBlocked(stack, port) ==
  /\ Owner(stack, port) = NoDevice
  /\ LET d == StandIn(stack, port) IN d = NoDevice \/ port \notin ifs[d]

Missing(stack, ports, d) ==
  {p \in ports : /\ Owner(stack, p) = d
                 /\ p \notin ifs[d]
                 /\ ~HasTemplate(stack, p, d)
                 /\ ~IsHeldElsewhere(stack, p)}

(* Template-named interfaces to be given their own member's number.        *)
Renames(stack, ports, d) ==
  {<<Template(p), p>> : p \in {q \in ports : /\ Owner(stack, q) = d
                                             /\ q \notin ifs[d]
                                             /\ HasTemplate(stack, q, d)}}

(* _classify, and the bookkeeping of execute around it.                    *)
CreateHost(h) ==
  /\ stage = "create"
  /\ h \in waiting
  /\ waiting' = waiting \ {h}
  /\ \E lookupFails \in Lookups :
       LET stack == StackOf(h, lookupFails)
           ports == site.reports[h] IN
       IF SeenVia(stack) # {}
       THEN /\ passedOver' = passedOver \cup {<<h, g>> : g \in SeenVia(stack)}
            /\ UNCHANGED <<stacksSeen, plans, skipped>>
       ELSE /\ stacksSeen' = stacksSeen \cup {<<stack.key, h>>}
            /\ UNCHANGED passedOver
            /\ skipped' = skipped \cup
                 {<<"create", h, p>> : p \in {q \in ports : IsBlocked(stack, q)}}
            /\ plans' = [d \in Devices |->
                 IF d \notin StackDevices(stack) THEN plans[d]
                 ELSE [missing |-> plans[d].missing \cup Missing(stack, ports, d),
                       rename |-> plans[d].rename \cup Renames(stack, ports, d),
                       via |-> IF plans[d].via = NoDevice THEN h ELSE plans[d].via]]
  /\ UNCHANGED <<site, apply, ifs, cfg, stage, pending, errors, writes, trouble>>

(* Mutant of CreateReports: the plan's new ports are not passed on.        *)
CreateReportsNoPending ==
  /\ stage = "create"
  /\ waiting = {}
  /\ stage' = "apply"
  /\ waiting' = IF apply THEN {d \in Devices : plans[d] # NoPlan} ELSE {}
  /\ UNCHANGED <<site, apply, ifs, cfg, stacksSeen, plans, pending, errors,
                 skipped, passedOver, writes, trouble>>

CreateReports ==
  /\ stage = "create"
  /\ waiting = {}
  /\ stage' = "apply"
  /\ waiting' = IF apply THEN {d \in Devices : plans[d] # NoPlan} ELSE {}
  /\ pending' = IF apply THEN {}
                ELSE UNION {{d} \X plans[d].missing : d \in Devices}
  /\ UNCHANGED <<site, apply, ifs, cfg, stacksSeen, plans, errors, skipped,
                 passedOver, writes, trouble>>

(* _apply of one plan: one bulk create, one bulk rename; each may raise on *)
(* its own and then changes nothing.  A rename keeps the interface.        *)
ApplyPlan(d) ==
  /\ stage = "apply"
  /\ d \in waiting
  /\ waiting' = waiting \ {d}
  /\ \E creates, renames \in BOOLEAN :
       LET new == IF creates THEN plans[d].missing ELSE {}
           renamed == IF renames THEN plans[d].rename ELSE {}
           old == {r[1] : r \in renamed}
           names == {r[2] : r \in renamed} IN
       /\ ifs' = [ifs EXCEPT ![d] = (@ \ old) \cup new \cup names]
       /\ cfg' = [i \in DOMAIN cfg |->
                    IF i[1] # d THEN cfg[i]
                    ELSE IF i[2] \in names
                      THEN cfg[<<d, (CHOOSE r \in renamed : r[2] = i[2])[1]>>]
                    ELSE IF i[2] \in old THEN Blank ELSE cfg[i]]
       /\ writes' = writes \cup {<<plans[d].via, p, d>> : p \in new \cup names}
       /\ trouble' = (trouble \/ (~creates /\ plans[d].missing # {})
                              \/ (~renames /\ plans[d].rename # {}))
  /\ UNCHANGED <<site, apply, stage, stacksSeen, plans, pending, errors, skipped,
                 passedOver>>

(* Mutant of StartSync: the stacks of the create step still count as seen. *)
StartSyncKeepsSeen ==
  /\ stage = "apply"
  /\ waiting = {}
  /\ stage' = "sync"
  /\ waiting' = Hosts
  /\ UNCHANGED <<site, apply, ifs, cfg, stacksSeen, plans, pending, errors,
                 skipped, passedOver, writes, trouble>>

StartSync ==
  /\ stage = "apply"
  /\ waiting = {}
  /\ stage' = "sync"
  /\ waiting' = Hosts
  /\ stacksSeen' = {}
  /\ UNCHANGED <<site, apply, ifs, cfg, plans, pending, errors, skipped,
                 passedOver, writes, trouble>>

-----------------------------------------------------------------------------
(* The sync step.  The device whose interface a port is matched to, or     *)
(* NoDevice.  _match_unnumbered: the connected device, the anchor, then    *)
(* exactly one other member for a Port-Channel.                            *)
Holders(stack, port) == {d \in StackDevices(stack) : port \in ifs[d]}

MatchUnnumbered(stack, port) ==
  LET holders == Holders(stack, port) IN
  IF stack.connected \in holders THEN stack.connected
  ELSE IF stack.anchor \in holders THEN stack.anchor
  ELSE IF IsStack(stack) /\ IsStackWide(port) /\ Cardinality(holders) = 1
    THEN CHOOSE d \in holders : TRUE
  ELSE NoDevice

(* "more than one stack member has this interface" (engine.py:1548): a     *)
(* Port-Channel the create step leaves alone and no port is matched to.    *)
IsAmbiguous(stack, port) ==
  /\ MatchUnnumbered(stack, port) = NoDevice
  /\ IsStack(stack)
  /\ IsStackWide(port)
  /\ Cardinality(Holders(stack, port)) > 1

(* Through some route into the host's stack.                               *)
IsAmbiguousFrom(h, port) ==
  \E g \in Hosts : /\ StackOf(g, FALSE).key = StackOf(h, FALSE).key
                   /\ IsAmbiguous(StackOf(g, FALSE), port)

(* match_scoped_interface: <<device, name>> of the port's interface, or    *)
(* NoMatch.  A numbered port is looked for on its own member only, under   *)
(* its own name and then the template's.                                   *)
NoMatch == <<NoDevice, Management>>

(* Mutants of Match: the connected device's copy is tried first; a port of *)
(* a member without a device is tried under the template's name as well.   *)
MatchConnectedFirst(stack, port) ==
  IF port \in ifs[stack.connected] THEN <<stack.connected, port>>
  ELSE LET d == Owner(stack, port) IN
       IF d = NoDevice THEN NoMatch
       ELSE IF port \in ifs[d] THEN <<d, port>>
       ELSE IF HasTemplate(stack, port, d) THEN <<d, Template(port)>>
       ELSE NoMatch

MatchTemplateOnStandIn(stack, port) ==
  LET owner == Owner(stack, port)
      d == IF owner # NoDevice THEN owner ELSE StandIn(stack, port) IN
  IF d = NoDevice THEN NoMatch
  ELSE IF port \in ifs[d] THEN <<d, port>>
  ELSE IF HasTemplate(stack, port, d) THEN <<d, Template(port)>>
  ELSE NoMatch

Match(stack, port) ==
  IF ~IsStack(stack) \/ port.member = NoMember
  THEN LET d == MatchUnnumbered(stack, port) IN
       IF d = NoDevice THEN NoMatch ELSE <<d, port>>
  ELSE IF Owner(stack, port) = NoDevice
  THEN IF IsBlocked(stack, port) THEN NoMatch ELSE <<StandIn(stack, port), port>>
  ELSE LET d == Owner(stack, port) IN
       IF port \in ifs[d] THEN <<d, port>>
       ELSE IF HasTemplate(stack, port, d) THEN <<d, Template(port)>>
       ELSE NoMatch

AwaitsCreation(stack, port) ==
  \E d \in StackDevices(stack) : <<d, port>> \in pending

(* sync_device: every matched port whose interface is not as the switch    *)
(* reports is written; those in `failing` are not, or not as intended.     *)
SyncHost(h) ==
  /\ stage = "sync"
  /\ h \in waiting
  /\ waiting' = waiting \ {h}
  /\ \E lookupFails \in Lookups :
       LET stack == StackOf(h, lookupFails)
           ports == site.reports[h]
           matched == {p \in ports : Match(stack, p) # NoMatch}
           stale == {p \in matched : cfg[Match(stack, p)] # <<site.plane[h], p>>}
           blocked == {p \in ports : IsBlocked(stack, p)} IN
       IF SeenVia(stack) # {}
       THEN /\ passedOver' = passedOver \cup {<<h, g>> : g \in SeenVia(stack)}
            /\ UNCHANGED <<cfg, stacksSeen, errors, skipped, writes, trouble>>
       ELSE /\ stacksSeen' = stacksSeen \cup {<<stack.key, h>>}
            /\ UNCHANGED passedOver
            /\ skipped' = skipped \cup {<<"sync", h, p>> : p \in blocked}
            /\ errors' = errors \cup
                 {<<h, p>> : p \in {q \in ports \ (matched \cup blocked) :
                                      ~AwaitsCreation(stack, q)}}
            /\ IF ~apply THEN UNCHANGED <<cfg, writes, trouble>>
               ELSE \E failing \in {{}} \cup {{p} : p \in stale} :
                 LET written == stale \ failing IN
                 /\ cfg' = [i \in DOMAIN cfg |->
                      IF \E p \in written : Match(stack, p) = i
                      THEN <<site.plane[h],
                             CHOOSE p \in written : Match(stack, p) = i>>
                      ELSE cfg[i]]
                 /\ writes' = writes \cup
                      {<<h, p, Match(stack, p)[1]>> : p \in written}
                 /\ trouble' = (trouble \/ failing # {})
  /\ UNCHANGED <<site, apply, ifs, stage, plans, pending>>

Finish ==
  /\ stage = "sync"
  /\ waiting = {}
  /\ stage' = "done"
  /\ UNCHANGED <<site, apply, ifs, cfg, waiting, stacksSeen, plans, pending,
                 errors, skipped, passedOver, writes, trouble>>

Next ==
  \/ \E h \in Hosts : CreateHost(h) \/ SyncHost(h)
  \/ CreateReports
  \/ \E d \in Devices : ApplyPlan(d)
  \/ StartSync
  \/ Finish

Spec == Init /\ [][Next]_vars

-----------------------------------------------------------------------------
(* What a site may promise, for the theorems of StackPortsProofs.          *)

(* Two hosts are routes into one stack, or their stacks share no device.   *)
StacksApart(s) ==
  \A g, h \in DOMAIN s.reports :
    LET a == Route(s, g, FALSE)  b == Route(s, h, FALSE) IN
    IF a.key = b.key THEN StackDevices(a) = StackDevices(b)
                     ELSE StackDevices(a) \cap StackDevices(b) = {}

(* Two routes into a stack report the same ports, whose devices both find. *)
RoutesAgree(s) ==
  \A g, h \in DOMAIN s.reports :
    LET a == Route(s, g, FALSE)  b == Route(s, h, FALSE) IN
    g # h /\ a.key = b.key =>
      /\ s.reports[g] = s.reports[h]
      /\ a.members = b.members
      /\ \A p \in s.reports[h] :
           \/ p.member \in DOMAIN a.members
           \/ IsStackWide(p)
           \/ p.member = NoMember /\ a.anchor = b.anchor

(* A port that carries no member and is not stack-wide is reported through *)
(* the device it is filed under.                                           *)
PlainAtAnchor(s) ==
  \A h \in DOMAIN s.reports : \A p \in s.reports[h] :
    p.member = NoMember /\ ~IsStackWide(p) => Route(s, h, FALSE).anchor = h

(* One key per physical switch.                                            *)
KeysArePlanes(s) ==
  \A g, h \in DOMAIN s.reports :
    Route(s, g, FALSE).key = Route(s, h, FALSE).key <=> s.plane[g] = s.plane[h]

AtHome(s, h, p, d) ==
  IF p.member \in DOMAIN s.home[h] THEN d = s.home[h][p.member]
  ELSE d \in (Range(s.home[h]) \cup {h}) \cap DOMAIN s.fleet.base

(* The device a port is filed under, or looked for on, is the right one.   *)
MembersAreHome(s, lookups) ==
  \A h \in DOMAIN s.reports, lookupFails \in lookups :
    LET stack == Route(s, h, lookupFails) IN
    \A p \in s.reports[h] :
      \A d \in IF IsStack(stack) /\ p.member # NoMember
               THEN {Owner(stack, p), StandIn(stack, p)} \ {NoDevice}
               ELSE StackDevices(stack) : AtHome(s, h, p, d)

-----------------------------------------------------------------------------
Done == stage = "done"

(* A port is only ever written on the device it physically is on: "Gi2/0/1 *)
(* is updated on SwitchA-2 ... and never through a same-named copy left on *)
(* SwitchA-1 by older runs" (sync_interfaces.py:14), nor on a switch that  *)
(* merely has the name of a member.                                        *)
WritesAtHome ==
  \A w \in writes : AtHome(site, w[1], w[2], w[3])

(* Two ports of a switch are never matched to one interface, where the     *)
(* second would overwrite the first on every run.                          *)
OneInterfacePerPort ==
  \A h \in Hosts, lookupFails \in Lookups :
    LET stack == StackOf(h, lookupFails) IN
    \A p, q \in site.reports[h] :
      p # q /\ Match(stack, p) # NoMatch => Match(stack, p) # Match(stack, q)

(* "A new interface is complete after one apply" (docs/ci.md:119): after   *)
(* an apply in which no write fails, the state of each port that is        *)
(* neither blocked nor ambiguous is on exactly one interface of its stack, *)
(* every interface the run created or touched has the state of the port it *)
(* is named for, and the next run has nothing to create or rename.         *)
CompleteAfterApply ==
  Done /\ apply /\ ~trouble =>
    /\ \A w \in writes : cfg[<<w[3], w[2]>>] = <<site.plane[w[1]], w[2]>>
    /\ \A h \in Hosts :
         LET stack == StackOf(h, FALSE)
             ports == site.reports[h] IN
         /\ \A d \in StackDevices(stack) :
              Missing(stack, ports, d) = {} /\ Renames(stack, ports, d) = {}
         /\ \A p \in {q \in ports : ~IsBlocked(stack, q) /\ ~IsAmbiguousFrom(h, q)} :
              Cardinality({i \in DOMAIN cfg : cfg[i] = <<site.plane[h], p>>}) = 1

(* A plan calls no port missing that the same run's create step would      *)
(* make: it awaits creation, whichever device of the stack it is for.  The *)
(* only errors are the Port-Channels that several members have.            *)
PlanHasNoErrors ==
  ~apply => \A e \in errors : IsAmbiguous(StackOf(e[1], FALSE), e[2])

(* A Port-Channel is one per stack: no run makes it on a second member of  *)
(* those it resolved.                                                      *)
OnePortChannel ==
  [][\A h \in Hosts :
       LET devices == StackDevices(StackOf(h, FALSE)) IN
       (\E d \in devices : PortChannel \in ifs[d]) =>
         \A d \in devices : PortChannel \in ifs'[d] => PortChannel \in ifs[d]]_vars

(* A host passed over as "same stack as via - already checked" is a route  *)
(* into that switch: the key is "the same for every route into one         *)
(* physical stack, so it's checked once" (stacks.py:77), and a sibling     *)
(* with its own management IP is a switch of its own (stacks.py:21).       *)
PassedOverIsSameSwitch ==
  \A p \in passedOver : site.plane[p[1]] = site.plane[p[2]]

=============================================================================
