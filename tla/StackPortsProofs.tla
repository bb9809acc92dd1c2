--------------------------- MODULE StackPortsProofs ---------------------------
(***************************************************************************)
(* Theorems about StackPorts, for every fleet, every set of interfaces     *)
(* beforehand and every order in which hosts and devices are handled.      *)
(***************************************************************************)
EXTENDS StackPorts, FiniteSetTheorems, TLAPS

-----------------------------------------------------------------------------
(* What resolve_stack guarantees of any stack: its devices are devices of  *)
(* NetBox, no device is two members, the connected device is no member but *)
(* its own, and a lone switch is keyed by its device, a stack by another   *)
(* kind of key.                                                            *)
IsSound(stack, d, devices) ==
  /\ stack.connected = d
  /\ d \in devices
  /\ stack.anchor \in devices
  /\ NoMember \notin DOMAIN stack.members
  /\ \A m \in DOMAIN stack.members :
       /\ stack.members[m] \in devices
       /\ stack.members[m] = d => m = stack.own
       /\ \A k \in DOMAIN stack.members : stack.members[m] = stack.members[k] => m = k
  /\ ~IsStack(stack) => stack.anchor = d /\ DOMAIN stack.members = {} /\ stack.key = <<"device", d>>
  /\ IsStack(stack) => stack.key[1] # "device"

(* The three ways a stack is resolved are sound.                           *)
LEMMA LoneIsSound ==
  ASSUME NEW d, NEW devices, d \in devices
  PROVE  IsSound(LoneSwitch(d), d, devices)
  BY DEF LoneSwitch, Stack, IsSound, IsStack

(* A virtual chassis: its members are those of NetBox, by their position.  *)
LEMMA ChassisIsSound ==
  ASSUME NEW fleet, NEW d \in DOMAIN fleet.chassis
  PROVE  IsSound(FromVirtualChassis(fleet, d), d, DOMAIN fleet.chassis)
  <1> DEFINE inChassis == {e \in DOMAIN fleet.chassis : fleet.chassis[e] = fleet.chassis[d]}
             positions == {fleet.position[e] : e \in inChassis} \ {NoMember}
             Member(m) == CHOOSE e \in inChassis : fleet.position[e] = m
             master == fleet.master[fleet.chassis[d]]
             anchor == IF master \in inChassis THEN master ELSE d
  <1> DEFINE members == [m \in positions |-> Member(m)]
  <1>1. FromVirtualChassis(fleet, d)
          = Stack(d, anchor, "virtual-chassis", fleet.position[d], members, {},
                  <<"virtual-chassis", fleet.chassis[d]>>)
    BY DEF FromVirtualChassis
  <1>2. \A m \in positions : Member(m) \in inChassis /\ fleet.position[Member(m)] = m
    OBVIOUS
  <1>3. anchor \in DOMAIN fleet.chassis
    OBVIOUS
  <1> HIDE DEF members, anchor
  <1>4. DOMAIN members = positions /\ \A m \in positions : members[m] = Member(m)
    BY DEF members
  <1> QED BY <1>1, <1>2, <1>3, <1>4 DEF Stack, IsSound, IsStack

(* The <host>-<member> names: a member is found under its own number.      *)
LEMMA NamesAreSound ==
  ASSUME NEW fleet, NEW d \in DOMAIN fleet.base, NEW reported, NEW lookupFails,
         NoMember \notin reported, fleet.suffix[d] \in reported
  PROVE  IsSound(FromNames(fleet, d, reported, lookupFails), d, DOMAIN fleet.base)
  <1> DEFINE own == fleet.suffix[d]
             Siblings(m) == NamedLike(fleet, d, m) \cap fleet.scope
             resolved == {m \in reported \ {own} :
                            /\ Cardinality(Siblings(m)) = 1
                            /\ \A e \in Siblings(m) : ~SeparateSwitch(fleet, d, e)}
             Member(m) == IF m = own THEN d ELSE CHOOSE e \in Siblings(m) : TRUE
  <1> DEFINE members == [m \in resolved \cup {own} |-> Member(m)]
  <1>1. FromNames(fleet, d, reported, lookupFails)
          = Stack(d, d, "name", own, members, Claimed(fleet, d, reported, lookupFails),
                  <<"name", fleet.base[d]>>)
    BY DEF FromNames
  <1>2. \A m \in resolved : Siblings(m) # {}
    BY FS_EmptySet
  <1>3. \A m \in resolved : Member(m) \in NamedLike(fleet, d, m) /\ m # own
    BY <1>2
  <1>4. \A m \in resolved :
          /\ Member(m) # d
          /\ Member(m) \in DOMAIN fleet.base
          /\ fleet.suffix[Member(m)] = m
    BY <1>3 DEF NamedLike
  <1>5. Member(own) = d
    OBVIOUS
  <1>6. NoMember \notin resolved \cup {own}
    OBVIOUS
  <1> HIDE DEF members
  <1>7. DOMAIN members = resolved \cup {own} /\ \A m \in resolved \cup {own} : members[m] = Member(m)
    BY DEF members
  <1> HIDE DEF Member, resolved
  <1> QED BY <1>1, <1>4, <1>5, <1>6, <1>7 DEF Stack, IsSound, IsStack

(* Every host's stack is sound, whichever way its lookups end.             *)
LEMMA RouteIsSound ==
  ASSUME NEW s \in Sites, NEW h \in DOMAIN s.reports, NEW lookupFails
  PROVE  IsSound(Route(s, h, lookupFails), h, DOMAIN s.fleet.base)
  <1>1. h \in DOMAIN s.fleet.base /\ DOMAIN s.fleet.chassis = DOMAIN s.fleet.base
    BY SitesAssumption
  <1>2. NoMember \notin MembersOf(s.reports[h])
    BY DEF MembersOf
  <1> QED BY <1>1, <1>2, LoneIsSound, ChassisIsSound, NamesAreSound DEF Route, ResolveStack

(* Two stacks that are one but for the members claimed.                    *)
SameButClaims(a, b) ==
  /\ a.connected = b.connected
  /\ a.anchor = b.anchor
  /\ a.source = b.source
  /\ a.own = b.own
  /\ a.members = b.members
  /\ a.key = b.key

(* The second lookup of _from_names only tells which members are claimed.  *)
LEMMA LookupsClaimOnly ==
  ASSUME NEW s, NEW h, NEW lookupFails
  PROVE  SameButClaims(Route(s, h, lookupFails), Route(s, h, FALSE))
  BY DEF Route, ResolveStack, FromNames, Stack, SameButClaims

-----------------------------------------------------------------------------
(* Where a port is looked for.                                             *)
IsRouted(stack, port) == IsStack(stack) /\ port.member # NoMember

(* A port is its member and its slot.                                      *)
LEMMA PortIsItsNumber ==
  ASSUME NEW p \in Ports, NEW q \in Ports, p.member = q.member, p.slot = q.slot
  PROVE  p = q
  BY DEF Ports

(* The template's name keeps the slot and is member 1's.                   *)
LEMMA TemplateIsNumbered ==
  ASSUME NEW p
  PROVE  Template(p).member = 1 /\ Template(p).slot = p.slot
  BY DEF Template, Numbered

(* The shape of the devices and stand-ins a sound stack gives a port.      *)
LEMMA OwnerIsADevice ==
  ASSUME NEW d, NEW devices, NEW stack, IsSound(stack, d, devices), NEW p
  PROVE  /\ Owner(stack, p) \in StackDevices(stack) \cup {NoDevice}
         /\ StandIn(stack, p) \in {d, NoDevice}
         /\ StackDevices(stack) \subseteq devices
         /\ d \in StackDevices(stack)
  BY DEF IsSound, Owner, StandIn, StackDevices, Range

(* Every match is a device of the stack, with the port's own name or, for  *)
(* a port whose member has a device, the template's.                       *)
LEMMA MatchShape ==
  ASSUME NEW d, NEW devices, NEW stack, IsSound(stack, d, devices),
         NoDevice \notin devices, IsFiniteSet(devices),
         NEW p \in Ports, Match(stack, p) # NoMatch
  PROVE  LET m == Match(stack, p) IN
         /\ m = <<m[1], m[2]>>
         /\ m[1] \in StackDevices(stack)
         /\ m[2] \in ifs[m[1]]
         /\ \/ m[2] = p
            \/ /\ IsRouted(stack, p)
               /\ p.member \in DOMAIN stack.members
               /\ m[1] = stack.members[p.member]
               /\ p \notin ifs[m[1]]
               /\ m[2] = Template(p)
         /\ IsRouted(stack, p) =>
              \/ p.member \in DOMAIN stack.members /\ m[1] = stack.members[p.member]
              \/ p.member \notin DOMAIN stack.members /\ m[1] = d /\ StandIn(stack, p) = d
  <1> USE DEF NoMatch
  <1>1. CASE ~IsRouted(stack, p)
    <2> DEFINE e == MatchUnnumbered(stack, p)
               holders == Holders(stack, p)
    <2>1. Match(stack, p) = IF e = NoDevice THEN NoMatch ELSE <<e, p>>
      BY <1>1 DEF Match, IsRouted
    <2>2. e # NoDevice
      BY <2>1
    <2>3. holders \subseteq StackDevices(stack) /\ IsFiniteSet(holders)
      BY OwnerIsADevice, FS_Subset DEF Holders
    <2>4. Cardinality(holders) = 1 => holders # {}
      BY FS_EmptySet
    <2>5. e \in holders
      BY <2>2, <2>4 DEF MatchUnnumbered
    <2>6. e \in StackDevices(stack) /\ p \in ifs[e]
      BY <2>5 DEF Holders
    <2> HIDE DEF e
    <2> QED BY <1>1, <2>1, <2>2, <2>6
  <1>2. CASE IsRouted(stack, p) /\ Owner(stack, p) = NoDevice
    <2>1. ~IsBlocked(stack, p) /\ Match(stack, p) = <<StandIn(stack, p), p>>
      BY <1>2 DEF Match, IsRouted
    <2>2. StandIn(stack, p) = d /\ p \in ifs[d]
      BY <1>2, <2>1, OwnerIsADevice DEF IsBlocked
    <2>3. p.member \notin DOMAIN stack.members
      BY <1>2 DEF Owner, IsRouted, IsSound
    <2> QED BY <1>2, <2>1, <2>2, <2>3, OwnerIsADevice
  <1>3. CASE IsRouted(stack, p) /\ Owner(stack, p) # NoDevice
    <2> DEFINE e == Owner(stack, p)
    <2>1. p.member \in DOMAIN stack.members /\ e = stack.members[p.member]
      BY <1>3 DEF Owner, IsRouted
    <2>2. e \in StackDevices(stack)
      BY <1>3, OwnerIsADevice
    <2>3. Match(stack, p) = IF p \in ifs[e] THEN <<e, p>>
                            ELSE IF HasTemplate(stack, p, e) THEN <<e, Template(p)>>
                            ELSE NoMatch
      BY <1>3 DEF Match, IsRouted
    <2> HIDE DEF e
    <2>4. CASE p \in ifs[e]
      BY <1>3, <2>1, <2>2, <2>3, <2>4
    <2>5. CASE p \notin ifs[e]
      <3>1. HasTemplate(stack, p, e) /\ Match(stack, p) = <<e, Template(p)>>
        BY <2>3, <2>5
      <3>2. Template(p) \in ifs[e]
        BY <3>1 DEF HasTemplate
      <3> QED BY <1>3, <2>1, <2>2, <2>5, <3>1, <3>2
    <2> QED BY <2>4, <2>5
  <1> QED BY <1>1, <1>2, <1>3

(* In a sound stack two ports never share an interface: a device is no two *)
(* members, and a port found under a template name is not mistaken for the *)
(* port of member 1 that has this name.                                    *)
LEMMA MatchesAreApart ==
  ASSUME NEW d, NEW devices, NEW stack, IsSound(stack, d, devices),
         NoDevice \notin devices, IsFiniteSet(devices),
         NEW p \in Ports, NEW q \in Ports, p # q,
         Match(stack, p) # NoMatch, Match(stack, q) # NoMatch
  PROVE  Match(stack, p) # Match(stack, q)
  <1> SUFFICES ASSUME Match(stack, p) = Match(stack, q) PROVE FALSE
    OBVIOUS
  <1> DEFINE m == Match(stack, p)
             Direct(x) == m[2] = x
             ByTemplate(x) == /\ IsRouted(stack, x)
                              /\ x.member \in DOMAIN stack.members
                              /\ m[1] = stack.members[x.member]
                              /\ x \notin ifs[m[1]]
                              /\ m[2] = Template(x)
             Homed(x) == IsRouted(stack, x) =>
               \/ x.member \in DOMAIN stack.members /\ m[1] = stack.members[x.member]
               \/ /\ x.member \notin DOMAIN stack.members
                  /\ m[1] = d
                  /\ StandIn(stack, x) = d
  <1>1. m[2] \in ifs[m[1]] /\ \A x \in {p, q} : (Direct(x) \/ ByTemplate(x)) /\ Homed(x)
    BY MatchShape
  <1> HIDE DEF m
  <1>2. ASSUME NEW x \in {p, q}, NEW y \in {p, q}, ByTemplate(x), Direct(y) PROVE FALSE
    <2>1. y = Template(x) /\ y.member = 1 /\ y.slot = x.slot
      BY <1>2, TemplateIsNumbered
    <2>2. y # x
      BY <1>2, <1>1
    <2>3. IsRouted(stack, y)
      BY <1>2, <2>1 DEF IsRouted, NoMember
    <2>4. CASE y.member \in DOMAIN stack.members /\ m[1] = stack.members[y.member]
      <3>1. x.member = y.member
        BY <1>2, <2>4 DEF IsSound
      <3> QED BY <2>1, <2>2, <3>1, PortIsItsNumber
    <2>5. CASE /\ y.member \notin DOMAIN stack.members
               /\ m[1] = d
               /\ StandIn(stack, y) = d
      <3>1. x.member = stack.own
        BY <1>2, <2>5 DEF IsSound
      <3>2. d # NoDevice
        BY DEF IsSound
      <3>3. stack.own \in {NoMember, 1}
        BY <2>1, <2>5, <3>2 DEF StandIn
      <3>4. x.member = 1
        BY <1>2, <3>1, <3>3 DEF IsSound
      <3> QED BY <1>2, <2>1, <2>5, <3>4
    <2> QED BY <1>1, <2>3, <2>4, <2>5
  <1>3. CASE Direct(p) /\ Direct(q)
    BY <1>3
  <1>4. CASE ByTemplate(p) /\ ByTemplate(q)
    <2>1. p.member = q.member
      BY <1>4 DEF IsSound
    <2>2. p.slot = q.slot
      BY <1>4, TemplateIsNumbered
    <2> QED BY <2>1, <2>2, PortIsItsNumber
  <1> QED BY <1>1, <1>2, <1>3, <1>4

-----------------------------------------------------------------------------
(* The inductive invariant.  What a host's ports are filed by, whichever   *)
(* way its lookups end, and the hosts a stack was handled through.         *)
Stk(h) == StackOf(h, FALSE)
Key(h) == Stk(h).key
Seen(h) == <<Key(h), h>> \in stacksSeen

(* A plan that holds anything has a host it was made through.              *)
PlansHaveHosts == \A d \in Devices : plans[d].via = NoDevice => plans[d] = NoPlan

Typed == TypeOK /\ PlansHaveHosts

(* Each stack is handled through one host per step, and a host passed over *)
(* has the key of that one.                                                *)
AllHandled == \A h \in Hosts : \E g \in Hosts : Seen(g) /\ Key(g) = Key(h)

Handled ==
  /\ \A t \in stacksSeen : \E h \in Hosts : t = <<Key(h), h>>
  /\ stacksSeen # {} => Lookups # {}
  /\ \A g, h \in Hosts : Seen(g) /\ Seen(h) /\ Key(g) = Key(h) => g = h
  /\ stage \in {"create", "sync"} =>
       /\ waiting \subseteq Hosts
       /\ \A h \in Hosts \ waiting : \E g \in Hosts : Seen(g) /\ Key(g) = Key(h)
  /\ stage \in {"apply", "done"} => AllHandled
  /\ stage = "apply" => waiting \subseteq Devices
  /\ stage = "apply" /\ ~apply => waiting = {}
  /\ \A p \in passedOver : Key(p[1]) = Key(p[2])

(* A device is in one plan, made through the host its stack was handled    *)
(* through; until the plan is applied it is what the device still lacks.   *)
HostMissing(h, d) == Missing(Stk(h), site.reports[h], d)
HostRenames(h, d) == Renames(Stk(h), site.reports[h], d)

Planned ==
  stage \in {"create", "apply"} =>
    /\ \A d \in Devices :
         LET h == plans[d].via IN
         h # NoDevice =>
           /\ Seen(h)
           /\ d \in StackDevices(Stk(h))
           /\ stage = "create" \/ d \in waiting =>
                /\ plans[d].missing = HostMissing(h, d)
                /\ plans[d].rename = HostRenames(h, d)
    /\ \A h \in Hosts : Seen(h) => \A d \in StackDevices(Stk(h)) : plans[d].via = h

(* A plan passes on every port that its create step would make.            *)
Foretold ==
  ~apply /\ stage # "create" =>
    \A h \in Hosts : \A d \in StackDevices(Stk(h)) : \A p \in HostMissing(h, d) :
      AwaitsCreation(Stk(h), p)

(* Until a write fails, the devices whose plan was applied lack nothing.   *)
Clean == apply /\ ~trouble

Satisfied(h, d) == HostMissing(h, d) = {} /\ HostRenames(h, d) = {}

Filled ==
  Clean =>
    /\ stage = "apply" =>
         \A h \in Hosts : Seen(h) => \A d \in StackDevices(Stk(h)) \ waiting : Satisfied(h, d)
    /\ stage \in {"sync", "done"} =>
         \A h \in Hosts : \A d \in StackDevices(Stk(h)) : Satisfied(h, d)

(* An interface is given a state when its stack is handled, and then has   *)
(* that of the port it was matched to.                                     *)
Carries(h, stack) ==
  /\ \A p \in site.reports[h] :
       Match(stack, p) # NoMatch => cfg[Match(stack, p)] = <<site.plane[h], p>>
  /\ \A i \in Devices \X Names : i[1] \in StackDevices(stack) /\ cfg[i] # Blank =>
       \E p \in site.reports[h] : Match(stack, p) = i /\ cfg[i] = <<site.plane[h], p>>

Settled ==
  /\ stage \in {"create", "apply"} => \A i \in Devices \X Names : cfg[i] = Blank
  /\ Clean /\ stage \in {"sync", "done"} =>
       /\ \A i \in Devices \X Names :
            cfg[i] # Blank => \E h \in Hosts : Seen(h) /\ i[1] \in StackDevices(Stk(h))
       /\ \A h \in Hosts : Seen(h) => \E lf \in BOOLEAN : Carries(h, StackOf(h, lf))

(* A created or renamed interface is its port's, and the sync step gives   *)
(* it that port's state.                                                   *)
Created(h, p, d) ==
  /\ h \in Hosts
  /\ p \in site.reports[h]
  /\ Owner(Stk(h), p) = d
  /\ d \in Devices
  /\ p \in ifs[d]
  /\ stage = "apply" => d \notin waiting
  /\ IsStackWide(p) => \A e \in StackDevices(Stk(h)) : p \in ifs[e] => e = d

Written ==
  /\ stage = "create" => writes = {}
  /\ Clean => \A w \in writes :
       \/ Created(w[1], w[2], w[3])
       \/ /\ stage \in {"sync", "done"}
          /\ cfg[<<w[3], w[2]>>] = <<site.plane[w[1]], w[2]>>

-----------------------------------------------------------------------------
(* Type correctness.  What the actions are made of is typed.               *)
LEMMA ReportsAreNames ==
  ASSUME NEW h \in Hosts
  PROVE  site.reports[h] \subseteq Names
  <1>1. site.reports[h] \in {site.reports[g] : g \in Hosts}
    OBVIOUS
  <1> QED BY <1>1 DEF Names

(* What is known of every host of a site: its ports, and its stack.        *)
LEMMA SiteFacts ==
  ASSUME site \in Sites
  PROVE  /\ IsFiniteSet(Devices)
         /\ NoDevice \notin Devices
         /\ Hosts \subseteq Devices
         /\ \A h \in Hosts : site.reports[h] \subseteq Ports /\ site.reports[h] \subseteq Names
         /\ \A h \in Hosts, lf \in BOOLEAN :
              /\ IsSound(StackOf(h, lf), h, Devices)
              /\ SameButClaims(StackOf(h, lf), Stk(h))
              /\ StackDevices(StackOf(h, lf)) \subseteq Devices
              /\ StackDevices(StackOf(h, lf)) = StackDevices(Stk(h))
              /\ h \in StackDevices(Stk(h))
  <1>1. /\ IsFiniteSet(Devices)
        /\ NoDevice \notin Devices
        /\ Hosts \subseteq Devices
        /\ \A h \in Hosts : site.reports[h] \subseteq Ports
    BY SitesAssumption DEF Devices, Hosts
  <1>2. \A h \in Hosts : site.reports[h] \subseteq Names
    BY ReportsAreNames
  <1>3. ASSUME NEW h \in Hosts, NEW lf \in BOOLEAN
        PROVE  IsSound(StackOf(h, lf), h, Devices) /\ SameButClaims(StackOf(h, lf), Stk(h))
    BY <1>3, RouteIsSound, LookupsClaimOnly DEF StackOf, Stk, Hosts, Devices
  <1>4. ASSUME NEW h \in Hosts, NEW lf \in BOOLEAN
        PROVE  /\ StackDevices(StackOf(h, lf)) \subseteq Devices
               /\ StackDevices(StackOf(h, lf)) = StackDevices(Stk(h))
               /\ h \in StackDevices(Stk(h))
    BY <1>3 DEF StackDevices, IsSound, SameButClaims, Range
  <1> QED BY <1>1, <1>2, <1>3, <1>4

(* A switch that is no stack has one device.                               *)
LEMMA LoneStack ==
  ASSUME TypeOK, NEW h \in Hosts, ~IsStack(Stk(h))
  PROVE  StackDevices(Stk(h)) = {h} /\ Key(h) = <<"device", h>>
  <1>1. IsSound(Stk(h), h, Devices)
    BY SiteFacts DEF TypeOK, Stk
  <1>2. Stk(h).connected = h /\ Stk(h).anchor = h /\ DOMAIN Stk(h).members = {}
    BY <1>1 DEF IsSound
  <1>3. Range(Stk(h).members) = {}
    BY <1>2 DEF Range
  <1> QED BY <1>1, <1>2, <1>3 DEF StackDevices, IsSound, Key

(* The site never changes.                                                 *)
LEMMA SiteStays ==
  ASSUME site' = site
  PROVE  /\ Devices' = Devices
         /\ Hosts' = Hosts
         /\ Names' = Names
         /\ PortsOfSite' = PortsOfSite
         /\ \A h, lf : StackOf(h, lf)' = StackOf(h, lf)
         /\ \A h : Stk(h)' = Stk(h) /\ Key(h)' = Key(h)
  BY DEF Devices, Hosts, Names, PortsOfSite, StackOf, Stk, Key

(* A match is an interface that exists.                                    *)
LEMMA MatchExists ==
  ASSUME TypeOK, NEW h \in Hosts, NEW lf \in BOOLEAN, NEW p \in site.reports[h],
         Match(StackOf(h, lf), p) # NoMatch
  PROVE  LET m == Match(StackOf(h, lf), p) IN
         /\ m = <<m[1], m[2]>>
         /\ m[1] \in StackDevices(Stk(h))
         /\ m[1] \in Devices
         /\ m[2] \in ifs[m[1]]
         /\ m \in Devices \X Names
  <1> DEFINE m == Match(StackOf(h, lf), p)
  <1> site \in Sites
    BY DEF TypeOK
  <1>1. /\ IsSound(StackOf(h, lf), h, Devices)
        /\ NoDevice \notin Devices
        /\ IsFiniteSet(Devices)
        /\ p \in Ports
        /\ StackDevices(StackOf(h, lf)) = StackDevices(Stk(h))
        /\ StackDevices(Stk(h)) \subseteq Devices
    BY SiteFacts
  <1>2. /\ m = <<m[1], m[2]>>
        /\ m[1] \in StackDevices(StackOf(h, lf))
        /\ m[2] \in ifs[m[1]]
    BY <1>1, MatchShape
  <1>3. m[1] \in Devices
    BY <1>1, <1>2
  <1>4. m[2] \in Names
    BY <1>2, <1>3 DEF TypeOK
  <1> QED BY <1>1, <1>2, <1>3, <1>4

(* What a plan holds are names of the site.                                *)
LEMMA PlansAreTyped ==
  ASSUME TypeOK, NEW h \in Hosts, NEW stack, NEW d \in Devices
  PROVE  /\ Missing(stack, site.reports[h], d) \in SUBSET Names
         /\ Renames(stack, site.reports[h], d) \in SUBSET (Names \X Names)
  <1>1. site.reports[h] \subseteq Names
    BY ReportsAreNames
  <1>2. ifs[d] \subseteq Names
    BY DEF TypeOK
  <1> QED BY <1>1, <1>2 DEF Missing, Renames, HasTemplate

(* The start is typed, and no plan is made yet.                            *)
LEMMA InitTyped == Init => Typed
  <1> SUFFICES ASSUME Init PROVE Typed
    OBVIOUS
  <1> DEFINE PlanType == [missing : SUBSET Names, rename : SUBSET (Names \X Names),
                          via : Hosts \cup {NoDevice}]
  <1>1. site \in Sites /\ apply \in BOOLEAN
    BY DEF Init
  <1>2. ifs \in [Devices -> SUBSET Names]
    BY DEF Init
  <1>3. /\ cfg \in [Devices \X Names -> PortsOfSite \cup {Blank}]
        /\ \A i \in Devices \X Names : cfg[i] = Blank
    BY DEF Init
  <1>4. NoPlan \in PlanType
    BY DEF NoPlan
  <1>5. plans \in [Devices -> PlanType] /\ PlansHaveHosts
    BY <1>4 DEF Init, PlansHaveHosts
  <1>6. stage = "create" /\ waiting \in SUBSET (Hosts \cup Devices)
    BY DEF Init
  <1>7. stacksSeen = {} /\ pending = {} /\ errors = {} /\ skipped = {} /\ passedOver = {} /\ writes = {}
        /\ trouble = FALSE
    BY DEF Init
  <1> QED BY <1>1, <1>2, <1>3, <1>5, <1>6, <1>7 DEF TypeOK, Typed

(* Every step keeps the types, and makes plans through hosts only.         *)
LEMMA NextTyped == Typed /\ [Next]_vars => Typed'
  <1> SUFFICES ASSUME Typed, [Next]_vars PROVE Typed'
    OBVIOUS
  <1> USE DEF Typed
  <1> DEFINE PlanType == [missing : SUBSET Names, rename : SUBSET (Names \X Names),
                          via : Hosts \cup {NoDevice}]
  <1>1. ASSUME NEW h \in Hosts, CreateHost(h) PROVE Typed'
    <2>1. UNCHANGED <<site, apply, ifs, cfg, stage, pending, errors, writes, trouble>>
          /\ waiting' = waiting \ {h}
      BY <1>1 DEF CreateHost
    <2>2. PICK lf \in Lookups :
            IF SeenVia(StackOf(h, lf)) # {}
            THEN /\ passedOver' = passedOver \cup {<<h, g>> : g \in SeenVia(StackOf(h, lf))}
                 /\ UNCHANGED <<stacksSeen, plans, skipped>>
            ELSE /\ UNCHANGED passedOver
                 /\ stacksSeen' = stacksSeen \cup {<<StackOf(h, lf).key, h>>}
                 /\ skipped' = skipped \cup
                      {<<"create", h, p>> : p \in {q \in site.reports[h] :
                                                   IsBlocked(StackOf(h, lf), q)}}
                 /\ plans' = [d \in Devices |->
                      IF d \notin StackDevices(StackOf(h, lf)) THEN plans[d]
                      ELSE [missing |-> plans[d].missing
                                          \cup Missing(StackOf(h, lf), site.reports[h], d),
                            rename |-> plans[d].rename
                                         \cup Renames(StackOf(h, lf), site.reports[h], d),
                            via |-> IF plans[d].via = NoDevice THEN h ELSE plans[d].via]]
      BY <1>1 DEF CreateHost
    <2> DEFINE stack == StackOf(h, lf)
               seen == SeenVia(stack)
               missing(d) == Missing(stack, site.reports[h], d)
               rename(d) == Renames(stack, site.reports[h], d)
    <2>3. seen \subseteq Hosts
      BY DEF SeenVia, TypeOK
    <2>4. passedOver' \in SUBSET (Hosts \X Hosts)
      BY <2>2, <2>3 DEF TypeOK
    <2>5. skipped' \in SUBSET ({"create", "sync"} \X Hosts \X Names)
      BY <2>2, ReportsAreNames DEF TypeOK
    <2>6. \A d \in Devices : missing(d) \in SUBSET Names /\ rename(d) \in SUBSET (Names \X Names)
      BY PlansAreTyped
    <2>7. /\ plans' \in [Devices -> PlanType]
          /\ \A d \in Devices : plans'[d].via = NoDevice => plans'[d] = NoPlan
      <3>1. CASE plans' = plans
        BY <3>1 DEF TypeOK, PlansHaveHosts
      <3>2. CASE plans' = [d \in Devices |->
                     IF d \notin StackDevices(stack) THEN plans[d]
                     ELSE [missing |-> plans[d].missing \cup missing(d),
                           rename |-> plans[d].rename \cup rename(d),
                           via |-> IF plans[d].via = NoDevice THEN h ELSE plans[d].via]]
        <4> HIDE DEF stack, missing, rename
        <4>1. h # NoDevice
          BY SiteFacts DEF TypeOK
        <4>2. plans \in [Devices -> PlanType]
          BY DEF TypeOK
        <4> QED BY <2>6, <3>2, <4>1, <4>2 DEF PlansHaveHosts
      <3> QED BY <2>2, <3>1, <3>2
    <2>8. \A t \in stacksSeen' : t[2] \in Hosts
      <3>1. stacksSeen' \subseteq stacksSeen \cup {<<stack.key, h>>}
        BY <2>2
      <3> QED BY <3>1 DEF TypeOK
    <2> HIDE DEF PlanType, stack, seen, missing, rename
    <2>9. TypeOK'
      BY <2>1, <2>4, <2>5, <2>7, <2>8, SiteStays DEF TypeOK, PlanType
    <2>10. PlansHaveHosts'
      BY <2>1, <2>7, SiteStays DEF PlansHaveHosts
    <2> QED BY <2>9, <2>10
  <1>2. ASSUME CreateReports PROVE Typed'
    <2>1. UNCHANGED <<site, apply, ifs, cfg, stacksSeen, plans, errors, skipped,
                      passedOver, writes, trouble>>
      BY <1>2 DEF CreateReports
    <2>2. stage' = "apply" /\ waiting' \in SUBSET (Hosts \cup Devices)
      BY <1>2 DEF CreateReports
    <2>3. pending' \in SUBSET (Devices \X Names)
      <3>1. \A d \in Devices : plans[d].missing \in SUBSET Names
        BY DEF TypeOK
      <3>2. pending' \subseteq UNION {{d} \X plans[d].missing : d \in Devices}
        BY <1>2 DEF CreateReports
      <3> QED BY <3>1, <3>2
    <2>4. TypeOK'
      BY <2>1, <2>2, <2>3, SiteStays DEF TypeOK
    <2>5. PlansHaveHosts'
      BY <2>1, SiteStays DEF PlansHaveHosts
    <2> QED BY <2>4, <2>5
  <1>3. ASSUME NEW d \in Devices, ApplyPlan(d) PROVE Typed'
    <2> DEFINE plan == plans[d]
    <2>1. /\ UNCHANGED <<site, apply, stage, stacksSeen, plans, pending, errors,
                         skipped, passedOver>>
          /\ waiting' = waiting \ {d}
      BY <1>3 DEF ApplyPlan
    <2>2. PICK creates \in BOOLEAN, renames \in BOOLEAN :
            LET new == IF creates THEN plan.missing ELSE {}
                renamed == IF renames THEN plan.rename ELSE {}
                old == {r[1] : r \in renamed}
                names == {r[2] : r \in renamed} IN
            /\ ifs' = [ifs EXCEPT ![d] = (@ \ old) \cup new \cup names]
            /\ cfg' = [i \in DOMAIN cfg |->
                         IF i[1] # d THEN cfg[i]
                         ELSE IF i[2] \in names
                           THEN cfg[<<d, (CHOOSE r \in renamed : r[2] = i[2])[1]>>]
                         ELSE IF i[2] \in old THEN Blank ELSE cfg[i]]
            /\ writes' = writes \cup {<<plan.via, p, d>> : p \in new \cup names}
            /\ trouble' = (trouble \/ (~creates /\ plan.missing # {})
                                   \/ (~renames /\ plan.rename # {}))
      BY <1>3 DEF ApplyPlan
    <2> DEFINE new == IF creates THEN plan.missing ELSE {}
               renamed == IF renames THEN plan.rename ELSE {}
               old == {r[1] : r \in renamed}
               names == {r[2] : r \in renamed}
               From(i) == CHOOSE r \in renamed : r[2] = i[2]
    <2>3. plan \in PlanType
      BY DEF TypeOK
    <2>4. new \subseteq Names /\ renamed \subseteq Names \X Names /\ old \subseteq Names
          /\ names \subseteq Names
      BY <2>3
    <2>5. ifs \in [Devices -> SUBSET Names] /\ cfg \in [Devices \X Names -> PortsOfSite \cup {Blank}]
      BY DEF TypeOK
    <2>6. plan.via = NoDevice => new = {} /\ names = {}
      BY DEF PlansHaveHosts, NoPlan
    <2>7. plan.via # NoDevice => plan.via \in Hosts
      BY <2>3
    <2>8. \A i \in Devices \X Names : i[2] \in names => From(i) \in renamed
      OBVIOUS
    <2> HIDE DEF new, renamed, old, names, From, plan
    <2>9. /\ ifs' = [ifs EXCEPT ![d] = (@ \ old) \cup new \cup names]
          /\ cfg' = [i \in DOMAIN cfg |->
                       IF i[1] # d THEN cfg[i]
                       ELSE IF i[2] \in names THEN cfg[<<d, From(i)[1]>>]
                       ELSE IF i[2] \in old THEN Blank ELSE cfg[i]]
          /\ writes' = writes \cup {<<plan.via, p, d>> : p \in new \cup names}
          /\ trouble' \in BOOLEAN
      BY <2>2 DEF new, renamed, old, names, From, TypeOK
    <2>10. ifs' \in [Devices -> SUBSET Names]
      BY <2>4, <2>5, <2>9
    <2>11. cfg' \in [Devices \X Names -> PortsOfSite \cup {Blank}]
      BY <2>4, <2>5, <2>8, <2>9
    <2>12. \A i \in Devices \X Names : cfg'[i] # Blank => i[2] \in ifs'[i[1]]
      <3> SUFFICES ASSUME NEW i \in Devices \X Names, cfg'[i] # Blank
                   PROVE  i[2] \in ifs'[i[1]]
        OBVIOUS
      <3>1. cfg[i] # Blank => i[2] \in ifs[i[1]]
        BY DEF TypeOK
      <3>2. CASE i[1] # d
        BY <2>5, <2>9, <3>1, <3>2
      <3>3. CASE i[1] = d /\ i[2] \in names
        BY <2>5, <2>9, <3>3
      <3>4. CASE i[1] = d /\ i[2] \notin names
        <4>1. i[2] \notin old /\ cfg'[i] = cfg[i]
          BY <2>5, <2>9, <3>4
        <4> QED BY <2>5, <2>9, <3>1, <3>4, <4>1
      <3> QED BY <3>2, <3>3, <3>4
    <2>13. writes' \in SUBSET (Hosts \X Names \X Devices)
      BY <2>4, <2>6, <2>7, <2>9 DEF TypeOK
    <2> HIDE DEF PlanType
    <2>14. TypeOK'
      BY <2>1, <2>9, <2>10, <2>11, <2>12, <2>13, SiteStays DEF TypeOK
    <2>15. PlansHaveHosts'
      BY <2>1, SiteStays DEF PlansHaveHosts
    <2> QED BY <2>14, <2>15
  <1>4. ASSUME StartSync PROVE Typed'
    <2>1. UNCHANGED <<site, apply, ifs, cfg, plans, pending, errors, skipped,
                      passedOver, writes, trouble>>
          /\ stage' = "sync" /\ waiting' = Hosts /\ stacksSeen' = {}
      BY <1>4 DEF StartSync
    <2>2. TypeOK'
      BY <2>1, SiteStays DEF TypeOK
    <2>3. PlansHaveHosts'
      BY <2>1, SiteStays DEF PlansHaveHosts
    <2> QED BY <2>2, <2>3
  <1>5. ASSUME NEW h \in Hosts, SyncHost(h) PROVE Typed'
    <2>1. UNCHANGED <<site, apply, ifs, stage, plans, pending>>
          /\ waiting' = waiting \ {h}
      BY <1>5 DEF SyncHost
    <2>2. PICK lf \in Lookups :
            LET stack == StackOf(h, lf)
                ports == site.reports[h]
                matched == {p \in ports : Match(stack, p) # NoMatch}
                stale == {p \in matched : cfg[Match(stack, p)] # <<site.plane[h], p>>}
                blocked == {p \in ports : IsBlocked(stack, p)} IN
            IF SeenVia(stack) # {}
            THEN /\ passedOver' = passedOver \cup {<<h, g>> : g \in SeenVia(stack)}
                 /\ UNCHANGED <<cfg, stacksSeen, errors, skipped, writes, trouble>>
            ELSE /\ stacksSeen' = stacksSeen \cup {<<stack.key, h>>}
                 /\ UNCHANGED passedOver
                 /\ skipped' = skipped \cup {<<"sync", h, p>> : p \in blocked}
                 /\ errors' = errors \cup
                      {<<h, p>> : p \in {q \in ports \ (matched \cup blocked) :
                                           ~AwaitsCreation(stack, q)}}
                 /\ IF ~apply THEN UNCHANGED <<cfg, writes, trouble>>
                    ELSE \E failing \in {{}} \cup {{p} : p \in stale} :
                      LET written == stale \ failing IN
                      /\ cfg' = [i \in DOMAIN cfg |->
                           IF \E p \in written : Match(stack, p) = i
                           THEN <<site.plane[h],
                                  CHOOSE p \in written : Match(stack, p) = i>>
                           ELSE cfg[i]]
                      /\ writes' = writes \cup
                           {<<h, p, Match(stack, p)[1]>> : p \in written}
                      /\ trouble' = (trouble \/ failing # {})
      BY <1>5 DEF SyncHost
    <2> DEFINE stack == StackOf(h, lf)
               ports == site.reports[h]
               M(p) == Match(stack, p)
               seen == SeenVia(stack)
    <2>3. lf \in BOOLEAN
      BY LookupsAssumption
    <2>4. seen \subseteq Hosts
      BY DEF SeenVia, TypeOK
    <2>5. ports \subseteq Names
      BY ReportsAreNames
    <2>6. \A p \in ports : M(p) # NoMatch =>
            M(p) \in Devices \X Names /\ M(p)[1] \in Devices /\ M(p)[2] \in ifs[M(p)[1]]
      BY <2>3, MatchExists
    <2>7. \A p \in ports : <<site.plane[h], p>> \in PortsOfSite
      BY DEF PortsOfSite
    <2>8. cfg \in [Devices \X Names -> PortsOfSite \cup {Blank}]
      BY DEF TypeOK
    <2> HIDE DEF stack, ports, M, seen
    <2>9. passedOver' \in SUBSET (Hosts \X Hosts) /\ \A t \in stacksSeen' : t[2] \in Hosts
      <3>1. stacksSeen' \subseteq stacksSeen \cup {<<stack.key, h>>}
            /\ passedOver' \subseteq passedOver \cup {<<h, g>> : g \in seen}
        BY <2>2 DEF stack, seen
      <3> QED BY <2>4, <3>1 DEF TypeOK
    <2>10. /\ skipped' \in SUBSET ({"create", "sync"} \X Hosts \X Names)
           /\ errors' \in SUBSET (Hosts \X Names)
      <3>1. /\ skipped' \subseteq skipped \cup {<<"sync", h, p>> : p \in ports}
            /\ errors' \subseteq errors \cup {<<h, p>> : p \in ports}
        BY <2>2 DEF stack, ports
      <3> QED BY <2>5, <3>1 DEF TypeOK
    <2>11. \/ UNCHANGED <<cfg, writes, trouble>>
           \/ \E written \in SUBSET {p \in ports : M(p) # NoMatch} :
                /\ cfg' = [i \in DOMAIN cfg |->
                      IF \E p \in written : M(p) = i
                      THEN <<site.plane[h], CHOOSE p \in written : M(p) = i>>
                      ELSE cfg[i]]
                /\ writes' = writes \cup {<<h, p, M(p)[1]>> : p \in written}
                /\ trouble' \in BOOLEAN
      BY <2>2 DEF stack, ports, M, TypeOK
    <2>12. /\ cfg' \in [Devices \X Names -> PortsOfSite \cup {Blank}]
           /\ \A i \in Devices \X Names : cfg'[i] # Blank => i[2] \in ifs[i[1]]
           /\ writes' \in SUBSET (Hosts \X Names \X Devices)
           /\ trouble' \in BOOLEAN
      <3>1. CASE UNCHANGED <<cfg, writes, trouble>>
        BY <3>1 DEF TypeOK
      <3>2. ASSUME NEW written \in SUBSET {p \in ports : M(p) # NoMatch},
                   cfg' = [i \in DOMAIN cfg |->
                      IF \E p \in written : M(p) = i
                      THEN <<site.plane[h], CHOOSE p \in written : M(p) = i>>
                      ELSE cfg[i]],
                   writes' = writes \cup {<<h, p, M(p)[1]>> : p \in written},
                   trouble' \in BOOLEAN
            PROVE  /\ cfg' \in [Devices \X Names -> PortsOfSite \cup {Blank}]
                   /\ \A i \in Devices \X Names : cfg'[i] # Blank => i[2] \in ifs[i[1]]
                   /\ writes' \in SUBSET (Hosts \X Names \X Devices)
                   /\ trouble' \in BOOLEAN
        <4> DEFINE By(i) == CHOOSE p \in written : M(p) = i
        <4>1. \A i : (\E p \in written : M(p) = i) => By(i) \in written /\ M(By(i)) = i
          OBVIOUS
        <4> HIDE DEF By
        <4>2. cfg' = [i \in Devices \X Names |->
                 IF \E p \in written : M(p) = i THEN <<site.plane[h], By(i)>> ELSE cfg[i]]
          BY <2>8, <3>2 DEF By
        <4>3. \A i \in Devices \X Names : cfg[i] # Blank => i[2] \in ifs[i[1]]
          BY DEF TypeOK
        <4>4. cfg' \in [Devices \X Names -> PortsOfSite \cup {Blank}]
          BY <2>7, <2>8, <4>1, <4>2
        <4>5. \A i \in Devices \X Names : cfg'[i] # Blank => i[2] \in ifs[i[1]]
          BY <2>6, <4>1, <4>2, <4>3
        <4>6. writes' \in SUBSET (Hosts \X Names \X Devices)
          BY <2>5, <2>6, <3>2 DEF TypeOK
        <4> QED BY <3>2, <4>4, <4>5, <4>6
      <3> QED BY <2>11, <3>1, <3>2
    <2> HIDE DEF PlanType
    <2>13. TypeOK'
      BY <2>1, <2>9, <2>10, <2>12, SiteStays DEF TypeOK
    <2>14. PlansHaveHosts'
      BY <2>1, SiteStays DEF PlansHaveHosts
    <2> QED BY <2>13, <2>14
  <1>6. ASSUME Finish PROVE Typed'
    <2>1. /\ UNCHANGED <<site, apply, ifs, cfg, waiting, stacksSeen, plans, pending,
                         errors, skipped, passedOver, writes, trouble>>
          /\ stage' = "done"
      BY <1>6 DEF Finish
    <2>2. TypeOK'
      BY <2>1, SiteStays DEF TypeOK
    <2>3. PlansHaveHosts'
      BY <2>1, SiteStays DEF PlansHaveHosts
    <2> QED BY <2>2, <2>3
  <1>7. CASE UNCHANGED vars
    <2>1. UNCHANGED <<site, apply, ifs, cfg, stage, waiting, stacksSeen, plans, pending,
                      errors, skipped, passedOver, writes, trouble>>
      BY <1>7 DEF vars
    <2>2. TypeOK'
      BY <2>1, SiteStays DEF TypeOK
    <2>3. PlansHaveHosts'
      BY <2>1, SiteStays DEF PlansHaveHosts
    <2> QED BY <2>2, <2>3
  <1> QED BY <1>1, <1>2, <1>3, <1>4, <1>5, <1>6, <1>7 DEF Next

(* Every reachable state is typed: among the rest, no interface carries a  *)
(* port's state that its device does not have.                             *)
THEOREM TypeCorrect == Spec => []TypeOK
  <1>1. Typed => TypeOK
    BY DEF Typed
  <1> QED BY <1>1, InitTyped, NextTyped, PTL DEF Spec

-----------------------------------------------------------------------------
(* "Two ports of a switch are never matched to one interface": true of     *)
(* every fleet, whatever its names, chassis and interfaces.                *)
LEMMA TypedHasOneInterfacePerPort == TypeOK => OneInterfacePerPort
  <1> SUFFICES ASSUME TypeOK, NEW h \in Hosts, NEW lf \in Lookups,
                      NEW p \in site.reports[h], NEW q \in site.reports[h],
                      p # q, Match(StackOf(h, lf), p) # NoMatch
               PROVE  Match(StackOf(h, lf), p) # Match(StackOf(h, lf), q)
    BY DEF OneInterfacePerPort
  <1>1. /\ IsSound(StackOf(h, lf), h, Devices)
        /\ NoDevice \notin Devices
        /\ IsFiniteSet(Devices)
        /\ p \in Ports
        /\ q \in Ports
    BY SiteFacts, LookupsAssumption DEF TypeOK
  <1> QED BY <1>1, MatchesAreApart

(* Two ports of a switch never share an interface, in any fleet.           *)
THEOREM PortsKeepApart == Spec => []OneInterfacePerPort
  BY TypeCorrect, TypedHasOneInterfacePerPort, PTL

-----------------------------------------------------------------------------
(* How either step handles a host: through one key, it is passed over or   *)
(* its stack counts as seen.                                               *)
LEMMA HostIsHandled ==
  ASSUME TypeOK, NEW h \in Hosts, CreateHost(h) \/ SyncHost(h)
  PROVE  /\ site' = site /\ stage' = stage /\ apply' = apply
         /\ stage \in {"create", "sync"}
         /\ h \in waiting
         /\ waiting' = waiting \ {h}
         /\ Lookups # {}
         /\ IF SeenVia(Stk(h)) # {}
            THEN /\ passedOver' = passedOver \cup {<<h, g>> : g \in SeenVia(Stk(h))}
                 /\ stacksSeen' = stacksSeen
            ELSE /\ passedOver' = passedOver
                 /\ stacksSeen' = stacksSeen \cup {<<Key(h), h>>}
  <1>1. \A lf \in Lookups : StackOf(h, lf).key = Key(h)
    BY SiteFacts, LookupsAssumption DEF TypeOK, SameButClaims, Key
  <1>2. \A lf \in Lookups : SeenVia(StackOf(h, lf)) = SeenVia(Stk(h))
    BY <1>1 DEF SeenVia, Key
  <1>3. CASE CreateHost(h)
    BY <1>1, <1>2, <1>3 DEF CreateHost
  <1>4. CASE SyncHost(h)
    BY <1>1, <1>2, <1>4 DEF SyncHost
  <1> QED BY <1>3, <1>4

(* A stack counts as seen just when a host of its key was handled.         *)
LEMMA SeenHosts ==
  ASSUME TypeOK, Handled, NEW h \in Hosts
  PROVE  /\ SeenVia(Stk(h)) = {g \in Hosts : Seen(g) /\ Key(g) = Key(h)}
         /\ Seen(h) => SeenVia(Stk(h)) # {}
  <1>1. ASSUME NEW g \in SeenVia(Stk(h)) PROVE g \in Hosts /\ Seen(g) /\ Key(g) = Key(h)
    <2>1. PICK t \in stacksSeen : t[1] = Key(h) /\ t[2] = g
      BY DEF SeenVia, Key
    <2>2. PICK k \in Hosts : t = <<Key(k), k>>
      BY DEF Handled
    <2> QED BY <2>1, <2>2 DEF Seen
  <1>2. ASSUME NEW g \in Hosts, Seen(g), Key(g) = Key(h) PROVE g \in SeenVia(Stk(h))
    <2>1. <<Key(g), g>> \in {t \in stacksSeen : t[1] = Stk(h).key}
      BY <1>2 DEF Seen, Key
    <2> QED BY <2>1 DEF SeenVia
  <1> QED BY <1>1, <1>2

(* At the start no host was handled.                                       *)
LEMMA InitHandled == Init => Handled
  <1> SUFFICES ASSUME Init PROVE Handled
    OBVIOUS
  <1>1. stacksSeen = {} /\ passedOver = {} /\ stage = "create" /\ waiting = Hosts
    BY DEF Init
  <1> QED BY <1>1 DEF Handled, Seen

(* Each step handles one host per key and keeps count of the others.       *)
LEMMA NextHandled == Typed /\ Handled /\ [Next]_vars => Handled'
  <1> SUFFICES ASSUME Typed, Handled, [Next]_vars PROVE Handled'
    OBVIOUS
  <1> TypeOK
    BY DEF Typed
  <1>1. ASSUME NEW h \in Hosts, CreateHost(h) \/ SyncHost(h) PROVE Handled'
    <2>1. /\ site' = site /\ stage' = stage /\ apply' = apply
          /\ stage \in {"create", "sync"}
          /\ h \in waiting
          /\ waiting' = waiting \ {h}
          /\ Lookups # {}
          /\ IF SeenVia(Stk(h)) # {}
             THEN /\ passedOver' = passedOver \cup {<<h, g>> : g \in SeenVia(Stk(h))}
                  /\ stacksSeen' = stacksSeen
             ELSE /\ passedOver' = passedOver
                  /\ stacksSeen' = stacksSeen \cup {<<Key(h), h>>}
      BY <1>1, HostIsHandled
    <2>2. Hosts' = Hosts /\ \A g : Key(g)' = Key(g)
      BY <2>1, SiteStays
    <2>3. CASE SeenVia(Stk(h)) # {}
      <3>1. PICK g \in Hosts : Seen(g) /\ Key(g) = Key(h)
        BY <2>3, SeenHosts
      <3>2. \A p \in passedOver' : Key(p[1]) = Key(p[2])
        <4>1. \A k \in SeenVia(Stk(h)) : Key(k) = Key(h)
          BY SeenHosts
        <4> QED BY <2>1, <2>3, <4>1 DEF Handled
      <3>3. \A k : Seen(k)' <=> Seen(k)
        BY <2>1, <2>2, <2>3 DEF Seen
      <3> QED BY <2>1, <2>2, <2>3, <3>1, <3>2, <3>3 DEF Handled
    <2>4. CASE SeenVia(Stk(h)) = {}
      <3>1. \A g \in Hosts : Seen(g) => Key(g) # Key(h)
        BY <2>4, SeenHosts
      <3>2. \A k : Seen(k)' <=> Seen(k) \/ k = h
        BY <2>1, <2>2, <2>4 DEF Seen
      <3>3. \A t \in stacksSeen' : \E k \in Hosts : t = <<Key(k), k>>
        BY <2>1, <2>4 DEF Handled
      <3>4. \A k \in Hosts \ waiting' : \E g \in Hosts : Seen(g)' /\ Key(g) = Key(k)
        BY <2>1, <3>2 DEF Handled
      <3> QED BY <2>1, <2>2, <2>4, <3>1, <3>2, <3>3, <3>4 DEF Handled
    <2> QED BY <2>3, <2>4
  <1>2. ASSUME CreateReports PROVE Handled'
    <2>1. UNCHANGED <<site, apply, stacksSeen, passedOver>> /\ stage = "create" /\ waiting = {}
          /\ stage' = "apply" /\ waiting' = (IF apply THEN {d \in Devices : plans[d] # NoPlan} ELSE {})
      BY <1>2 DEF CreateReports
    <2>2. Hosts' = Hosts /\ Devices' = Devices /\ (\A g : Key(g)' = Key(g)) /\ \A g : Seen(g)' <=> Seen(g)
      BY <2>1, SiteStays DEF Seen
    <2>3. AllHandled
      BY <2>1 DEF Handled, AllHandled
    <2> QED BY <2>1, <2>2, <2>3 DEF Handled, AllHandled
  <1>3. ASSUME NEW d \in Devices, ApplyPlan(d) PROVE Handled'
    <2>1. UNCHANGED <<site, apply, stage, stacksSeen, passedOver>> /\ stage = "apply"
          /\ waiting' = waiting \ {d}
      BY <1>3 DEF ApplyPlan
    <2>2. Hosts' = Hosts /\ Devices' = Devices /\ (\A g : Key(g)' = Key(g)) /\ \A g : Seen(g)' <=> Seen(g)
      BY <2>1, SiteStays DEF Seen
    <2> QED BY <2>1, <2>2 DEF Handled, AllHandled
  <1>4. ASSUME StartSync PROVE Handled'
    <2>1. UNCHANGED <<site, apply, passedOver>> /\ stage' = "sync" /\ waiting' = Hosts
          /\ stacksSeen' = {}
      BY <1>4 DEF StartSync
    <2>2. Hosts' = Hosts /\ (\A g : Key(g)' = Key(g)) /\ \A g : ~Seen(g)'
      BY <2>1, SiteStays DEF Seen
    <2> QED BY <2>1, <2>2 DEF Handled
  <1>5. ASSUME Finish PROVE Handled'
    <2>1. UNCHANGED <<site, apply, waiting, stacksSeen, passedOver>> /\ stage = "sync"
          /\ waiting = {} /\ stage' = "done"
      BY <1>5 DEF Finish
    <2>2. Hosts' = Hosts /\ (\A g : Key(g)' = Key(g)) /\ \A g : Seen(g)' <=> Seen(g)
      BY <2>1, SiteStays DEF Seen
    <2>3. AllHandled
      BY <2>1 DEF Handled, AllHandled
    <2> QED BY <2>1, <2>2, <2>3 DEF Handled, AllHandled
  <1>6. CASE UNCHANGED vars
    <2>1. UNCHANGED <<site, apply, stage, waiting, stacksSeen, passedOver>>
      BY <1>6 DEF vars
    <2>2. Hosts' = Hosts /\ Devices' = Devices /\ (\A g : Key(g)' = Key(g)) /\ \A g : Seen(g)' <=> Seen(g)
      BY <2>1, SiteStays DEF Seen
    <2> QED BY <2>1, <2>2 DEF Handled, AllHandled
  <1> QED BY <1>1, <1>2, <1>3, <1>4, <1>5, <1>6 DEF Next

(* Where a key stands for one physical switch, a host passed over as "same *)
(* stack" is a route into the switch it was passed over for.               *)
THEOREM PassedOverRight ==
  ASSUME \A s \in Sites : KeysArePlanes(s)
  PROVE  Spec => []PassedOverIsSameSwitch
  <1>1. TypeOK /\ Handled => PassedOverIsSameSwitch
    <2> SUFFICES ASSUME TypeOK, Handled, NEW p \in passedOver
                 PROVE  site.plane[p[1]] = site.plane[p[2]]
      BY DEF PassedOverIsSameSwitch
    <2>1. p[1] \in Hosts /\ p[2] \in Hosts /\ site \in Sites
      BY DEF TypeOK
    <2>2. Key(p[1]) = Key(p[2])
      BY DEF Handled
    <2> QED BY <2>1, <2>2 DEF KeysArePlanes, Key, Stk, StackOf, Hosts
  <1>2. Typed => TypeOK
    BY DEF Typed
  <1> QED BY <1>1, <1>2, InitTyped, NextTyped, InitHandled, NextHandled, PTL DEF Spec

-----------------------------------------------------------------------------
(* Plans, where the stacks of two hosts are one stack or share no device.  *)
Apart == \A s \in Sites : StacksApart(s)

(* Two stacks that share a device have one key.                            *)
LEMMA ApartStacks ==
  ASSUME Apart, TypeOK, NEW g \in Hosts, NEW h \in Hosts
  PROVE  /\ Key(g) = Key(h) => StackDevices(Stk(g)) = StackDevices(Stk(h))
         /\ \A d \in StackDevices(Stk(g)) : d \in StackDevices(Stk(h)) => Key(g) = Key(h)
  <1>1. StacksApart(site) /\ g \in DOMAIN site.reports /\ h \in DOMAIN site.reports
    BY DEF Apart, TypeOK, Hosts
  <1> QED BY <1>1 DEF StacksApart, Key, Stk, StackOf

(* The second lookup decides nothing of what is created or renamed.        *)
LEMMA PlansIgnoreClaims ==
  ASSUME TypeOK, NEW h \in Hosts, NEW lf \in BOOLEAN, NEW d
  PROVE  /\ Missing(StackOf(h, lf), site.reports[h], d) = HostMissing(h, d)
         /\ Renames(StackOf(h, lf), site.reports[h], d) = HostRenames(h, d)
         /\ \A p : Owner(StackOf(h, lf), p) = Owner(Stk(h), p)
  <1>1. SameButClaims(StackOf(h, lf), Stk(h)) /\ StackDevices(StackOf(h, lf)) = StackDevices(Stk(h))
    BY SiteFacts DEF TypeOK
  <1>2. \A p : Owner(StackOf(h, lf), p) = Owner(Stk(h), p)
    BY <1>1 DEF Owner, IsStack, SameButClaims
  <1>3. IsStack(StackOf(h, lf)) <=> IsStack(Stk(h))
    BY <1>1 DEF IsStack, SameButClaims
  <1>4. \A p : HasTemplate(StackOf(h, lf), p, d) <=> HasTemplate(Stk(h), p, d)
    BY <1>3 DEF HasTemplate
  <1>5. \A p : IsHeldElsewhere(StackOf(h, lf), p) <=> IsHeldElsewhere(Stk(h), p)
    BY <1>1, <1>2, <1>3 DEF IsHeldElsewhere
  <1> QED BY <1>2, <1>4, <1>5 DEF Missing, Renames, HostMissing, HostRenames

(* What applying a plan does: some of what is missing is created, some of  *)
(* what is to be renamed is, and interfaces without a state stay so.       *)
LEMMA PlanIsApplied ==
  ASSUME Typed, NEW d \in Devices, ApplyPlan(d)
  PROVE  /\ UNCHANGED <<site, apply, stage, stacksSeen, plans, pending, errors>>
         /\ stage = "apply" /\ d \in waiting /\ waiting' = waiting \ {d}
         /\ \E new \in SUBSET plans[d].missing, renamed \in SUBSET plans[d].rename :
              /\ ifs' = [ifs EXCEPT ![d] =
                          (@ \ {r[1] : r \in renamed}) \cup new \cup {r[2] : r \in renamed}]
              /\ writes' = writes \cup
                   {<<plans[d].via, p, d>> : p \in new \cup {r[2] : r \in renamed}}
              /\ trouble' = (trouble \/ new # plans[d].missing \/ renamed # plans[d].rename)
         /\ (\A i \in Devices \X Names : cfg[i] = Blank) =>
              \A i \in Devices \X Names : cfg'[i] = Blank
  <1> DEFINE plan == plans[d]
             New(creates) == IF creates THEN plan.missing ELSE {}
             Renamed(renames) == IF renames THEN plan.rename ELSE {}
             From(renamed, i) == CHOOSE r \in renamed : r[2] = i[2]
  <1>1. UNCHANGED <<site, apply, stage, stacksSeen, plans, pending, errors>>
        /\ stage = "apply" /\ d \in waiting /\ waiting' = waiting \ {d}
    BY DEF ApplyPlan
  <1>2. PICK creates \in BOOLEAN, renames \in BOOLEAN :
          LET new == New(creates)
              renamed == Renamed(renames)
              old == {r[1] : r \in renamed}
              names == {r[2] : r \in renamed} IN
          /\ ifs' = [ifs EXCEPT ![d] = (@ \ old) \cup new \cup names]
          /\ cfg' = [i \in DOMAIN cfg |->
                       IF i[1] # d THEN cfg[i]
                       ELSE IF i[2] \in names THEN cfg[<<d, From(renamed, i)[1]>>]
                       ELSE IF i[2] \in old THEN Blank ELSE cfg[i]]
          /\ writes' = writes \cup {<<plan.via, p, d>> : p \in new \cup names}
          /\ trouble' = (trouble \/ (~creates /\ plan.missing # {})
                                 \/ (~renames /\ plan.rename # {}))
    BY DEF ApplyPlan
  <1>3. \A renamed \in SUBSET plan.rename : \A i \in Devices \X Names :
          i[2] \in {r[2] : r \in renamed} =>
            From(renamed, i) \in renamed /\ From(renamed, i)[1] \in Names
    BY DEF Typed, TypeOK
  <1>4. cfg \in [Devices \X Names -> PortsOfSite \cup {Blank}]
    BY DEF Typed, TypeOK
  <1> HIDE DEF From
  <1>5. ASSUME \A i \in Devices \X Names : cfg[i] = Blank, NEW i \in Devices \X Names
        PROVE  cfg'[i] = Blank
    <2>1. Renamed(renames) \in SUBSET plan.rename
      OBVIOUS
    <2> HIDE DEF New, Renamed, plan
    <2> QED BY <1>2, <1>3, <1>4, <1>5, <2>1
  <1>6. New(creates) \in SUBSET plan.missing /\ Renamed(renames) \in SUBSET plan.rename
    OBVIOUS
  <1>7. trouble' = (trouble \/ New(creates) # plan.missing \/ Renamed(renames) # plan.rename)
    BY <1>2
  <1> HIDE DEF New, Renamed
  <1> QED BY <1>1, <1>2, <1>5, <1>6, <1>7

(* A rename takes a member-1 name and gives a numbered one.                *)
LEMMA RenameIsNumbered ==
  ASSUME NEW h, NEW d, NEW r \in HostRenames(h, d)
  PROVE  /\ r[1] = Template(r[2])
         /\ r[2] \in site.reports[h]
         /\ r[2].member # NoMember
         /\ IsStack(Stk(h))
         /\ Owner(Stk(h), r[2]) = d
         /\ r[2] \notin ifs[d]
         /\ ~IsStackWide(r[1]) /\ ~IsStackWide(r[2])
  <1>1. /\ r[1] = Template(r[2])
        /\ r[2] \in site.reports[h]
        /\ r[2].member # NoMember
        /\ IsStack(Stk(h))
        /\ Owner(Stk(h), r[2]) = d
        /\ r[2] \notin ifs[d]
    BY DEF HostRenames, Renames, HasTemplate
  <1>2. r[1].member = 1
    BY <1>1, TemplateIsNumbered
  <1> QED BY <1>1, <1>2 DEF IsStackWide, PortChannel, NoMember

(* Where a plan adds the Port-Channel, no other device has it.             *)
LEMMA PortChannelsMove ==
  ASSUME Apart, Typed, Planned, NEW d \in Devices, ApplyPlan(d)
  PROVE  /\ \A e \in Devices, p \in Names : IsStackWide(p) /\ p \in ifs[e] => p \in ifs'[e]
         /\ \A e \in Devices, p \in Names : IsStackWide(p) /\ p \in ifs'[e] /\ p \notin ifs[e] =>
              /\ e = d
              /\ plans[d].via \in Hosts
              /\ p \in HostMissing(plans[d].via, d)
  <1> DEFINE h == plans[d].via
  <1>1. PICK new \in SUBSET plans[d].missing, renamed \in SUBSET plans[d].rename :
          ifs' = [ifs EXCEPT ![d] =
                    (@ \ {r[1] : r \in renamed}) \cup new \cup {r[2] : r \in renamed}]
    BY PlanIsApplied
  <1>2. stage = "apply" /\ d \in waiting
    BY PlanIsApplied
  <1>3. CASE h = NoDevice
    <2>1. new = {} /\ renamed = {}
      BY <1>3 DEF Typed, PlansHaveHosts, NoPlan
    <2> QED BY <1>1, <2>1 DEF Typed, TypeOK
  <1>4. CASE h # NoDevice
    <2>1. h \in Hosts
      BY <1>4 DEF Typed, TypeOK
    <2>2. plans[d].missing = HostMissing(h, d) /\ plans[d].rename = HostRenames(h, d)
      BY <1>2, <1>4 DEF Planned
    <2>3. \A r \in renamed : ~IsStackWide(r[1]) /\ ~IsStackWide(r[2])
      BY <2>2, RenameIsNumbered
    <2>4. ifs \in [Devices -> SUBSET Names]
      BY DEF Typed, TypeOK
    <2>5. new \subseteq HostMissing(h, d)
      BY <2>2
    <2> HIDE DEF h
    <2>6. \A p : IsStackWide(p) => p \notin {r[1] : r \in renamed} /\ p \notin {r[2] : r \in renamed}
      BY <2>3
    <2> QED BY <1>1, <2>1, <2>4, <2>5, <2>6 DEF h
  <1> QED BY <1>3, <1>4

(* At the start there is no plan.                                          *)
LEMMA InitPlanned == Init => Planned
  <1> SUFFICES ASSUME Init PROVE Planned
    OBVIOUS
  <1>1. stacksSeen = {} /\ \A d \in Devices : plans[d].via = NoDevice
    BY DEF Init, NoPlan
  <1> QED BY <1>1 DEF Planned, Seen

(* A plan stays what its device lacks until it is applied.                 *)
LEMMA NextPlanned ==
  ASSUME Apart
  PROVE  Typed /\ Handled /\ Planned /\ [Next]_vars => Planned'
  <1> SUFFICES ASSUME Typed, Handled, Planned, [Next]_vars PROVE Planned'
    OBVIOUS
  <1> TypeOK /\ site \in Sites
    BY DEF Typed, TypeOK
  <1>1. ASSUME NEW h \in Hosts, CreateHost(h) PROVE Planned'
    <2>1. /\ site' = site /\ stage = "create" /\ stage' = stage /\ ifs' = ifs
      BY <1>1 DEF CreateHost
    <2>2. PICK lf \in Lookups :
            IF SeenVia(StackOf(h, lf)) # {}
            THEN UNCHANGED <<stacksSeen, plans>>
            ELSE /\ stacksSeen' = stacksSeen \cup {<<StackOf(h, lf).key, h>>}
                 /\ plans' = [d \in Devices |->
                      IF d \notin StackDevices(StackOf(h, lf)) THEN plans[d]
                      ELSE [missing |-> plans[d].missing
                                          \cup Missing(StackOf(h, lf), site.reports[h], d),
                            rename |-> plans[d].rename
                                         \cup Renames(StackOf(h, lf), site.reports[h], d),
                            via |-> IF plans[d].via = NoDevice THEN h ELSE plans[d].via]]
      BY <1>1 DEF CreateHost
    <2>3. lf \in BOOLEAN
      BY LookupsAssumption
    <2>4. /\ StackOf(h, lf).key = Key(h)
          /\ SeenVia(StackOf(h, lf)) = SeenVia(Stk(h))
          /\ StackDevices(StackOf(h, lf)) = StackDevices(Stk(h))
      <3>1. SameButClaims(StackOf(h, lf), Stk(h))
            /\ StackDevices(StackOf(h, lf)) = StackDevices(Stk(h))
        BY <2>3, SiteFacts
      <3> QED BY <3>1 DEF SameButClaims, Key, SeenVia
    <2>5. Hosts' = Hosts /\ Devices' = Devices /\ \A g : Stk(g)' = Stk(g) /\ Key(g)' = Key(g)
      BY <2>1, SiteStays
    <2>6. \A g, d : HostMissing(g, d)' = HostMissing(g, d) /\ HostRenames(g, d)' = HostRenames(g, d)
      BY <2>1, <2>5 DEF HostMissing, HostRenames, Missing, Renames, HasTemplate, IsHeldElsewhere
    <2>7. CASE SeenVia(Stk(h)) # {}
      <3>1. UNCHANGED <<stacksSeen, plans>>
        BY <2>2, <2>4, <2>7
      <3>2. \A g : Seen(g)' <=> Seen(g)
        BY <2>5, <3>1 DEF Seen
      <3> QED BY <2>1, <2>5, <2>6, <3>1, <3>2 DEF Planned
    <2>8. CASE SeenVia(Stk(h)) = {}
      <3>1. \A g \in Hosts : Seen(g) => Key(g) # Key(h)
        BY <2>8, SeenHosts
      <3>2. \A g : Seen(g)' <=> Seen(g) \/ g = h
        BY <2>2, <2>4, <2>5, <2>8 DEF Seen
      <3>3. \A g \in Hosts : Seen(g) =>
              \A d \in StackDevices(Stk(g)) : d \notin StackDevices(Stk(h))
        BY <3>1, ApartStacks
      <3>4. \A d \in Devices : d \in StackDevices(Stk(h)) => plans[d] = NoPlan
        <4> SUFFICES ASSUME NEW d \in Devices, d \in StackDevices(Stk(h)), plans[d].via # NoDevice
                     PROVE  FALSE
          BY DEF Typed, PlansHaveHosts
        <4>1. plans[d].via \in Hosts
          BY DEF TypeOK
        <4>2. Seen(plans[d].via) /\ d \in StackDevices(Stk(plans[d].via))
          BY <2>1 DEF Planned
        <4> QED BY <3>3, <4>1, <4>2
      <3>5. \A d \in Devices : plans'[d] =
              IF d \notin StackDevices(Stk(h)) THEN plans[d]
              ELSE [missing |-> HostMissing(h, d), rename |-> HostRenames(h, d), via |-> h]
        <4> SUFFICES ASSUME NEW d \in Devices
                     PROVE  plans'[d] =
                       IF d \notin StackDevices(Stk(h)) THEN plans[d]
                       ELSE [missing |-> HostMissing(h, d), rename |-> HostRenames(h, d),
                             via |-> h]
          OBVIOUS
        <4>1. /\ Missing(StackOf(h, lf), site.reports[h], d) = HostMissing(h, d)
              /\ Renames(StackOf(h, lf), site.reports[h], d) = HostRenames(h, d)
          BY <2>3, PlansIgnoreClaims
        <4>2. plans'[d] =
                IF d \notin StackDevices(Stk(h)) THEN plans[d]
                ELSE [missing |-> plans[d].missing \cup HostMissing(h, d),
                      rename |-> plans[d].rename \cup HostRenames(h, d),
                      via |-> IF plans[d].via = NoDevice THEN h ELSE plans[d].via]
          BY <2>2, <2>4, <2>8, <4>1
        <4>3. CASE d \in StackDevices(Stk(h))
          <5>1. plans[d].missing = {} /\ plans[d].rename = {} /\ plans[d].via = NoDevice
            BY <3>4, <4>3 DEF NoPlan
          <5>2. /\ plans[d].missing \cup HostMissing(h, d) = HostMissing(h, d)
                /\ plans[d].rename \cup HostRenames(h, d) = HostRenames(h, d)
            BY <5>1
          <5> QED BY <4>2, <4>3, <5>1, <5>2
        <4> QED BY <4>2, <4>3
      <3>6. \A d \in Devices : d \in StackDevices(Stk(h)) =>
               /\ plans'[d].via = h
               /\ plans'[d].missing = HostMissing(h, d)
               /\ plans'[d].rename = HostRenames(h, d)
        <4> SUFFICES ASSUME NEW d \in Devices, d \in StackDevices(Stk(h))
                     PROVE  /\ plans'[d].via = h
                            /\ plans'[d].missing = HostMissing(h, d)
                            /\ plans'[d].rename = HostRenames(h, d)
          OBVIOUS
        <4>1. plans'[d] = [missing |-> HostMissing(h, d), rename |-> HostRenames(h, d),
                           via |-> h]
          BY <3>5
        <4> QED BY <4>1
      <3>7. h # NoDevice /\ \A g \in Hosts : StackDevices(Stk(g)) \subseteq Devices
        BY SiteFacts
      <3>8. ASSUME NEW d \in Devices, plans'[d].via # NoDevice
            PROVE  LET g == plans'[d].via IN
                   /\ Seen(g) \/ g = h
                   /\ d \in StackDevices(Stk(g))
                   /\ plans'[d].missing = HostMissing(g, d)
                   /\ plans'[d].rename = HostRenames(g, d)
        <4>1. CASE d \in StackDevices(Stk(h))
          BY <3>6, <4>1
        <4>2. CASE d \notin StackDevices(Stk(h))
          BY <2>1, <3>5, <3>8, <4>2 DEF Planned
        <4> QED BY <4>1, <4>2
      <3>9. ASSUME NEW g \in Hosts, Seen(g) \/ g = h, NEW d \in StackDevices(Stk(g))
            PROVE  plans'[d].via = g
        <4>1. CASE g = h
          BY <3>6, <3>7, <4>1
        <4>2. CASE g # h
          <5>1. d \notin StackDevices(Stk(h)) /\ plans[d].via = g
            BY <2>1, <3>3, <3>9, <4>2 DEF Planned
          <5> QED BY <3>5, <3>7, <5>1
        <4> QED BY <4>1, <4>2
      <3> QED BY <2>5, <2>6, <3>2, <3>8, <3>9 DEF Planned
    <2> QED BY <2>7, <2>8
  <1>2. ASSUME CreateReports PROVE Planned'
    <2>1. UNCHANGED <<site, ifs, stacksSeen, plans>> /\ stage = "create"
      BY <1>2 DEF CreateReports
    <2>2. Hosts' = Hosts /\ Devices' = Devices /\ (\A g : Stk(g)' = Stk(g))
          /\ \A g : Seen(g)' <=> Seen(g)
      BY <2>1, SiteStays DEF Seen
    <2>3. \A g, d : HostMissing(g, d)' = HostMissing(g, d) /\ HostRenames(g, d)' = HostRenames(g, d)
      BY <2>1, <2>2 DEF HostMissing, HostRenames, Missing, Renames, HasTemplate, IsHeldElsewhere
    <2> QED BY <2>1, <2>2, <2>3 DEF Planned
  <1>3. ASSUME NEW d \in Devices, ApplyPlan(d) PROVE Planned'
    <2>1. /\ UNCHANGED <<site, stage, stacksSeen, plans>>
          /\ stage = "apply" /\ waiting' = waiting \ {d}
          /\ \A e \in Devices \ {d} : ifs'[e] = ifs[e]
      BY <1>3, PlanIsApplied DEF TypeOK
    <2>2. Hosts' = Hosts /\ Devices' = Devices /\ (\A g : Stk(g)' = Stk(g))
          /\ \A g : Seen(g)' <=> Seen(g)
      BY <2>1, SiteStays DEF Seen
    <2>3. ASSUME NEW e \in Devices \ {d}, NEW h \in Hosts, Seen(h), plans[e].via = h
          PROVE  HostMissing(h, e)' = HostMissing(h, e) /\ HostRenames(h, e)' = HostRenames(h, e)
      <3>1. \A p : HasTemplate(Stk(h), p, e)' <=> HasTemplate(Stk(h), p, e)
        BY <2>1, <2>2 DEF HasTemplate
      <3>2. ASSUME NEW p \in site.reports[h], Owner(Stk(h), p) = e
            PROVE  IsHeldElsewhere(Stk(h), p)' <=> IsHeldElsewhere(Stk(h), p)
        <4>1. p \in Names /\ StackDevices(Stk(h)) \subseteq Devices
          BY ReportsAreNames, SiteFacts
        <4>2. CASE ~IsStackWide(p)
          BY <2>2, <4>2 DEF IsHeldElsewhere
        <4>3. CASE IsStackWide(p)
          <5>1. ASSUME NEW k \in StackDevices(Stk(h)) \ {e} PROVE p \in ifs'[k] <=> p \in ifs[k]
            <6> SUFFICES ASSUME p \in ifs'[k], p \notin ifs[k] PROVE FALSE
              BY <1>3, <4>1, <4>3, PortChannelsMove
            <6>1. k = d /\ p \in HostMissing(plans[d].via, d)
              BY <1>3, <4>1, <4>3, PortChannelsMove
            <6>2. plans[d].via = h
              BY <2>1, <2>3, <6>1 DEF Planned
            <6> QED BY <3>2, <6>1, <6>2 DEF HostMissing, Missing
          <5> QED BY <2>2, <3>2, <5>1 DEF IsHeldElsewhere
        <4> QED BY <4>2, <4>3
      <3>3. HostMissing(h, e)' = HostMissing(h, e)
        BY <2>1, <2>2, <3>1, <3>2 DEF HostMissing, Missing
      <3>4. HostRenames(h, e)' = HostRenames(h, e)
        BY <2>1, <2>2, <3>1 DEF HostRenames, Renames
      <3> QED BY <3>3, <3>4
    <2>4. \A e \in Devices : plans[e].via # NoDevice => plans[e].via \in Hosts
      BY DEF TypeOK
    <2> QED BY <2>1, <2>2, <2>3, <2>4 DEF Planned
  <1>4. ASSUME StartSync \/ Finish \/ \E h \in Hosts : SyncHost(h) PROVE Planned'
    <2>1. stage' \notin {"create", "apply"}
      BY <1>4 DEF StartSync, Finish, SyncHost
    <2> QED BY <2>1 DEF Planned
  <1>5. CASE UNCHANGED vars
    <2>1. UNCHANGED <<site, ifs, stage, waiting, stacksSeen, plans>>
      BY <1>5 DEF vars
    <2>2. Hosts' = Hosts /\ Devices' = Devices /\ (\A g : Stk(g)' = Stk(g))
          /\ \A g : Seen(g)' <=> Seen(g)
      BY <2>1, SiteStays DEF Seen
    <2>3. \A g, d : HostMissing(g, d)' = HostMissing(g, d) /\ HostRenames(g, d)' = HostRenames(g, d)
      BY <2>1, <2>2 DEF HostMissing, HostRenames, Missing, Renames, HasTemplate, IsHeldElsewhere
    <2> QED BY <2>1, <2>2, <2>3 DEF Planned
  <1> QED BY <1>1, <1>2, <1>3, <1>4, <1>5 DEF Next

(* A Port-Channel is made on no second member of a stack.                  *)
LEMMA StepKeepsOnePortChannel ==
  ASSUME Apart, Typed, Handled, Planned, [Next]_vars, NEW h \in Hosts,
         NEW e \in StackDevices(StackOf(h, FALSE)), PortChannel \in ifs[e],
         NEW k \in StackDevices(StackOf(h, FALSE)), PortChannel \in ifs'[k]
  PROVE  PortChannel \in ifs[k]
  <1> SUFFICES ASSUME PortChannel \notin ifs[k] PROVE FALSE
    OBVIOUS
  <1> TypeOK /\ site \in Sites
    BY DEF Typed, TypeOK
  <1>1. PICK d \in Devices : ApplyPlan(d)
    BY DEF Next, CreateHost, CreateReports, StartSync, SyncHost, Finish, vars
  <1>2. k \in Devices /\ e \in Devices /\ IsStackWide(PortChannel) /\ PortChannel \in Names
    BY SiteFacts DEF Stk, TypeOK, IsStackWide
  <1> DEFINE g == plans[d].via
  <1>3. k = d /\ g \in Hosts /\ PortChannel \in HostMissing(g, d)
    BY <1>1, <1>2, PortChannelsMove
  <1>4. d \in StackDevices(Stk(g)) /\ g # NoDevice
    BY <1>1, <1>3, PlanIsApplied, SiteFacts DEF Planned
  <1>5. StackDevices(Stk(g)) = StackDevices(Stk(h))
    BY <1>3, <1>4, ApartStacks DEF Stk
  <1>6. /\ Owner(Stk(g), PortChannel) = d
        /\ PortChannel \notin ifs[d]
        /\ ~IsHeldElsewhere(Stk(g), PortChannel)
    BY <1>3 DEF HostMissing, Missing
  <1>7. e \in StackDevices(Stk(g)) \ {d}
    BY <1>5, <1>6 DEF Stk
  <1>8. ~IsStack(Stk(g))
    BY <1>2, <1>6, <1>7 DEF IsHeldElsewhere
  <1>9. StackDevices(Stk(g)) = {g}
    BY <1>3, <1>8, LoneStack
  <1> QED BY <1>4, <1>7, <1>9

(* Where stacks are one or apart, a plan never adds a Port-Channel that    *)
(* another device of the stack already has.                                *)
THEOREM PortChannelStaysOne ==
  ASSUME Apart
  PROVE  Spec => OnePortChannel
  <1>1. Typed /\ Handled /\ Planned /\ [Next]_vars =>
          [\A h \in Hosts :
             LET devices == StackDevices(StackOf(h, FALSE)) IN
             (\E d \in devices : PortChannel \in ifs[d]) =>
               \A d \in devices : PortChannel \in ifs'[d] => PortChannel \in ifs[d]]_vars
    BY StepKeepsOnePortChannel
  <1> QED BY <1>1, InitTyped, NextTyped, InitHandled, NextHandled, InitPlanned, NextPlanned, PTL
          DEF Spec, OnePortChannel

-----------------------------------------------------------------------------
(* What the sync step writes: of the ports it matched, some of those whose *)
(* interface is not as the switch reports, all of them if none fails.      *)
Unmatched(h, stack) ==
  {p \in site.reports[h] : /\ Match(stack, p) = NoMatch
                           /\ ~IsBlocked(stack, p)
                           /\ ~AwaitsCreation(stack, p)}

Stale(h, stack) ==
  {p \in site.reports[h] : /\ Match(stack, p) # NoMatch
                           /\ cfg[Match(stack, p)] # <<site.plane[h], p>>}

(* One host of the sync step: passed over, or written as matched.          *)
LEMMA PortsAreSynced ==
  ASSUME TypeOK, NEW h \in Hosts, SyncHost(h)
  PROVE  /\ UNCHANGED <<site, apply, ifs, stage, plans, pending>>
         /\ stage = "sync"
         /\ SeenVia(Stk(h)) # {} => UNCHANGED <<cfg, stacksSeen, errors, writes, trouble>>
         /\ SeenVia(Stk(h)) = {} =>
              /\ stacksSeen' = stacksSeen \cup {<<Key(h), h>>}
              /\ \E lf \in Lookups :
                   LET stack == StackOf(h, lf) IN
                   /\ errors' = errors \cup {<<h, p>> : p \in Unmatched(h, stack)}
                   /\ ~apply => UNCHANGED <<cfg, writes, trouble>>
                   /\ apply => \E written \in SUBSET Stale(h, stack) :
                        /\ cfg' = [i \in DOMAIN cfg |->
                             IF \E p \in written : Match(stack, p) = i
                             THEN <<site.plane[h],
                                    CHOOSE p \in written : Match(stack, p) = i>>
                             ELSE cfg[i]]
                        /\ writes' = writes \cup
                             {<<h, p, Match(stack, p)[1]>> : p \in written}
                        /\ ~trouble' => ~trouble /\ written = Stale(h, stack)
  <1>1. UNCHANGED <<site, apply, ifs, stage, plans, pending>> /\ stage = "sync"
    BY DEF SyncHost
  <1>2. PICK lf \in Lookups :
          LET stack == StackOf(h, lf)
              ports == site.reports[h]
              matched == {p \in ports : Match(stack, p) # NoMatch}
              stale == {p \in matched : cfg[Match(stack, p)] # <<site.plane[h], p>>}
              blocked == {p \in ports : IsBlocked(stack, p)} IN
          IF SeenVia(stack) # {}
          THEN UNCHANGED <<cfg, stacksSeen, errors, writes, trouble>>
          ELSE /\ stacksSeen' = stacksSeen \cup {<<stack.key, h>>}
               /\ errors' = errors \cup
                    {<<h, p>> : p \in {q \in ports \ (matched \cup blocked) :
                                         ~AwaitsCreation(stack, q)}}
               /\ IF ~apply THEN UNCHANGED <<cfg, writes, trouble>>
                  ELSE \E failing \in {{}} \cup {{p} : p \in stale} :
                    LET written == stale \ failing IN
                    /\ cfg' = [i \in DOMAIN cfg |->
                         IF \E p \in written : Match(stack, p) = i
                         THEN <<site.plane[h],
                                CHOOSE p \in written : Match(stack, p) = i>>
                         ELSE cfg[i]]
                    /\ writes' = writes \cup
                         {<<h, p, Match(stack, p)[1]>> : p \in written}
                    /\ trouble' = (trouble \/ failing # {})
    BY DEF SyncHost
  <1> DEFINE stack == StackOf(h, lf)
             ports == site.reports[h]
             M(p) == Match(stack, p)
  <1>3. stack.key = Key(h) /\ SeenVia(stack) = SeenVia(Stk(h))
    <2>1. SameButClaims(stack, Stk(h))
      BY SiteFacts, LookupsAssumption DEF TypeOK
    <2> QED BY <2>1 DEF SameButClaims, Key, SeenVia
  <1>4. {q \in ports \ ({p \in ports : M(p) # NoMatch} \cup {p \in ports : IsBlocked(stack, p)}) :
           ~AwaitsCreation(stack, q)} = Unmatched(h, stack)
    BY DEF Unmatched
  <1>5. {p \in {q \in ports : M(q) # NoMatch} : cfg[M(p)] # <<site.plane[h], p>>} = Stale(h, stack)
    BY DEF Stale
  <1> HIDE DEF stack, ports, M
  <1>6. CASE SeenVia(Stk(h)) # {}
    BY <1>1, <1>2, <1>3, <1>6 DEF stack
  <1>7. CASE SeenVia(Stk(h)) = {}
    <2>1. stacksSeen' = stacksSeen \cup {<<Key(h), h>>}
      BY <1>2, <1>3, <1>7 DEF stack
    <2>2. errors' = errors \cup {<<h, p>> : p \in Unmatched(h, stack)}
      BY <1>2, <1>3, <1>4, <1>7 DEF stack, ports, M
    <2>3. ~apply => UNCHANGED <<cfg, writes, trouble>>
      BY <1>2, <1>3, <1>7 DEF stack
    <2>4. ASSUME apply
          PROVE  \E written \in SUBSET Stale(h, stack) :
                   /\ cfg' = [i \in DOMAIN cfg |->
                        IF \E p \in written : M(p) = i
                        THEN <<site.plane[h], CHOOSE p \in written : M(p) = i>>
                        ELSE cfg[i]]
                   /\ writes' = writes \cup {<<h, p, M(p)[1]>> : p \in written}
                   /\ ~trouble' => ~trouble /\ written = Stale(h, stack)
      <3>1. PICK failing :
              LET written == Stale(h, stack) \ failing IN
              /\ cfg' = [i \in DOMAIN cfg |->
                   IF \E p \in written : M(p) = i
                   THEN <<site.plane[h], CHOOSE p \in written : M(p) = i>>
                   ELSE cfg[i]]
              /\ writes' = writes \cup {<<h, p, M(p)[1]>> : p \in written}
              /\ trouble' = (trouble \/ failing # {})
        BY <1>2, <1>3, <1>5, <1>7, <2>4 DEF stack, ports, M
      <3>2. ~trouble' => ~trouble /\ Stale(h, stack) \ failing = Stale(h, stack)
        BY <3>1
      <3> QED BY <3>1, <3>2
    <2> QED BY <1>1, <1>7, <2>1, <2>2, <2>3, <2>4 DEF stack, M
  <1> QED BY <1>6, <1>7

-----------------------------------------------------------------------------
(* Where resolve_stack finds the right devices, every write is on the      *)
(* device its port physically is on.                                       *)
Home == \A s \in Sites : MembersAreHome(s, Lookups)

(* The device a port is filed under is its home.                           *)
LEMMA FiledAtHome ==
  ASSUME Home, TypeOK, NEW h \in Hosts, NEW lf \in Lookups, NEW p \in site.reports[h], NEW d,
         IF IsRouted(StackOf(h, lf), p)
         THEN d # NoDevice /\ (d = Owner(StackOf(h, lf), p) \/ d = StandIn(StackOf(h, lf), p))
         ELSE d \in StackDevices(StackOf(h, lf))
  PROVE  AtHome(site, h, p, d)
  <1>1. MembersAreHome(site, Lookups) /\ h \in DOMAIN site.reports
    BY DEF Home, TypeOK, Hosts
  <1> QED BY <1>1 DEF MembersAreHome, IsRouted, StackOf

(* Both steps write a port on its home device.                             *)
LEMMA StepWritesAtHome ==
  ASSUME Apart, Home, Typed, Handled, Planned, WritesAtHome, [Next]_vars
  PROVE  WritesAtHome'
  <1> TypeOK /\ site \in Sites
    BY DEF Typed, TypeOK
  <1>1. ASSUME NEW d \in Devices, ApplyPlan(d) PROVE WritesAtHome'
    <2> DEFINE h == plans[d].via
    <2>1. PICK new \in SUBSET plans[d].missing, renamed \in SUBSET plans[d].rename :
            writes' = writes \cup {<<h, p, d>> : p \in new \cup {r[2] : r \in renamed}}
      BY <1>1, PlanIsApplied
    <2>2. site' = site /\ stage = "apply" /\ d \in waiting
      BY <1>1, PlanIsApplied
    <2>3. CASE h = NoDevice
      <3>1. new = {} /\ renamed = {}
        BY <2>3 DEF Typed, PlansHaveHosts, NoPlan
      <3>2. writes' = writes
        BY <2>1, <3>1
      <3> QED BY <2>2, <3>2 DEF WritesAtHome
    <2>4. CASE h # NoDevice
      <3>1. /\ h \in Hosts
            /\ Seen(h)
            /\ plans[d].missing = HostMissing(h, d)
            /\ plans[d].rename = HostRenames(h, d)
        BY <2>2, <2>4 DEF Planned, TypeOK
      <3>2. PICK lf \in Lookups : TRUE
        BY <3>1 DEF Handled, Seen
      <3>3. lf \in BOOLEAN
        BY LookupsAssumption
      <3>4. ASSUME NEW p \in new \cup {r[2] : r \in renamed} PROVE AtHome(site, h, p, d)
        <4>1. p \in site.reports[h] /\ Owner(Stk(h), p) = d
          BY <3>1, RenameIsNumbered DEF HostMissing, Missing
        <4>2. Owner(StackOf(h, lf), p) = d
          BY <3>1, <3>3, <4>1, PlansIgnoreClaims
        <4>3. d # NoDevice
          BY SiteFacts
        <4>4. d \in StackDevices(StackOf(h, lf))
          BY <3>1, <3>3, <4>2, <4>3, SiteFacts, OwnerIsADevice
        <4> QED BY <3>1, <4>1, <4>2, <4>3, <4>4, FiledAtHome
      <3> HIDE DEF h
      <3> QED BY <2>1, <2>2, <3>4 DEF WritesAtHome
    <2> QED BY <2>3, <2>4
  <1>2. ASSUME NEW h \in Hosts, SyncHost(h) PROVE WritesAtHome'
    <2>1. site' = site
      BY <1>2, PortsAreSynced
    <2>2. CASE UNCHANGED writes
      BY <2>1, <2>2 DEF WritesAtHome
    <2>3. CASE ~UNCHANGED writes
      <3>1. PICK lf \in Lookups :
              \E written \in SUBSET Stale(h, StackOf(h, lf)) :
                writes' = writes \cup {<<h, p, Match(StackOf(h, lf), p)[1]>> : p \in written}
        BY <1>2, <2>3, PortsAreSynced
      <3> DEFINE stack == StackOf(h, lf)
      <3>2. /\ IsSound(stack, h, Devices)
            /\ NoDevice \notin Devices
            /\ IsFiniteSet(Devices)
            /\ site.reports[h] \subseteq Ports
        BY SiteFacts, LookupsAssumption
      <3>3. ASSUME NEW p \in Stale(h, stack) PROVE AtHome(site, h, p, Match(stack, p)[1])
        <4> DEFINE m == Match(stack, p)
        <4>1. p \in site.reports[h] /\ m # NoMatch
          BY DEF Stale
        <4>2. /\ m[1] \in StackDevices(stack)
              /\ IsRouted(stack, p) =>
                   \/ p.member \in DOMAIN stack.members /\ m[1] = stack.members[p.member]
                   \/ p.member \notin DOMAIN stack.members /\ m[1] = h /\ StandIn(stack, p) = h
          BY <3>2, <4>1, MatchShape
        <4>3. m[1] # NoDevice
          BY <3>2, <4>2, OwnerIsADevice
        <4>4. IsRouted(stack, p) => m[1] = Owner(stack, p) \/ m[1] = StandIn(stack, p)
          BY <4>2 DEF Owner, IsRouted
        <4> HIDE DEF m, stack
        <4>5. IF IsRouted(stack, p)
              THEN m[1] # NoDevice /\ (m[1] = Owner(stack, p) \/ m[1] = StandIn(stack, p))
              ELSE m[1] \in StackDevices(stack)
          BY <4>2, <4>3, <4>4
        <4> QED BY <4>1, <4>5, FiledAtHome DEF m, stack
      <3> HIDE DEF stack
      <3>4. PICK written \in SUBSET Stale(h, stack) :
              writes' = writes \cup {<<h, p, Match(stack, p)[1]>> : p \in written}
        BY <3>1 DEF stack
      <3> QED BY <2>1, <3>3, <3>4 DEF WritesAtHome
    <2> QED BY <2>2, <2>3
  <1>3. CASE UNCHANGED <<site, writes>>
    BY <1>3 DEF WritesAtHome
  <1> QED BY <1>1, <1>2, <1>3 DEF Next, CreateHost, CreateReports, StartSync, Finish, vars

(* "Gi2/0/1 is updated on SwitchA-2 ... and never through a same-named     *)
(* copy left on SwitchA-1": no write leaves the device that owns its port, *)
(* or the one that stands in for it.                                       *)
THEOREM WritesStayHome ==
  ASSUME Apart, Home
  PROVE  Spec => []WritesAtHome
  <1>1. Init => WritesAtHome
    BY DEF Init, WritesAtHome
  <1> QED BY <1>1, StepWritesAtHome, InitTyped, NextTyped, InitHandled, NextHandled,
             InitPlanned, NextPlanned, PTL DEF Spec

-----------------------------------------------------------------------------
(* A plan's report, where all routes into a stack see the same of it.      *)
Agree == \A s \in Sites : RoutesAgree(s)

(* Two hosts of one key are routes into one stack and find it the same.    *)
LEMMA RoutesAreStacks ==
  ASSUME Agree, TypeOK, NEW g \in Hosts, NEW h \in Hosts, g # h, Key(g) = Key(h)
  PROVE  /\ IsStack(Stk(g)) /\ IsStack(Stk(h))
         /\ site.reports[g] = site.reports[h]
         /\ Stk(g).members = Stk(h).members
         /\ \A p \in site.reports[h] :
              \/ p.member \in DOMAIN Stk(h).members
              \/ IsStackWide(p)
              \/ p.member = NoMember /\ Stk(g).anchor = Stk(h).anchor
  <1>1. IsSound(Stk(g), g, Devices) /\ IsSound(Stk(h), h, Devices)
    BY SiteFacts DEF TypeOK, Stk
  <1>2. IsStack(Stk(g)) /\ IsStack(Stk(h))
    <2>1. CASE ~IsStack(Stk(g)) /\ ~IsStack(Stk(h))
      BY <2>1, LoneStack
    <2>2. CASE ~IsStack(Stk(g)) /\ IsStack(Stk(h))
      BY <1>1, <2>2, LoneStack DEF IsSound, Key
    <2>3. CASE IsStack(Stk(g)) /\ ~IsStack(Stk(h))
      BY <1>1, <2>3, LoneStack DEF IsSound, Key
    <2> QED BY <2>1, <2>2, <2>3
  <1>3. RoutesAgree(site) /\ g \in DOMAIN site.reports /\ h \in DOMAIN site.reports
    BY DEF Agree, TypeOK, Hosts
  <1> QED BY <1>2, <1>3 DEF RoutesAgree, Key, Stk, StackOf

(* What is lacking through one route is lacking through every route.       *)
LEMMA RoutesLackTheSame ==
  ASSUME Apart, Agree, TypeOK, NEW g \in Hosts, NEW h \in Hosts, Key(g) = Key(h),
         NEW d \in StackDevices(Stk(h))
  PROVE  /\ \A p \in HostMissing(h, d) : \E e \in StackDevices(Stk(g)) : p \in HostMissing(g, e)
         /\ HostRenames(h, d) # {} => \E e \in StackDevices(Stk(g)) : HostRenames(g, e) # {}
  <1>1. CASE g = h
    BY <1>1
  <1>2. CASE g # h
    <2>1. /\ IsStack(Stk(g)) /\ IsStack(Stk(h))
          /\ site.reports[g] = site.reports[h]
          /\ Stk(g).members = Stk(h).members
          /\ \A p \in site.reports[h] :
               \/ p.member \in DOMAIN Stk(h).members
               \/ IsStackWide(p)
               \/ p.member = NoMember /\ Stk(g).anchor = Stk(h).anchor
      BY <1>2, RoutesAreStacks
    <2>2. /\ IsSound(Stk(g), g, Devices) /\ IsSound(Stk(h), h, Devices)
          /\ StackDevices(Stk(g)) = StackDevices(Stk(h))
          /\ NoDevice \notin Devices
          /\ StackDevices(Stk(h)) \subseteq Devices
      BY SiteFacts, ApartStacks DEF TypeOK, Stk
    <2>3. \A p : IsStackWide(p) => p.member = NoMember
      BY DEF IsStackWide, PortChannel
    <2>4. \A p \in site.reports[h] : ~IsStackWide(p) /\ Owner(Stk(h), p) = d => Owner(Stk(g), p) = d
      <3> SUFFICES ASSUME NEW p \in site.reports[h], ~IsStackWide(p), Owner(Stk(h), p) = d
                   PROVE  Owner(Stk(g), p) = d
        OBVIOUS
      <3>1. CASE p.member \in DOMAIN Stk(h).members
        BY <2>1, <2>2, <3>1 DEF Owner, IsSound
      <3>2. CASE p.member = NoMember /\ Stk(g).anchor = Stk(h).anchor
        BY <2>1, <3>2 DEF Owner
      <3> QED BY <2>1, <3>1, <3>2
    <2>5. \A p, e : HasTemplate(Stk(g), p, e) <=> HasTemplate(Stk(h), p, e)
      BY <2>1 DEF HasTemplate
    <2>6. ASSUME NEW p \in HostMissing(h, d)
          PROVE  \E e \in StackDevices(Stk(g)) : p \in HostMissing(g, e)
      <3>1. /\ p \in site.reports[h]
            /\ Owner(Stk(h), p) = d
            /\ p \notin ifs[d]
            /\ ~HasTemplate(Stk(h), p, d)
            /\ ~IsHeldElsewhere(Stk(h), p)
        BY DEF HostMissing, Missing
      <3>2. CASE ~IsStackWide(p)
        <4>1. Owner(Stk(g), p) = d /\ ~IsHeldElsewhere(Stk(g), p)
          BY <2>4, <3>1, <3>2 DEF IsHeldElsewhere
        <4> QED BY <2>1, <2>2, <2>5, <3>1, <4>1 DEF HostMissing, Missing
      <3>3. CASE IsStackWide(p)
        <4>1. \A e \in StackDevices(Stk(h)) : p \notin ifs[e]
          BY <2>1, <3>1, <3>3 DEF IsHeldElsewhere
        <4> DEFINE e == Stk(g).anchor
        <4>2. e \in StackDevices(Stk(g)) /\ Owner(Stk(g), p) = e
          BY <2>1, <2>3, <3>3 DEF Owner, StackDevices
        <4>3. ~HasTemplate(Stk(g), p, e)
          BY <2>3, <3>3 DEF HasTemplate
        <4>4. ~IsHeldElsewhere(Stk(g), p)
          BY <2>2, <4>1 DEF IsHeldElsewhere
        <4> HIDE DEF e
        <4> QED BY <2>1, <2>2, <3>1, <4>1, <4>2, <4>3, <4>4 DEF HostMissing, Missing
      <3> QED BY <3>2, <3>3
    <2>7. ASSUME NEW r \in HostRenames(h, d) PROVE r \in HostRenames(g, d)
      <3>1. /\ r = <<Template(r[2]), r[2]>>
            /\ r[2] \in site.reports[h]
            /\ Owner(Stk(h), r[2]) = d
            /\ r[2] \notin ifs[d]
            /\ HasTemplate(Stk(h), r[2], d)
        BY DEF HostRenames, Renames
      <3>2. Owner(Stk(g), r[2]) = d
        BY <2>3, <2>4, <3>1 DEF HasTemplate
      <3> QED BY <2>1, <2>5, <3>1, <3>2 DEF HostRenames, Renames
    <2> QED BY <2>2, <2>6, <2>7
  <1> QED BY <1>1, <1>2

(* At the start nothing is reported.                                       *)
LEMMA InitForetold == Init => Foretold /\ PlanHasNoErrors
  BY DEF Init, Foretold, PlanHasNoErrors

(* What is lacking or ambiguous depends on the interfaces alone.           *)
LEMMA LackIsLocal ==
  ASSUME site' = site, ifs' = ifs
  PROVE  /\ \A g, d : HostMissing(g, d)' = HostMissing(g, d)
         /\ \A g, d : HostRenames(g, d)' = HostRenames(g, d)
         /\ \A g, p : IsAmbiguous(Stk(g), p)' <=> IsAmbiguous(Stk(g), p)
  <1>1. \A g : Stk(g)' = Stk(g)
    BY SiteStays
  <1>2. \A g, d : HostMissing(g, d)' = HostMissing(g, d) /\ HostRenames(g, d)' = HostRenames(g, d)
    BY <1>1 DEF HostMissing, HostRenames, Missing, Renames, HasTemplate, IsHeldElsewhere
  <1>3. \A g, p : Holders(Stk(g), p)' = Holders(Stk(g), p)
    BY <1>1 DEF Holders
  <1>4. \A g, p : MatchUnnumbered(Stk(g), p)' = MatchUnnumbered(Stk(g), p)
    <2> SUFFICES ASSUME NEW g, NEW p
                 PROVE  MatchUnnumbered(Stk(g), p)' = MatchUnnumbered(Stk(g), p)
      OBVIOUS
    <2> DEFINE Of(stack, holders) ==
                 IF stack.connected \in holders THEN stack.connected
                 ELSE IF stack.anchor \in holders THEN stack.anchor
                 ELSE IF IsStack(stack) /\ IsStackWide(p) /\ Cardinality(holders) = 1
                   THEN CHOOSE d \in holders : TRUE
                 ELSE NoDevice
    <2>1. MatchUnnumbered(Stk(g), p) = Of(Stk(g), Holders(Stk(g), p))
      BY DEF MatchUnnumbered
    <2>2. MatchUnnumbered(Stk(g), p)' = Of(Stk(g)', Holders(Stk(g), p)')
      BY DEF MatchUnnumbered
    <2> HIDE DEF Of
    <2> QED BY <1>1, <1>3, <2>1, <2>2
  <1>5. \A g, p : IsAmbiguous(Stk(g), p)' <=> IsAmbiguous(Stk(g), p)
    BY <1>1, <1>3, <1>4 DEF IsAmbiguous
  <1> QED BY <1>2, <1>5

(* A plan passes on what its create step found lacking, to the end.        *)
LEMMA NextForetold ==
  ASSUME Apart, Agree
  PROVE  Typed /\ Handled /\ Planned /\ Foretold /\ [Next]_vars => Foretold'
  <1> SUFFICES ASSUME Typed, Handled, Planned, Foretold, [Next]_vars, ~apply',
                      stage' # "create"
               PROVE  \A h \in Hosts' : \A d \in StackDevices(Stk(h)') :
                        \A p \in HostMissing(h, d)' : AwaitsCreation(Stk(h), p)'
    BY DEF Foretold
  <1> TypeOK /\ site \in Sites
    BY DEF Typed, TypeOK
  <1>1. ASSUME UNCHANGED <<site, apply, ifs, pending>>, stage # "create"
        PROVE  \A h \in Hosts' : \A d \in StackDevices(Stk(h)') :
                 \A p \in HostMissing(h, d)' : AwaitsCreation(Stk(h), p)'
    <2>1. \A h, p : AwaitsCreation(Stk(h), p)' <=> AwaitsCreation(Stk(h), p)
      BY <1>1, SiteStays DEF AwaitsCreation
    <2>2. Hosts' = Hosts /\ (\A h : Stk(h)' = Stk(h))
      BY <1>1, SiteStays
    <2> QED BY <1>1, <2>1, <2>2, LackIsLocal DEF Foretold
  <1>2. ASSUME CreateReports
        PROVE  \A h \in Hosts' : \A d \in StackDevices(Stk(h)') :
                 \A p \in HostMissing(h, d)' : AwaitsCreation(Stk(h), p)'
    <2>1. UNCHANGED <<site, apply, ifs>> /\ stage = "create" /\ waiting = {}
          /\ pending' = (IF apply THEN {} ELSE UNION {{d} \X plans[d].missing : d \in Devices})
      BY <1>2 DEF CreateReports
    <2>2. Hosts' = Hosts /\ (\A h : Stk(h)' = Stk(h))
      BY <2>1, SiteStays
    <2>3. ASSUME NEW h \in Hosts, NEW d \in StackDevices(Stk(h)), NEW p \in HostMissing(h, d)
          PROVE  \E e \in StackDevices(Stk(h)) : <<e, p>> \in pending'
      <3>1. PICK g \in Hosts : Seen(g) /\ Key(g) = Key(h)
        BY <2>1 DEF Handled
      <3>2. PICK e \in StackDevices(Stk(g)) : p \in HostMissing(g, e)
        BY <2>3, <3>1, RoutesLackTheSame
      <3>3. e \in Devices /\ e \in StackDevices(Stk(h)) /\ g # NoDevice
        BY <3>1, SiteFacts, ApartStacks DEF Stk
      <3>4. p \in plans[e].missing
        BY <2>1, <3>1, <3>2, <3>3 DEF Planned
      <3>5. <<e, p>> \in pending'
        BY <2>1, <3>3, <3>4
      <3> QED BY <3>3, <3>5
    <2>4. \A h, d : HostMissing(h, d)' = HostMissing(h, d)
      BY <2>1, LackIsLocal
    <2>5. \A h, p : AwaitsCreation(Stk(h), p)' <=>
                     \E e \in StackDevices(Stk(h)) : <<e, p>> \in pending'
      BY <2>2 DEF AwaitsCreation
    <2> QED BY <2>2, <2>3, <2>4, <2>5
  <1>3. ASSUME NEW d \in Devices, ApplyPlan(d) PROVE FALSE
    BY <1>3, PlanIsApplied DEF Handled
  <1>4. ASSUME NEW h \in Hosts, CreateHost(h) PROVE FALSE
    BY <1>4 DEF CreateHost
  <1>5. ASSUME StartSync \/ Finish \/ \E h \in Hosts : SyncHost(h)
        PROVE  UNCHANGED <<site, apply, ifs, pending>> /\ stage # "create"
    BY <1>5 DEF StartSync, Finish, SyncHost
  <1>6. CASE UNCHANGED vars
    BY <1>1, <1>6 DEF vars
  <1> QED BY <1>1, <1>2, <1>3, <1>4, <1>5, <1>6 DEF Next

(* What is searched for on the whole stack ignores the second lookup.      *)
LEMMA SearchIgnoresClaims ==
  ASSUME TypeOK, NEW h \in Hosts, NEW lf \in BOOLEAN, NEW p
  PROVE  /\ MatchUnnumbered(StackOf(h, lf), p) = MatchUnnumbered(Stk(h), p)
         /\ IsRouted(StackOf(h, lf), p) <=> IsRouted(Stk(h), p)
         /\ Owner(StackOf(h, lf), p) = Owner(Stk(h), p)
  <1>1. SameButClaims(StackOf(h, lf), Stk(h)) /\ StackDevices(StackOf(h, lf)) = StackDevices(Stk(h))
    BY SiteFacts DEF TypeOK
  <1>2. Holders(StackOf(h, lf), p) = Holders(Stk(h), p)
    BY <1>1 DEF Holders
  <1>3. IsStack(StackOf(h, lf)) <=> IsStack(Stk(h))
    BY <1>1 DEF IsStack, SameButClaims
  <1>4. MatchUnnumbered(StackOf(h, lf), p) = MatchUnnumbered(Stk(h), p)
    BY <1>1, <1>2, <1>3 DEF MatchUnnumbered, SameButClaims
  <1> QED BY <1>3, <1>4, PlansIgnoreClaims DEF IsRouted

(* A port that is lacking nowhere in its stack is matched, blocked, or a   *)
(* Port-Channel that several members have.                                 *)
LEMMA PresentPortsMatch ==
  ASSUME TypeOK, NEW h \in Hosts, NEW lf \in BOOLEAN, NEW p \in site.reports[h],
         \A d \in StackDevices(Stk(h)) : p \notin HostMissing(h, d)
  PROVE  \/ Match(StackOf(h, lf), p) # NoMatch
         \/ IsBlocked(StackOf(h, lf), p)
         \/ IsAmbiguous(Stk(h), p)
  <1> SUFFICES ASSUME Match(StackOf(h, lf), p) = NoMatch, ~IsBlocked(StackOf(h, lf), p)
               PROVE  IsAmbiguous(Stk(h), p)
    OBVIOUS
  <1> DEFINE stack == StackOf(h, lf)
             holders == Holders(Stk(h), p)
  <1> site \in Sites
    BY DEF TypeOK
  <1>1. /\ IsSound(stack, h, Devices)
        /\ IsSound(Stk(h), h, Devices)
        /\ NoDevice \notin Devices
        /\ IsFiniteSet(Devices)
        /\ StackDevices(Stk(h)) \subseteq Devices
    BY SiteFacts DEF Stk
  <1>2. CASE IsRouted(stack, p) /\ Owner(stack, p) = NoDevice
    <2>1. Match(stack, p) = <<StandIn(stack, p), p>> /\ StandIn(stack, p) # NoDevice
      BY <1>2 DEF Match, IsRouted, IsBlocked
    <2> QED BY <2>1 DEF NoMatch
  <1>3. CASE IsRouted(stack, p) /\ Owner(stack, p) # NoDevice
    <2> DEFINE d == Owner(stack, p)
    <2>1. Match(stack, p) = IF p \in ifs[d] THEN <<d, p>>
                            ELSE IF HasTemplate(stack, p, d) THEN <<d, Template(p)>>
                            ELSE NoMatch
      BY <1>3 DEF Match, IsRouted
    <2>2. p \notin ifs[d] /\ ~HasTemplate(stack, p, d)
      BY <1>3, <2>1 DEF NoMatch
    <2>3. ~IsHeldElsewhere(stack, p)
      BY <1>3 DEF IsHeldElsewhere, IsRouted, IsStackWide, PortChannel
    <2>4. p \in Missing(stack, site.reports[h], d)
      BY <2>2, <2>3 DEF Missing
    <2>5. d \in StackDevices(Stk(h))
      BY <1>1, <1>3, OwnerIsADevice, SiteFacts
    <2> HIDE DEF d
    <2> QED BY <2>4, <2>5, PlansIgnoreClaims
  <1>4. CASE ~IsRouted(stack, p)
    <2> DEFINE d == Owner(Stk(h), p)
    <2>1. MatchUnnumbered(stack, p) = NoDevice
      BY <1>4 DEF Match, IsRouted, NoMatch
    <2>2. MatchUnnumbered(Stk(h), p) = NoDevice /\ ~IsRouted(Stk(h), p)
      BY <1>4, <2>1, SearchIgnoresClaims
    <2>3. holders \subseteq Devices /\ IsFiniteSet(holders)
      BY <1>1, FS_Subset DEF Holders
    <2>4. d \in StackDevices(Stk(h)) /\ d \in {Stk(h).connected, Stk(h).anchor}
      BY <2>2 DEF Owner, IsRouted, StackDevices
    <2>5. Stk(h).connected \notin holders /\ Stk(h).anchor \notin holders
      BY <1>1, <2>2, <2>3 DEF MatchUnnumbered
    <2>6. p \notin ifs[d]
      BY <2>4, <2>5 DEF Holders
    <2>7. ~HasTemplate(Stk(h), p, d)
      BY <2>2 DEF HasTemplate, IsRouted
    <2>8. IsHeldElsewhere(Stk(h), p)
      BY <2>4, <2>6, <2>7 DEF HostMissing, Missing
    <2>9. IsStack(Stk(h)) /\ IsStackWide(p) /\ holders # {}
      BY <2>8 DEF IsHeldElsewhere, Holders
    <2>10. Cardinality(holders) # 1
      BY <1>1, <2>2, <2>3, <2>5, <2>9 DEF MatchUnnumbered
    <2>11. Cardinality(holders) \in Nat /\ Cardinality(holders) # 0
      BY <2>3, <2>9, FS_CardinalityType, FS_EmptySet
    <2>12. Cardinality(holders) > 1
      BY <2>10, <2>11
    <2> QED BY <2>2, <2>9, <2>12 DEF IsAmbiguous
  <1> QED BY <1>2, <1>3, <1>4

(* A plan reports only Port-Channels that several members have.            *)
LEMMA StepReportsNoErrors ==
  ASSUME Apart, Agree, Typed, Handled, Foretold, PlanHasNoErrors, [Next]_vars
  PROVE  PlanHasNoErrors'
  <1> SUFFICES ASSUME ~apply', NEW e \in errors'
               PROVE  IsAmbiguous(StackOf(e[1], FALSE), e[2])'
    BY DEF PlanHasNoErrors
  <1> TypeOK /\ site \in Sites
    BY DEF Typed, TypeOK
  <1>1. UNCHANGED <<site, apply, ifs>>
    <2>1. ASSUME NEW d \in Devices, ApplyPlan(d) PROVE FALSE
      BY <2>1, PlanIsApplied DEF Handled
    <2> QED BY <2>1 DEF Next, CreateHost, CreateReports, StartSync, SyncHost, Finish, vars
  <1>2. IsAmbiguous(Stk(e[1]), e[2])' <=> IsAmbiguous(Stk(e[1]), e[2])
    BY <1>1, LackIsLocal
  <1>3. IsAmbiguous(Stk(e[1]), e[2])
    <2>1. CASE e \in errors
      BY <1>1, <2>1 DEF PlanHasNoErrors, Stk
    <2>2. CASE e \notin errors
      <3>1. PICK h \in Hosts : SyncHost(h)
        BY <2>2 DEF Next, CreateHost, CreateReports, ApplyPlan, StartSync, Finish, vars
      <3>2. PICK lf \in Lookups : errors' = errors \cup {<<h, p>> : p \in Unmatched(h, StackOf(h, lf))}
        BY <2>2, <3>1, PortsAreSynced
      <3>3. PICK p \in Unmatched(h, StackOf(h, lf)) : e = <<h, p>>
        BY <2>2, <3>2
      <3>4. lf \in BOOLEAN
        BY LookupsAssumption
      <3>5. /\ p \in site.reports[h]
            /\ Match(StackOf(h, lf), p) = NoMatch
            /\ ~IsBlocked(StackOf(h, lf), p)
            /\ ~AwaitsCreation(StackOf(h, lf), p)
        BY DEF Unmatched
      <3>6. ~AwaitsCreation(Stk(h), p)
        BY <3>4, <3>5, SiteFacts DEF AwaitsCreation
      <3>7. stage = "sync"
        BY <3>1, PortsAreSynced
      <3>8. \A d \in StackDevices(Stk(h)) : p \notin HostMissing(h, d)
        BY <1>1, <3>6, <3>7 DEF Foretold
      <3> QED BY <3>3, <3>4, <3>5, <3>8, PresentPortsMatch
    <2> QED BY <2>1, <2>2
  <1> QED BY <1>2, <1>3 DEF Stk

(* A plan calls no port missing that its own create step would make, and   *)
(* none ambiguous but a Port-Channel that several members have.            *)
THEOREM PlansAreQuiet ==
  ASSUME Apart, Agree
  PROVE  Spec => []PlanHasNoErrors
  BY InitTyped, NextTyped, InitHandled, NextHandled, InitPlanned, NextPlanned,
     InitForetold, NextForetold, StepReportsNoErrors, PTL DEF Spec

-----------------------------------------------------------------------------
(* What a clean apply leaves behind.  First the create step: a plan whose  *)
(* writes all succeed leaves its device lacking nothing.                   *)
LEMMA AppliedPlanSatisfies ==
  ASSUME Apart, Typed, Handled, Planned, NEW d \in Devices, ApplyPlan(d), ~trouble',
         NEW h \in Hosts, plans[d].via = h
  PROVE  /\ \A p \in site.reports[h] : Owner(Stk(h), p) = d =>
              p \in ifs'[d] \/ IsHeldElsewhere(Stk(h), p)'
         /\ Satisfied(h, d)'
  <1> TypeOK /\ site \in Sites
    BY DEF Typed, TypeOK
  <1>1. h # NoDevice /\ IsSound(Stk(h), h, Devices) /\ site.reports[h] \subseteq Ports
        /\ StackDevices(Stk(h)) \subseteq Devices
    BY SiteFacts DEF Stk
  <1>2. /\ UNCHANGED site
        /\ stage = "apply" /\ d \in waiting
        /\ ifs' = [ifs EXCEPT ![d] = (@ \ {r[1] : r \in plans[d].rename})
                                     \cup plans[d].missing \cup {r[2] : r \in plans[d].rename}]
    BY PlanIsApplied
  <1>3. plans[d].missing = HostMissing(h, d) /\ plans[d].rename = HostRenames(h, d)
    BY <1>1, <1>2 DEF Planned
  <1>4. /\ ifs'[d] = (ifs[d] \ {r[1] : r \in HostRenames(h, d)})
                       \cup HostMissing(h, d) \cup {r[2] : r \in HostRenames(h, d)}
        /\ \A e \in Devices \ {d} : ifs'[e] = ifs[e]
    BY <1>2, <1>3 DEF TypeOK
  <1>5. Stk(h)' = Stk(h) /\ site' = site
    BY <1>2, SiteStays
  <1>6. ASSUME NEW p \in site.reports[h], Owner(Stk(h), p) = d
        PROVE  p \in ifs'[d] \/ IsHeldElsewhere(Stk(h), p)'
    <2>1. CASE p \in ifs[d]
      <3>1. ASSUME NEW r \in HostRenames(h, d), r[1] = p PROVE FALSE
        <4>1. /\ p = Template(r[2])
              /\ r[2] \in site.reports[h]
              /\ r[2].member # NoMember
              /\ IsStack(Stk(h))
              /\ Owner(Stk(h), r[2]) = d
              /\ r[2] \notin ifs[d]
          BY <3>1, RenameIsNumbered
        <4>2. p.member = 1 /\ p.slot = r[2].slot
          BY <4>1, TemplateIsNumbered
        <4>3. /\ p.member \in DOMAIN Stk(h).members /\ Stk(h).members[p.member] = d
              /\ r[2].member \in DOMAIN Stk(h).members /\ Stk(h).members[r[2].member] = d
          BY <1>6, <4>1, <4>2, SiteFacts DEF Owner, NoMember
        <4>4. p.member = r[2].member
          BY <1>1, <4>3 DEF IsSound
        <4>5. p = r[2]
          BY <1>1, <4>1, <4>2, <4>4, PortIsItsNumber
        <4> QED BY <2>1, <4>1, <4>5
      <3> QED BY <1>4, <2>1, <3>1
    <2>2. CASE p \notin ifs[d] /\ HasTemplate(Stk(h), p, d)
      <3>1. <<Template(p), p>> \in HostRenames(h, d)
        BY <1>6, <2>2 DEF HostRenames, Renames
      <3>2. p \in {r[2] : r \in HostRenames(h, d)}
        BY <3>1
      <3> QED BY <1>4, <3>2
    <2>3. CASE p \notin ifs[d] /\ ~HasTemplate(Stk(h), p, d) /\ ~IsHeldElsewhere(Stk(h), p)
      <3>1. p \in HostMissing(h, d)
        BY <1>6, <2>3 DEF HostMissing, Missing
      <3> QED BY <1>4, <3>1
    <2>4. CASE IsHeldElsewhere(Stk(h), p)
      <3>1. PICK e \in StackDevices(Stk(h)) \ {d} : p \in ifs[e]
        BY <1>6, <2>4 DEF IsHeldElsewhere
      <3>2. p \in ifs'[e]
        BY <1>1, <1>4, <3>1
      <3> QED BY <1>5, <1>6, <2>4, <3>1, <3>2 DEF IsHeldElsewhere
    <2> QED BY <2>1, <2>2, <2>3, <2>4
  <1>7. HostMissing(h, d)' = {}
    BY <1>5, <1>6 DEF HostMissing, Missing
  <1>8. HostRenames(h, d)' = {}
    <2>1. \A p : IsHeldElsewhere(Stk(h), p)' => p.member = NoMember
      BY <1>5 DEF IsHeldElsewhere, IsStackWide, PortChannel
    <2> QED BY <1>5, <1>6, <2>1 DEF HostRenames, Renames, HasTemplate
  <1> QED BY <1>6, <1>7, <1>8 DEF Satisfied

(* Where another device's plan is applied nothing comes to be lacking.     *)
LEMMA OtherPlanSatisfies ==
  ASSUME Apart, Typed, Handled, Planned, NEW d \in Devices, ApplyPlan(d),
         NEW h \in Hosts, NEW e \in Devices \ {d}, Satisfied(h, e)
  PROVE  Satisfied(h, e)'
  <1> TypeOK /\ site \in Sites
    BY DEF Typed, TypeOK
  <1>1. site' = site /\ ifs'[e] = ifs[e]
    BY PlanIsApplied DEF TypeOK
  <1>2. Stk(h)' = Stk(h) /\ StackDevices(Stk(h)) \subseteq Devices
    BY <1>1, SiteStays, SiteFacts
  <1>3. \A p : HasTemplate(Stk(h), p, e)' <=> HasTemplate(Stk(h), p, e)
    BY <1>1, <1>2 DEF HasTemplate
  <1>4. ASSUME NEW p \in site.reports[h], IsHeldElsewhere(Stk(h), p)
        PROVE  IsHeldElsewhere(Stk(h), p)'
    <2>1. p \in Names
      BY ReportsAreNames
    <2>2. \A k \in StackDevices(Stk(h)) : p \in ifs[k] => p \in ifs'[k]
      BY <1>2, <1>4, <2>1, PortChannelsMove DEF IsHeldElsewhere
    <2> QED BY <1>2, <1>4, <2>2 DEF IsHeldElsewhere
  <1>5. HostMissing(h, e)' \subseteq HostMissing(h, e)
    BY <1>1, <1>2, <1>3, <1>4 DEF HostMissing, Missing
  <1>6. HostRenames(h, e)' = HostRenames(h, e)
    BY <1>1, <1>2, <1>3 DEF HostRenames, Renames
  <1> QED BY <1>5, <1>6 DEF Satisfied

(* At the start nothing was applied.                                       *)
LEMMA InitFilled == Init => Filled
  BY DEF Init, Filled

(* Until a write fails, what was applied lacks nothing.                    *)
LEMMA NextFilled ==
  ASSUME Apart, Agree
  PROVE  Typed /\ Handled /\ Planned /\ Filled /\ [Next]_vars => Filled'
  <1> SUFFICES ASSUME Typed, Handled, Planned, Filled, [Next]_vars, Clean' PROVE Filled'
    BY DEF Filled
  <1> TypeOK /\ site \in Sites
    BY DEF Typed, TypeOK
  <1>1. ASSUME NEW d \in Devices, ApplyPlan(d) PROVE Filled'
    <2>1. /\ UNCHANGED <<site, apply, stage, stacksSeen, plans>>
          /\ stage = "apply" /\ d \in waiting /\ waiting' = waiting \ {d}
          /\ Clean /\ ~trouble'
      BY <1>1, PlanIsApplied DEF Clean
    <2>2. Hosts' = Hosts /\ (\A g : Stk(g)' = Stk(g)) /\ \A g : Seen(g)' <=> Seen(g)
      BY <2>1, SiteStays DEF Seen
    <2>3. ASSUME NEW h \in Hosts, Seen(h), NEW e \in StackDevices(Stk(h)) \ waiting'
          PROVE  Satisfied(h, e)'
      <3>1. e \in Devices /\ plans[e].via = h
        BY <2>1, <2>3, SiteFacts DEF Planned, Stk
      <3>2. CASE e = d
        BY <1>1, <2>1, <3>1, <3>2, AppliedPlanSatisfies
      <3>3. CASE e # d
        <4>1. Satisfied(h, e)
          BY <2>1, <2>3, <3>3 DEF Filled
        <4> QED BY <1>1, <3>1, <3>3, <4>1, OtherPlanSatisfies
      <3> QED BY <3>2, <3>3
    <2> QED BY <2>1, <2>2, <2>3 DEF Filled
  <1>2. ASSUME CreateReports PROVE Filled'
    <2>1. UNCHANGED <<site, apply, stacksSeen, plans>> /\ stage = "create" /\ stage' = "apply"
          /\ waiting' = (IF apply THEN {d \in Devices : plans[d] # NoPlan} ELSE {})
      BY <1>2 DEF CreateReports
    <2>2. Hosts' = Hosts /\ (\A g : Stk(g)' = Stk(g)) /\ \A g : Seen(g)' <=> Seen(g)
      BY <2>1, SiteStays DEF Seen
    <2>3. ASSUME NEW h \in Hosts, Seen(h), NEW d \in StackDevices(Stk(h)) PROVE d \in waiting'
      <3>1. d \in Devices /\ h # NoDevice
        BY <2>3, SiteFacts DEF Stk
      <3>2. plans[d].via = h
        BY <2>1, <2>3 DEF Planned
      <3> QED BY <2>1, <3>1, <3>2 DEF NoPlan, Clean
    <2> QED BY <2>1, <2>2, <2>3 DEF Filled
  <1>3. ASSUME StartSync PROVE Filled'
    <2>1. UNCHANGED <<site, apply, ifs, trouble>> /\ stage = "apply" /\ waiting = {}
          /\ stage' = "sync"
      BY <1>3 DEF StartSync
    <2>2. Clean
      BY <2>1 DEF Clean
    <2>3. ASSUME NEW h \in Hosts, NEW d \in StackDevices(Stk(h)) PROVE Satisfied(h, d)
      <3>1. PICK g \in Hosts : Seen(g) /\ Key(g) = Key(h)
        BY <2>1 DEF Handled, AllHandled
      <3>2. \A e \in StackDevices(Stk(g)) : Satisfied(g, e)
        BY <2>1, <2>2, <3>1 DEF Filled
      <3> QED BY <3>1, <3>2, RoutesLackTheSame DEF Satisfied
    <2>4. Hosts' = Hosts /\ \A g : Stk(g)' = Stk(g)
      BY <2>1, SiteStays
    <2> QED BY <2>1, <2>3, <2>4, LackIsLocal DEF Filled, Satisfied
  <1>4. ASSUME NEW h \in Hosts, CreateHost(h) PROVE Filled'
    <2>1. stage' = "create"
      BY <1>4 DEF CreateHost
    <2> QED BY <2>1 DEF Filled
  <1>5. ASSUME Finish \/ \E h \in Hosts : SyncHost(h) PROVE Filled'
    <2>1. UNCHANGED <<site, apply, ifs>> /\ stage = "sync" /\ stage' \in {"sync", "done"}
      BY <1>5 DEF Finish, SyncHost
    <2>2. ~trouble
      <3>1. CASE Finish
        BY <3>1 DEF Finish, Clean
      <3>2. ASSUME NEW h \in Hosts, SyncHost(h) PROVE ~trouble
        <4>1. CASE SeenVia(Stk(h)) # {}
          BY <3>2, <4>1, PortsAreSynced DEF Clean
        <4>2. CASE SeenVia(Stk(h)) = {}
          BY <2>1, <3>2, <4>2, PortsAreSynced DEF Clean
        <4> QED BY <4>1, <4>2
      <3> QED BY <1>5, <3>1, <3>2
    <2>3. Hosts' = Hosts /\ \A g : Stk(g)' = Stk(g)
      BY <2>1, SiteStays
    <2>4. \A h \in Hosts : \A d \in StackDevices(Stk(h)) : Satisfied(h, d)
      BY <2>1, <2>2 DEF Filled, Clean
    <2> QED BY <2>1, <2>3, <2>4, LackIsLocal DEF Filled, Satisfied
  <1>6. CASE UNCHANGED vars
    <2>1. UNCHANGED <<site, apply, ifs, stage, waiting, stacksSeen, trouble>>
      BY <1>6 DEF vars
    <2>2. Hosts' = Hosts /\ (\A g : Stk(g)' = Stk(g)) /\ \A g : Seen(g)' <=> Seen(g)
      BY <2>1, SiteStays DEF Seen
    <2> QED BY <2>1, <2>2, LackIsLocal DEF Filled, Satisfied, Clean
  <1> QED BY <1>1, <1>2, <1>3, <1>4, <1>5, <1>6 DEF Next

(* Then the sync step: once a stack is handled and no write failed, every  *)
(* interface matched to a port of its report has that port's state.        *)
LEMMA StacksAreSynced ==
  ASSUME TypeOK, NEW h \in Hosts, SyncHost(h), SeenVia(Stk(h)) = {}, Clean'
  PROVE  /\ Clean
         /\ \E lf \in BOOLEAN :
              LET M(p) == Match(StackOf(h, lf), p) IN
              /\ \A p \in site.reports[h] : M(p) # NoMatch => cfg'[M(p)] = <<site.plane[h], p>>
              /\ \A i \in Devices \X Names : i[1] \notin StackDevices(Stk(h)) => cfg'[i] = cfg[i]
              /\ \A i \in Devices \X Names : cfg'[i] # cfg[i] =>
                   \E p \in site.reports[h] :
                     M(p) # NoMatch /\ M(p) = i /\ cfg'[i] = <<site.plane[h], p>>
              /\ \A w \in writes' \ writes : \E p \in site.reports[h] :
                   M(p) # NoMatch /\ w = <<h, p, M(p)[1]>>
  <1>1. apply /\ ~trouble'
    BY PortsAreSynced DEF Clean
  <1>2. PICK lf \in Lookups :
          \E written \in SUBSET Stale(h, StackOf(h, lf)) :
            /\ cfg' = [i \in DOMAIN cfg |->
                 IF \E p \in written : Match(StackOf(h, lf), p) = i
                 THEN <<site.plane[h],
                        CHOOSE p \in written : Match(StackOf(h, lf), p) = i>>
                 ELSE cfg[i]]
            /\ writes' = writes \cup
                 {<<h, p, Match(StackOf(h, lf), p)[1]>> : p \in written}
            /\ ~trouble' => ~trouble /\ written = Stale(h, StackOf(h, lf))
    BY <1>1, PortsAreSynced
  <1> DEFINE M(p) == Match(StackOf(h, lf), p)
             stale == Stale(h, StackOf(h, lf))
             By(i) == CHOOSE p \in stale : M(p) = i
  <1>3. lf \in BOOLEAN
    BY LookupsAssumption
  <1>4. \A p \in site.reports[h] : M(p) # NoMatch =>
          M(p) \in Devices \X Names /\ M(p)[1] \in StackDevices(Stk(h))
    BY <1>3, MatchExists
  <1>5. \A p, q \in site.reports[h] : M(p) # NoMatch /\ M(p) = M(q) => p = q
    BY TypedHasOneInterfacePerPort DEF OneInterfacePerPort
  <1>6. \A p : p \in stale <=> /\ p \in site.reports[h]
                              /\ M(p) # NoMatch
                              /\ cfg[M(p)] # <<site.plane[h], p>>
    BY DEF Stale
  <1>7. DOMAIN cfg = Devices \X Names
    BY DEF TypeOK
  <1>8. ~trouble
        /\ cfg' = [i \in Devices \X Names |->
             IF \E p \in stale : M(p) = i THEN <<site.plane[h], By(i)>> ELSE cfg[i]]
        /\ writes' = writes \cup {<<h, p, M(p)[1]>> : p \in stale}
    BY <1>1, <1>2, <1>7
  <1>9. \A i : (\E p \in stale : M(p) = i) => By(i) \in stale /\ M(By(i)) = i
    OBVIOUS
  <1> HIDE DEF M, stale, By
  <1>10. ASSUME NEW p \in site.reports[h], M(p) # NoMatch
         PROVE  cfg'[M(p)] = <<site.plane[h], p>>
    <2>1. CASE \E q \in stale : M(q) = M(p)
      <3>1. By(M(p)) = p
        BY <1>5, <1>6, <1>9, <1>10, <2>1
      <3> QED BY <1>4, <1>8, <1>10, <2>1, <3>1
    <2>2. CASE ~\E q \in stale : M(q) = M(p)
      <3>1. cfg'[M(p)] = cfg[M(p)]
        BY <1>4, <1>8, <1>10, <2>2
      <3> QED BY <1>6, <1>10, <2>2, <3>1
    <2> QED BY <2>1, <2>2
  <1>11. ASSUME NEW i \in Devices \X Names, i[1] \notin StackDevices(Stk(h))
         PROVE  cfg'[i] = cfg[i]
    BY <1>4, <1>6, <1>8, <1>11
  <1>12. ASSUME NEW i \in Devices \X Names, cfg'[i] # cfg[i]
         PROVE  \E p \in site.reports[h] :
                  M(p) # NoMatch /\ M(p) = i /\ cfg'[i] = <<site.plane[h], p>>
    <2>1. PICK p \in stale : M(p) = i
      BY <1>8, <1>12
    <2>2. p \in site.reports[h] /\ M(p) # NoMatch
      BY <1>6
    <2> QED BY <1>10, <2>1, <2>2
  <1>13. ASSUME NEW w \in writes' \ writes
         PROVE  \E p \in site.reports[h] : M(p) # NoMatch /\ w = <<h, p, M(p)[1]>>
    BY <1>6, <1>8
  <1> QED BY <1>1, <1>3, <1>8, <1>10, <1>11, <1>12, <1>13 DEF Clean, M

(* What a port is matched to depends on the interfaces alone.              *)
LEMMA MatchIsLocal ==
  ASSUME ifs' = ifs
  PROVE  \A stack, p : Match(stack, p)' = Match(stack, p)
  <1> SUFFICES ASSUME NEW CONSTANT stack, NEW CONSTANT p
               PROVE  Match(stack, p)' = Match(stack, p)
    OBVIOUS
  <1>1. Holders(stack, p)' = Holders(stack, p)
    BY DEF Holders
  <1> DEFINE Of(holders) ==
               IF stack.connected \in holders THEN stack.connected
               ELSE IF stack.anchor \in holders THEN stack.anchor
               ELSE IF IsStack(stack) /\ IsStackWide(p) /\ Cardinality(holders) = 1
                 THEN CHOOSE d \in holders : TRUE
               ELSE NoDevice
  <1>2. MatchUnnumbered(stack, p) = Of(Holders(stack, p))
        /\ MatchUnnumbered(stack, p)' = Of(Holders(stack, p)')
    BY DEF MatchUnnumbered
  <1>3. MatchUnnumbered(stack, p)' = MatchUnnumbered(stack, p)
    BY <1>1, <1>2
  <1>4. IsBlocked(stack, p)' <=> IsBlocked(stack, p)
    BY DEF IsBlocked
  <1>5. \A d : HasTemplate(stack, p, d)' <=> HasTemplate(stack, p, d)
    BY DEF HasTemplate
  <1> HIDE DEF Of
  <1> QED BY <1>3, <1>4, <1>5 DEF Match

(* At the start no interface was given a state.                            *)
LEMMA InitSettled == Init => Settled
  BY DEF Init, Settled

(* Until a write fails, a stack that was handled carries its ports.        *)
LEMMA NextSettled ==
  ASSUME Apart
  PROVE  Typed /\ Handled /\ Planned /\ Settled /\ [Next]_vars => Settled'
  <1> SUFFICES ASSUME Typed, Handled, Planned, Settled, [Next]_vars PROVE Settled'
    OBVIOUS
  <1> TypeOK /\ site \in Sites
    BY DEF Typed, TypeOK
  <1>1. ASSUME NEW d \in Devices, ApplyPlan(d) PROVE Settled'
    <2>1. site' = site /\ stage' = stage /\ stage = "apply"
          /\ \A i \in Devices \X Names : cfg'[i] = Blank
      BY <1>1, PlanIsApplied DEF Settled
    <2> QED BY <2>1, SiteStays DEF Settled
  <1>2. ASSUME CreateReports \/ StartSync \/ \E h \in Hosts : CreateHost(h) PROVE Settled'
    <2>1. UNCHANGED <<site, cfg>> /\ stage \in {"create", "apply"}
          /\ \A i \in Devices \X Names : cfg[i] = Blank
      BY <1>2 DEF CreateReports, StartSync, CreateHost, Settled
    <2>2. stage' \in {"create", "apply"} \/ stacksSeen' = {}
      BY <1>2 DEF CreateReports, StartSync, CreateHost
    <2>3. stacksSeen' = {} => \A h : ~Seen(h)'
      BY DEF Seen
    <2> QED BY <2>1, <2>2, <2>3, SiteStays DEF Settled
  <1>3. ASSUME UNCHANGED <<site, apply, ifs, cfg, stacksSeen, trouble>>,
               stage' = stage \/ (stage = "sync" /\ stage' = "done")
        PROVE  Settled'
    <2>1. Hosts' = Hosts /\ Devices' = Devices /\ Names' = Names /\ (\A g : Stk(g)' = Stk(g))
          /\ (\A g : Seen(g)' <=> Seen(g)) /\ \A g, lf : StackOf(g, lf)' = StackOf(g, lf)
      BY <1>3, SiteStays DEF Seen
    <2>2. \A g, lf : Carries(g, StackOf(g, lf))' <=> Carries(g, StackOf(g, lf))
      BY <1>3, <2>1, MatchIsLocal DEF Carries
    <2> QED BY <1>3, <2>1, <2>2 DEF Settled, Clean
  <1>4. ASSUME NEW h \in Hosts, SyncHost(h), SeenVia(Stk(h)) = {} PROVE Settled'
    <2>1. UNCHANGED <<site, apply, ifs, stage>> /\ stage = "sync"
          /\ stacksSeen' = stacksSeen \cup {<<Key(h), h>>}
      BY <1>4, PortsAreSynced
    <2>2. Hosts' = Hosts /\ Devices' = Devices /\ Names' = Names /\ (\A g : Stk(g)' = Stk(g))
          /\ (\A g : Seen(g)' <=> Seen(g) \/ g = h) /\ (\A g, lf : StackOf(g, lf)' = StackOf(g, lf))
      BY <2>1, SiteStays DEF Seen
    <2> SUFFICES ASSUME Clean'
                 PROVE  /\ \A i \in Devices \X Names : cfg'[i] # Blank =>
                             \E g \in Hosts : (Seen(g) \/ g = h) /\ i[1] \in StackDevices(Stk(g))
                        /\ \A g \in Hosts : Seen(g) \/ g = h =>
                             \E lf \in BOOLEAN : Carries(g, StackOf(g, lf))'
      BY <2>1, <2>2 DEF Settled
    <2>3. PICK lf \in BOOLEAN :
            /\ \A p \in site.reports[h] : Match(StackOf(h, lf), p) # NoMatch =>
                 cfg'[Match(StackOf(h, lf), p)] = <<site.plane[h], p>>
            /\ \A i \in Devices \X Names : i[1] \notin StackDevices(Stk(h)) => cfg'[i] = cfg[i]
            /\ \A i \in Devices \X Names : cfg'[i] # cfg[i] =>
                 \E p \in site.reports[h] :
                   /\ Match(StackOf(h, lf), p) # NoMatch
                   /\ Match(StackOf(h, lf), p) = i
                   /\ cfg'[i] = <<site.plane[h], p>>
      BY <1>4, StacksAreSynced
    <2>4. /\ \A i \in Devices \X Names :
               cfg[i] # Blank => \E g \in Hosts : Seen(g) /\ i[1] \in StackDevices(Stk(g))
          /\ \A g \in Hosts : Seen(g) => \E l \in BOOLEAN : Carries(g, StackOf(g, l))
      BY <1>4, <2>1, StacksAreSynced DEF Settled
    <2>5. \A g \in Hosts : Seen(g) =>
            Key(g) # Key(h) /\ \A d \in StackDevices(Stk(g)) : d \notin StackDevices(Stk(h))
      BY <1>4, SeenHosts, ApartStacks
    <2>6. ASSUME NEW i \in Devices \X Names, cfg'[i] # Blank
          PROVE  \E g \in Hosts : (Seen(g) \/ g = h) /\ i[1] \in StackDevices(Stk(g))
      <3>1. CASE i[1] \in StackDevices(Stk(h))
        BY <3>1
      <3>2. CASE i[1] \notin StackDevices(Stk(h))
        BY <2>3, <2>4, <2>6, <3>2
      <3> QED BY <3>1, <3>2
    <2>7. Carries(h, StackOf(h, lf))'
      <3>1. StackDevices(StackOf(h, lf)) = StackDevices(Stk(h))
        BY SiteFacts
      <3>2. \A i \in Devices \X Names : i[1] \in StackDevices(Stk(h)) => cfg[i] = Blank
        BY <2>4, <2>5
      <3> QED BY <2>1, <2>2, <2>3, <3>1, <3>2, MatchIsLocal DEF Carries
    <2>8. ASSUME NEW g \in Hosts, Seen(g) PROVE \E l \in BOOLEAN : Carries(g, StackOf(g, l))'
      <3>1. PICK l \in BOOLEAN : Carries(g, StackOf(g, l))
        BY <2>4, <2>8
      <3>2. StackDevices(StackOf(g, l)) = StackDevices(Stk(g))
        BY SiteFacts
      <3>3. \A i \in Devices \X Names : i[1] \in StackDevices(Stk(g)) => cfg'[i] = cfg[i]
        BY <2>3, <2>5, <2>8
      <3>4. \A p \in site.reports[g] : Match(StackOf(g, l), p) # NoMatch =>
              /\ Match(StackOf(g, l), p) \in Devices \X Names
              /\ Match(StackOf(g, l), p)[1] \in StackDevices(Stk(g))
        BY MatchExists
      <3>5. Carries(g, StackOf(g, l))'
        BY <2>1, <2>2, <3>1, <3>2, <3>3, <3>4, MatchIsLocal DEF Carries
      <3> QED BY <3>5
    <2> QED BY <2>6, <2>7, <2>8
  <1>5. ASSUME NEW h \in Hosts, SyncHost(h), SeenVia(Stk(h)) # {} PROVE Settled'
    <2>1. UNCHANGED <<site, apply, ifs, cfg, stacksSeen, trouble>> /\ stage' = stage
      BY <1>5, PortsAreSynced
    <2> QED BY <1>3, <2>1
  <1>6. CASE Finish
    <2>1. UNCHANGED <<site, apply, ifs, cfg, stacksSeen, trouble>>
          /\ stage = "sync" /\ stage' = "done"
      BY <1>6 DEF Finish
    <2> QED BY <1>3, <2>1
  <1>7. CASE UNCHANGED vars
    <2>1. UNCHANGED <<site, apply, ifs, cfg, stacksSeen, trouble>> /\ stage' = stage
      BY <1>7 DEF vars
    <2> QED BY <1>3, <2>1
  <1> QED BY <1>1, <1>2, <1>4, <1>5, <1>6, <1>7 DEF Next

-----------------------------------------------------------------------------
(* What was created or renamed stays its port's, until the sync step gives *)
(* it the port's state.                                                    *)
LEMMA CreatedStays ==
  ASSUME site' = site, ifs' = ifs,
         stage' # "apply" \/ (stage' = stage /\ waiting' = waiting),
         NEW h, NEW p, NEW d, Created(h, p, d)
  PROVE  Created(h, p, d)'
  <1>1. Hosts' = Hosts /\ Devices' = Devices /\ Stk(h)' = Stk(h)
    BY SiteStays
  <1> QED BY <1>1 DEF Created

(* A clean plan creates or renames every interface of it for its port.     *)
LEMMA AppliedPlanCreates ==
  ASSUME Apart, Typed, Handled, Planned, NEW d \in Devices, ApplyPlan(d), ~trouble',
         NEW w \in writes' \ writes
  PROVE  Created(w[1], w[2], w[3])'
  <1>0. PICK h : h = plans[d].via
    OBVIOUS
  <1> TypeOK /\ site \in Sites
    BY DEF Typed, TypeOK
  <1>1. PICK new \in SUBSET plans[d].missing, renamed \in SUBSET plans[d].rename :
          /\ ifs' = [ifs EXCEPT ![d] =
                      (@ \ {r[1] : r \in renamed}) \cup new \cup {r[2] : r \in renamed}]
          /\ writes' = writes \cup
               {<<plans[d].via, p, d>> : p \in new \cup {r[2] : r \in renamed}}
    BY PlanIsApplied
  <1>2. PICK p \in new \cup {r[2] : r \in renamed} : w = <<h, p, d>>
    BY <1>0, <1>1
  <1>3. /\ site' = site /\ stage' = stage
        /\ stage = "apply" /\ d \in waiting /\ waiting' = waiting \ {d}
    BY PlanIsApplied
  <1>4. h \in Hosts /\ h # NoDevice
    BY <1>0, <1>2 DEF Typed, TypeOK, PlansHaveHosts, NoPlan
  <1>5. /\ plans[d].missing = HostMissing(h, d) /\ plans[d].rename = HostRenames(h, d)
        /\ d \in StackDevices(Stk(h))
    BY <1>0, <1>3, <1>4 DEF Planned
  <1>6. /\ p \in site.reports[h]
        /\ Owner(Stk(h), p) = d
        /\ p \notin ifs[d]
        /\ IsStackWide(p) => p \in HostMissing(h, d)
    <2>1. CASE p \in new
      BY <1>5, <2>1 DEF HostMissing, Missing
    <2>2. CASE p \in {r[2] : r \in renamed}
      BY <1>5, <2>2, RenameIsNumbered
    <2> QED BY <1>2, <2>1, <2>2
  <1>7. ifs'[d] = (ifs[d] \ {r[1] : r \in renamed}) \cup new \cup {r[2] : r \in renamed}
        /\ \A e \in Devices \ {d} : ifs'[e] = ifs[e]
    BY <1>1 DEF TypeOK
  <1>8. ASSUME IsStackWide(p), NEW e \in StackDevices(Stk(h)), p \in ifs'[e] PROVE e = d
    <2> SUFFICES ASSUME e # d PROVE FALSE
      OBVIOUS
    <2>1. e \in Devices
      BY <1>4, SiteFacts DEF Stk
    <2>2. p \in ifs[e]
      BY <1>7, <1>8, <2>1
    <2>3. ~IsHeldElsewhere(Stk(h), p)
      BY <1>6, <1>8 DEF HostMissing, Missing
    <2>4. ~IsStack(Stk(h))
      BY <1>6, <1>8, <2>2, <2>3 DEF IsHeldElsewhere
    <2>5. StackDevices(Stk(h)) = {h}
      BY <1>4, <2>4, LoneStack
    <2> QED BY <1>5, <2>5
  <1>9. Hosts' = Hosts /\ Devices' = Devices /\ Stk(h)' = Stk(h)
    BY <1>3, SiteStays
  <1>10. p \in ifs'[d]
    BY <1>7
  <1>11. Created(h, p, d)'
    BY <1>3, <1>4, <1>6, <1>8, <1>9, <1>10 DEF Created
  <1> QED BY <1>2, <1>11

(* What was created before the plan of another device stays so.            *)
LEMMA AppliedPlanKeeps ==
  ASSUME Apart, Typed, Handled, Planned, NEW d \in Devices, ApplyPlan(d),
         NEW h, NEW p, NEW e, Created(h, p, e)
  PROVE  Created(h, p, e)'
  <1> TypeOK /\ site \in Sites
    BY DEF Typed, TypeOK
  <1>1. /\ site' = site /\ stage' = stage
        /\ stage = "apply" /\ d \in waiting /\ waiting' = waiting \ {d}
        /\ \A k \in Devices \ {d} : ifs'[k] = ifs[k]
    BY PlanIsApplied DEF TypeOK
  <1>2. /\ h \in Hosts /\ p \in site.reports[h] /\ Owner(Stk(h), p) = e
        /\ e \in Devices /\ p \in ifs[e] /\ e # d
        /\ IsStackWide(p) => \A k \in StackDevices(Stk(h)) : p \in ifs[k] => k = e
    BY <1>1 DEF Created
  <1>3. Hosts' = Hosts /\ Devices' = Devices /\ Stk(h)' = Stk(h)
    BY <1>1, SiteStays
  <1>4. p \in ifs'[e]
    BY <1>1, <1>2
  <1>5. ASSUME IsStackWide(p), NEW k \in StackDevices(Stk(h)), p \in ifs'[k] PROVE k = e
    <2>1. p = PortChannel
      BY <1>5 DEF IsStackWide
    <2>2. e \in StackDevices(Stk(h))
      <3>1. IsSound(Stk(h), h, Devices) /\ e # NoDevice
        BY <1>2, SiteFacts DEF Stk
      <3> QED BY <1>2, <3>1, OwnerIsADevice
    <2>3. [Next]_vars
      BY DEF Next
    <2>4. p \in ifs[k]
      BY <1>2, <1>5, <2>1, <2>2, <2>3, StepKeepsOnePortChannel DEF Stk
    <2> QED BY <1>2, <1>5, <2>4
  <1> QED BY <1>1, <1>2, <1>3, <1>4, <1>5 DEF Created

(* Where nothing is left to rename, a port is matched under its own name.  *)
LEMMA SatisfiedMatch ==
  ASSUME TypeOK, NEW h \in Hosts, NEW lf \in BOOLEAN, NEW p \in site.reports[h],
         \A d \in StackDevices(Stk(h)) : Satisfied(h, d),
         Match(StackOf(h, lf), p) # NoMatch
  PROVE  Match(StackOf(h, lf), p)[2] = p
  <1> DEFINE stack == StackOf(h, lf)
             m == Match(stack, p)
  <1> site \in Sites
    BY DEF TypeOK
  <1>1. /\ IsSound(stack, h, Devices)
        /\ NoDevice \notin Devices
        /\ IsFiniteSet(Devices)
        /\ p \in Ports
        /\ StackDevices(stack) = StackDevices(Stk(h))
    BY SiteFacts
  <1>2. /\ m[1] \in StackDevices(stack)
        /\ m[2] \in ifs[m[1]]
        /\ \/ m[2] = p
           \/ /\ IsRouted(stack, p)
              /\ p.member \in DOMAIN stack.members
              /\ m[1] = stack.members[p.member]
              /\ p \notin ifs[m[1]]
              /\ m[2] = Template(p)
    BY <1>1, MatchShape
  <1> HIDE DEF m
  <1> SUFFICES ASSUME m[2] # p PROVE FALSE
    BY DEF m
  <1>3. Owner(stack, p) = m[1] /\ HasTemplate(stack, p, m[1])
    BY <1>2 DEF Owner, IsRouted, HasTemplate
  <1>4. <<Template(p), p>> \in Renames(stack, site.reports[h], m[1])
    BY <1>2, <1>3 DEF Renames
  <1> QED BY <1>1, <1>2, <1>4, PlansIgnoreClaims DEF Satisfied

(* At the start nothing was written.                                       *)
LEMMA InitWritten == Init => Written
  BY DEF Init, Written

(* What was written stays its port's, or already has its state.            *)
LEMMA NextWritten ==
  ASSUME Apart
  PROVE  Typed /\ Handled /\ Planned /\ Filled /\ Settled /\ Written /\ [Next]_vars => Written'
  <1> SUFFICES ASSUME Typed, Handled, Planned, Filled, Settled, Written, [Next]_vars
               PROVE  Written'
    OBVIOUS
  <1> TypeOK /\ site \in Sites
    BY DEF Typed, TypeOK
  <1>1. ASSUME NEW d \in Devices, ApplyPlan(d) PROVE Written'
    <2>1. stage = "apply" /\ stage' = stage /\ (Clean' => Clean /\ ~trouble')
      BY <1>1, PlanIsApplied DEF Clean
    <2>2. ASSUME Clean', NEW w \in writes' PROVE Created(w[1], w[2], w[3])'
      <3>1. CASE w \in writes
        <4>1. Created(w[1], w[2], w[3])
          BY <2>1, <2>2, <3>1 DEF Written
        <4> QED BY <1>1, <4>1, AppliedPlanKeeps
      <3>2. CASE w \notin writes
        BY <1>1, <2>1, <2>2, <3>2, AppliedPlanCreates
      <3> QED BY <3>1, <3>2
    <2> QED BY <2>1, <2>2 DEF Written
  <1>2. ASSUME UNCHANGED <<site, apply, ifs, cfg, writes, trouble>>,
               stage' = "create" => stage = "create",
               stage = "apply" /\ stage' = "apply" => waiting' = waiting,
               stage \in {"sync", "done"} => stage' \in {"sync", "done"},
               stage' = "apply" => stage \in {"create", "apply"}
        PROVE  Written'
    <2>1. CASE stage = "create"
      <3>1. writes' = {}
        BY <1>2, <2>1 DEF Written
      <3> QED BY <3>1 DEF Written
    <2>2. CASE stage # "create"
      <3>1. ASSUME Clean', NEW w \in writes'
            PROVE  \/ Created(w[1], w[2], w[3])'
                   \/ /\ stage' \in {"sync", "done"}
                      /\ cfg'[<<w[3], w[2]>>] = <<site'.plane[w[1]], w[2]>>
        <4>1. Clean /\ w \in writes
          BY <1>2, <3>1 DEF Clean
        <4>2. \/ Created(w[1], w[2], w[3])
              \/ /\ stage \in {"sync", "done"}
                 /\ cfg[<<w[3], w[2]>>] = <<site.plane[w[1]], w[2]>>
          BY <4>1 DEF Written
        <4>3. stage' # "apply" \/ (stage' = stage /\ waiting' = waiting)
          BY <1>2, <2>2
        <4>4. site' = site /\ ifs' = ifs /\ cfg' = cfg
          BY <1>2
        <4>5. CASE Created(w[1], w[2], w[3])
          BY <4>3, <4>4, <4>5, CreatedStays
        <4>6. CASE /\ stage \in {"sync", "done"}
                   /\ cfg[<<w[3], w[2]>>] = <<site.plane[w[1]], w[2]>>
          BY <1>2, <4>4, <4>6
        <4> QED BY <4>2, <4>5, <4>6
      <3>2. stage' # "create"
        BY <1>2, <2>2
      <3> QED BY <3>1, <3>2 DEF Written
    <2> QED BY <2>1, <2>2
  <1>3. ASSUME CreateReports \/ StartSync \/ Finish \/ \E h \in Hosts : CreateHost(h) PROVE Written'
    <2>1. /\ UNCHANGED <<site, apply, ifs, cfg, writes, trouble>>
          /\ stage' = "create" => stage = "create"
          /\ ~(stage = "apply" /\ stage' = "apply")
          /\ stage \in {"sync", "done"} => stage' \in {"sync", "done"}
          /\ stage' = "apply" => stage \in {"create", "apply"}
      BY <1>3 DEF CreateReports, StartSync, Finish, CreateHost
    <2> QED BY <1>2, <2>1
  <1>4. ASSUME NEW h \in Hosts, SyncHost(h), SeenVia(Stk(h)) # {} PROVE Written'
    <2>1. UNCHANGED <<site, apply, ifs, cfg, writes, trouble>> /\ stage = "sync" /\ stage' = stage
      BY <1>4, PortsAreSynced
    <2> QED BY <1>2, <2>1
  <1>5. ASSUME NEW h \in Hosts, SyncHost(h), SeenVia(Stk(h)) = {} PROVE Written'
    <2>1. UNCHANGED <<site, ifs, stage>> /\ stage = "sync"
      BY <1>5, PortsAreSynced
    <2> SUFFICES ASSUME Clean', NEW w \in writes'
                 PROVE  \/ Created(w[1], w[2], w[3])'
                        \/ cfg'[<<w[3], w[2]>>] = <<site.plane[w[1]], w[2]>>
      BY <2>1 DEF Written
    <2>2. PICK lf \in BOOLEAN :
            /\ \A p \in site.reports[h] : Match(StackOf(h, lf), p) # NoMatch =>
                 cfg'[Match(StackOf(h, lf), p)] = <<site.plane[h], p>>
            /\ \A i \in Devices \X Names : i[1] \notin StackDevices(Stk(h)) => cfg'[i] = cfg[i]
            /\ \A v \in writes' \ writes : \E p \in site.reports[h] :
                 /\ Match(StackOf(h, lf), p) # NoMatch
                 /\ v = <<h, p, Match(StackOf(h, lf), p)[1]>>
      BY <1>5, StacksAreSynced
    <2>3. Clean
      BY <1>5, StacksAreSynced
    <2>4. CASE w \notin writes
      <3>1. PICK p \in site.reports[h] :
              /\ Match(StackOf(h, lf), p) # NoMatch
              /\ w = <<h, p, Match(StackOf(h, lf), p)[1]>>
        BY <2>2, <2>4
      <3> DEFINE m == Match(StackOf(h, lf), p)
      <3>2. m[2] = p
        BY <2>1, <2>3, <3>1, SatisfiedMatch DEF Filled
      <3>3. m = <<m[1], m[2]>>
        BY <3>1, MatchExists
      <3>4. cfg'[m] = <<site.plane[h], p>>
        BY <2>2, <3>1
      <3> HIDE DEF m
      <3> QED BY <3>1, <3>2, <3>3, <3>4 DEF m
    <2>5. CASE w \in writes /\ Created(w[1], w[2], w[3])
      BY <2>1, <2>5, CreatedStays
    <2>6. CASE w \in writes /\ cfg[<<w[3], w[2]>>] = <<site.plane[w[1]], w[2]>>
      <3> DEFINE i == <<w[3], w[2]>>
      <3>1. i \in Devices \X Names /\ i[1] = w[3]
        BY <2>6 DEF TypeOK
      <3>2. cfg[i] # Blank
        BY <2>6 DEF Blank
      <3>3. PICK g \in Hosts : Seen(g) /\ i[1] \in StackDevices(Stk(g))
        BY <2>1, <2>3, <3>1, <3>2 DEF Settled
      <3>4. Key(g) # Key(h)
        BY <1>5, <3>3, SeenHosts
      <3>5. i[1] \notin StackDevices(Stk(h))
        BY <3>3, <3>4, ApartStacks
      <3> QED BY <2>2, <2>6, <3>1, <3>5
    <2> QED BY <2>3, <2>4, <2>5, <2>6 DEF Written
  <1>6. CASE UNCHANGED vars
    <2>1. UNCHANGED <<site, apply, ifs, cfg, stage, waiting, writes, trouble>>
      BY <1>6 DEF vars
    <2> QED BY <1>2, <2>1
  <1> QED BY <1>1, <1>3, <1>4, <1>5, <1>6 DEF Next

-----------------------------------------------------------------------------
(* The second lookup only adds to the ports that are blocked.              *)
LEMMA ClaimsShrink ==
  ASSUME TypeOK, NEW h \in Hosts, NEW lf \in BOOLEAN, NEW p, IsBlocked(StackOf(h, lf), p)
  PROVE  IsBlocked(Stk(h), p)
  <1> DEFINE stack == StackOf(h, lf)
  <1> site \in Sites
    BY DEF TypeOK
  <1>1. /\ SameButClaims(stack, Stk(h))
        /\ Owner(stack, p) = Owner(Stk(h), p)
        /\ StandIn(stack, p) \in {h, NoDevice} /\ StandIn(Stk(h), p) \in {h, NoDevice}
    BY SiteFacts, PlansIgnoreClaims, OwnerIsADevice DEF Stk
  <1>2. stack.claimed \subseteq Stk(h).claimed
    BY DEF Stk, StackOf, Route, ResolveStack, FromVirtualChassis, LoneSwitch, FromNames, Stack, Claimed
  <1>3. StandIn(Stk(h), p) # NoDevice => StandIn(stack, p) = StandIn(Stk(h), p)
    BY <1>1, <1>2 DEF StandIn, IsStack, SameButClaims
  <1> QED BY <1>1, <1>3 DEF IsBlocked

(* Two routes into a stack block no port.                                  *)
LEMMA RoutesBlockTheSame ==
  ASSUME Agree, TypeOK, NEW g \in Hosts, NEW h \in Hosts, Key(g) = Key(h),
         NEW p \in site.reports[h]
  PROVE  p \in site.reports[g] /\ (IsBlocked(Stk(g), p) => IsBlocked(Stk(h), p))
  <1>1. CASE g = h
    BY <1>1
  <1>2. CASE g # h
    <2>1. /\ IsStack(Stk(g))
          /\ site.reports[g] = site.reports[h]
          /\ Stk(g).members = Stk(h).members
          /\ \/ p.member \in DOMAIN Stk(h).members
             \/ IsStackWide(p)
             \/ p.member = NoMember
      BY <1>2, RoutesAreStacks
    <2>2. IsSound(Stk(g), g, Devices) /\ NoDevice \notin Devices
      BY SiteFacts DEF TypeOK, Stk
    <2>3. p.member = NoMember \/ p.member \in DOMAIN Stk(g).members
      BY <2>1 DEF IsStackWide, PortChannel
    <2>4. Owner(Stk(g), p) # NoDevice
      BY <2>1, <2>2, <2>3 DEF Owner, IsSound
    <2> QED BY <2>1, <2>4 DEF IsBlocked
  <1> QED BY <1>1, <1>2

Plain == \A s \in Sites : PlainAtAnchor(s)

(* A created interface is the one its port is matched to, through whatever *)
(* route the sync step handles the stack.                                  *)
LEMMA CreatedMatches ==
  ASSUME Apart, Agree, Plain, TypeOK, NEW h \in Hosts, NEW p, NEW d, Created(h, p, d),
         NEW g \in Hosts, Key(g) = Key(h), NEW lf \in BOOLEAN
  PROVE  p \in site.reports[g] /\ Match(StackOf(g, lf), p) = <<d, p>>
  <1> DEFINE stack == StackOf(g, lf)
  <1> site \in Sites
    BY DEF TypeOK
  <1>1. /\ IsSound(Stk(g), g, Devices) /\ IsSound(Stk(h), h, Devices)
        /\ IsSound(stack, g, Devices)
        /\ NoDevice \notin Devices
        /\ StackDevices(Stk(g)) = StackDevices(Stk(h))
        /\ StackDevices(stack) = StackDevices(Stk(g))
        /\ SameButClaims(stack, Stk(g))
    BY SiteFacts, ApartStacks DEF Stk
  <1>2. /\ p \in site.reports[h] /\ Owner(Stk(h), p) = d
        /\ d \in Devices /\ p \in ifs[d]
        /\ IsStackWide(p) => \A e \in StackDevices(Stk(h)) : p \in ifs[e] => e = d
    BY DEF Created
  <1>3. p \in site.reports[g]
    BY <1>2, RoutesBlockTheSame
  <1>4. Owner(stack, p) = Owner(Stk(g), p) /\ (IsStack(stack) <=> IsStack(Stk(g)))
    BY <1>1, PlansIgnoreClaims DEF IsStack, SameButClaims
  <1>5. CASE p.member # NoMember /\ IsStack(stack)
    <2>1. Owner(Stk(g), p) = d
      <3>1. CASE g = h
        BY <1>2, <3>1
      <3>2. CASE g # h
        <4>1. IsStack(Stk(h)) /\ Stk(g).members = Stk(h).members
          BY <3>2, RoutesAreStacks
        <4> QED BY <1>2, <1>4, <1>5, <4>1 DEF Owner
      <3> QED BY <3>1, <3>2
    <2> QED BY <1>1, <1>2, <1>3, <1>4, <1>5, <2>1 DEF Match
  <1>6. CASE IsStackWide(p) /\ ~(p.member # NoMember /\ IsStack(stack))
    <2>1. d \in StackDevices(stack)
      BY <1>1, <1>2, OwnerIsADevice
    <2>2. Holders(stack, p) = {d}
      BY <1>1, <1>2, <1>6, <2>1 DEF Holders
    <2>3. d = stack.connected \/ d = stack.anchor \/ (IsStack(stack) /\ Cardinality({d}) = 1)
      <3>1. Cardinality({d}) = 1
        BY FS_Singleton
      <3>2. CASE ~IsStack(stack)
        BY <1>1, <1>4, <2>1, <3>2, LoneStack DEF IsSound
      <3> QED BY <3>1, <3>2
    <2>4. MatchUnnumbered(stack, p) = d
      BY <1>6, <2>2, <2>3 DEF MatchUnnumbered
    <2> QED BY <1>1, <1>2, <1>3, <1>6, <2>4 DEF Match
  <1>7. CASE ~IsStackWide(p) /\ ~(p.member # NoMember /\ IsStack(stack))
    <2>1. g = h
      <3> SUFFICES ASSUME g # h PROVE FALSE
        OBVIOUS
      <3>1. /\ IsStack(Stk(g))
            /\ \/ p.member \in DOMAIN Stk(h).members
               \/ Stk(g).anchor = Stk(h).anchor
        BY <1>2, <1>7, RoutesAreStacks
      <3>2. p.member = NoMember
        BY <1>4, <1>7, <3>1
      <3>3. Stk(g).anchor = g /\ Stk(h).anchor = h
        BY <1>2, <1>3, <1>7, <3>2 DEF Plain, PlainAtAnchor, Stk, StackOf, Hosts
      <3> QED BY <1>1, <3>1, <3>2, <3>3 DEF IsSound
    <2>2. stack.connected = d
      <3>1. CASE ~IsStack(stack)
        BY <1>1, <1>2, <1>4, <2>1, <3>1 DEF Owner
      <3>2. CASE IsStack(stack)
        <4>1. p.member = NoMember
          BY <1>7, <3>2
        <4>2. Stk(h).anchor = h
          BY <1>2, <1>7, <4>1 DEF Plain, PlainAtAnchor, Stk, StackOf, Hosts
        <4> QED BY <1>1, <1>2, <1>4, <2>1, <3>2, <4>1, <4>2 DEF Owner, IsSound
      <3> QED BY <3>1, <3>2
    <2>3. stack.connected \in Holders(stack, p)
      BY <1>2, <2>2 DEF Holders, StackDevices
    <2>4. MatchUnnumbered(stack, p) = d
      BY <2>2, <2>3 DEF MatchUnnumbered
    <2> QED BY <1>1, <1>2, <1>3, <1>7, <2>4 DEF Match
  <1> QED BY <1>5, <1>6, <1>7

(* At the end of a clean apply, a stack carries the state of every port    *)
(* once: on the interface the port is matched to.                          *)
LEMMA DoneIsComplete ==
  ASSUME Apart, Agree, Plain, \A s \in Sites : KeysArePlanes(s),
         Typed, Handled, Filled, Settled, Written, Done, Clean
  PROVE  CompleteAfterApply
  <1> TypeOK /\ site \in Sites /\ stage = "done"
    BY DEF Typed, TypeOK, Done
  <1>1. \A h \in Hosts : \E g \in Hosts : Seen(g) /\ Key(g) = Key(h)
    BY DEF Handled, AllHandled
  <1>2. \A g, h \in Hosts : Key(g) = Key(h) <=> site.plane[g] = site.plane[h]
    BY DEF KeysArePlanes, Key, Stk, StackOf, Hosts
  <1>3. \A g \in Hosts : Seen(g) => \E lf \in BOOLEAN : Carries(g, StackOf(g, lf))
    BY DEF Settled
  <1>4. ASSUME NEW w \in writes PROVE cfg[<<w[3], w[2]>>] = <<site.plane[w[1]], w[2]>>
    <2>1. CASE Created(w[1], w[2], w[3])
      <3>1. w[1] \in Hosts
        BY DEF TypeOK
      <3>2. PICK g \in Hosts : Seen(g) /\ Key(g) = Key(w[1])
        BY <1>1, <3>1
      <3>3. PICK lf \in BOOLEAN : Carries(g, StackOf(g, lf))
        BY <1>3, <3>2
      <3>4. w[2] \in site.reports[g] /\ Match(StackOf(g, lf), w[2]) = <<w[3], w[2]>>
        BY <2>1, <3>1, <3>2, CreatedMatches
      <3>5. <<w[3], w[2]>> # NoMatch
        BY <2>1, SiteFacts DEF Created, NoMatch
      <3>6. cfg[<<w[3], w[2]>>] = <<site.plane[g], w[2]>>
        BY <3>3, <3>4, <3>5 DEF Carries
      <3> QED BY <1>2, <3>1, <3>2, <3>6
    <2> QED BY <2>1 DEF Written
  <1>5. \A h \in Hosts : \A d \in StackDevices(Stk(h)) : Satisfied(h, d)
    BY DEF Filled
  <1>6. ASSUME NEW h \in Hosts, NEW p \in site.reports[h],
               ~IsBlocked(Stk(h), p), ~IsAmbiguousFrom(h, p)
        PROVE  Cardinality({i \in DOMAIN cfg : cfg[i] = <<site.plane[h], p>>}) = 1
    <2>1. PICK g \in Hosts : Seen(g) /\ Key(g) = Key(h)
      BY <1>1
    <2>2. PICK lf \in BOOLEAN : Carries(g, StackOf(g, lf))
      BY <1>3, <2>1
    <2>3. PICK m : m = Match(StackOf(g, lf), p)
      OBVIOUS
    <2>4. p \in site.reports[g] /\ ~IsBlocked(Stk(g), p)
      BY <1>6, <2>1, RoutesBlockTheSame
    <2>5. ~IsBlocked(StackOf(g, lf), p) /\ ~IsAmbiguous(Stk(g), p)
      BY <1>6, <2>1, <2>4, ClaimsShrink DEF IsAmbiguousFrom, Key, Stk
    <2>6. m # NoMatch
      BY <1>5, <2>3, <2>4, <2>5, PresentPortsMatch DEF Satisfied
    <2>7. m \in DOMAIN cfg /\ DOMAIN cfg = Devices \X Names
      BY <2>3, <2>4, <2>6, MatchExists DEF TypeOK
    <2>8. cfg[m] = <<site.plane[h], p>>
      BY <1>2, <2>1, <2>2, <2>3, <2>4, <2>6 DEF Carries
    <2>9. ASSUME NEW i \in Devices \X Names, cfg[i] = <<site.plane[h], p>> PROVE i = m
      <3>1. cfg[i] # Blank
        BY <2>9 DEF Blank
      <3>2. PICK k \in Hosts : Seen(k) /\ i[1] \in StackDevices(Stk(k))
        BY <3>1 DEF Settled
      <3>3. PICK lk \in BOOLEAN : Carries(k, StackOf(k, lk))
        BY <1>3, <3>2
      <3>4. \A l \in BOOLEAN : i[1] \in StackDevices(StackOf(k, l))
        BY <3>2, SiteFacts
      <3>5. PICK q \in site.reports[k] : cfg[i] = <<site.plane[k], q>>
        BY <3>1, <3>3, <3>4 DEF Carries
      <3>6. site.plane[k] = site.plane[h]
        BY <2>9, <3>5
      <3>7. k = g
        BY <1>2, <2>1, <3>2, <3>6 DEF Handled
      <3>8. PICK r \in site.reports[g] :
              Match(StackOf(g, lf), r) = i /\ cfg[i] = <<site.plane[g], r>>
        BY <2>2, <3>1, <3>4, <3>7 DEF Carries
      <3> QED BY <2>3, <2>9, <3>8
    <2>10. {i \in DOMAIN cfg : cfg[i] = <<site.plane[h], p>>} = {m}
      BY <2>7, <2>8, <2>9
    <2> QED BY <2>10, FS_Singleton
  <1> QED BY <1>4, <1>5, <1>6 DEF CompleteAfterApply, Clean, Satisfied, HostMissing, HostRenames, Stk

(* "A new interface is complete after one apply": once an apply in which   *)
(* no write failed is over, every port that is neither blocked nor         *)
(* ambiguous has its state on one interface, every interface written has   *)
(* the state of the port it is named for, and nothing is left to create or *)
(* rename.                                                                 *)
THEOREM ApplyIsComplete ==
  ASSUME Apart, Agree, Plain, \A s \in Sites : KeysArePlanes(s)
  PROVE  Spec => []CompleteAfterApply
  <1>1. Typed /\ Handled /\ Filled /\ Settled /\ Written => CompleteAfterApply
    BY DoneIsComplete DEF CompleteAfterApply, Clean
  <1> QED BY <1>1, InitTyped, NextTyped, InitHandled, NextHandled, InitPlanned, NextPlanned,
             InitFilled, NextFilled, InitSettled, NextSettled, InitWritten, NextWritten, PTL
          DEF Spec

=============================================================================
