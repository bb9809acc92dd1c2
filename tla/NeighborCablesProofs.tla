-------------------------- MODULE NeighborCablesProofs --------------------------
(***************************************************************************)
(* What NeighborCables promises for every set of devices, every cabling    *)
(* NetBox may hold at first and every number of runs, faults and changes.  *)
(* All but TypeCorrect is for reports that are OnePerPort, as each theorem *)
(* says: MCNeighborCablesTwice checks reports that are not.                *)
(***************************************************************************)
EXTENDS NeighborCables, FiniteSetTheorems, TLAPS

-----------------------------------------------------------------------------
(* The inductive invariant.  NetBox: a termination has one cable, and a    *)
(* cable's side is on one device.                                          *)
Wired ==
  /\ cables \in Seq((SUBSET Terminations) \X (SUBSET Terminations))
  /\ \A t \in Terminations : \A id, other \in CablesOn(t) : id = other
  /\ \A id \in DOMAIN cables : \A s \in {1, 2} :
       \A i, j \in cables[id][s] \cap Interfaces : DeviceOf[i] = DeviceOf[j]

(* The records and the plan in hand: an AP's own records are held while    *)
(* its rows are worked on, and a cable to re-point runs straight from one  *)
(* of the row's ports to the port replaced, unless a person deleted it.    *)
Between(id, x, y) == cables[id] \in {<<{x}, {y}>>, <<{y}, {x}>>}

Targeted ==
  /\ apply
  /\ ap > 0
  /\ row <= Len(Rows)
  /\ Rows[row] = <<plan.a, plan.b>>
  /\ {plan.a, plan.b} \subseteq Interfaces
  /\ plan.action \in {"create", "update"}
  /\ plan.action = "create" => plan.replaced = Unmatched
  /\ plan.action = "update" =>
       /\ plan.cable \in DOMAIN cables
       /\ plan.replaced \in Interfaces
       /\ \/ cables[plan.cable] = Deleted
          \/ \E h \in {plan.a, plan.b} : Between(plan.cable, h, plan.replaced)

Whole == stage = "idle" /\ Last(ended) # "error"
Planning ==
  /\ \A i \in Interfaces : held[i] # NotHeld => held[i].known
  /\ stage = "rows" => ap > 0 
  /\ stage \in {"rows", "write"} => \A i \in On(Aps[ap]) : held[i] # NotHeld
  /\ stage = "write" => Targeted
  /\ stage = "idle" => ended # <<>>
  /\ Whole => ap = Len(Aps) /\ Last(ended) = Status
  /\ noted \subseteq Reported

(* Nobody else wrote, and what went wrong in this run was refused, not     *)
(* lost: the records are then what NetBox would answer, except the paths   *)
(* of ports this run has cabled to each other.                             *)
Undisturbed == edits = 0 /\ (~issues \/ faults = 0)
SameCable(a, b) == CableOn(a) # NoCable /\ CableOn(a) = CableOn(b)
Exact(record, i) ==
  /\ record.cable = CableOn(i)
  /\ record.direct <=> LinkPeers(i) \subseteq Interfaces
Traced(record, a, b) == SameCable(a, b) \/ (b \in record.reaches <=> Joined(a, b))

Faithful ==
  /\ \A i \in Interfaces : held[i] # NotHeld => Exact(held[i], i)
  /\ \A link \in Reported :
       Unmatched \notin Ends(link) /\ held[link[1]] # NotHeld =>
         Traced(held[link[1]], link[1], link[2])

Current == Undisturbed => Faithful

(* A link that needs no write: in NetBox, or held by a cabling that is not *)
(* the tool's to change.                                                   *)
RunsStraight(id, h) == \E i \in Interfaces : Between(id, h, i)
Foreign(a, b) ==
  LET ca == CableOn(a)
      cb == CableOn(b) IN
  \/ /\ ca # NoCable /\ cb # NoCable
     /\ ~(LinkPeers(a) \cup LinkPeers(b) \subseteq Interfaces)
  \/ ca # NoCable /\ cb = NoCable /\ ~RunsStraight(ca, a)
  \/ ca = NoCable /\ cb # NoCable /\ ~RunsStraight(cb, b)
Idle(a, b) == SameCable(a, b) \/ Joined(a, b) \/ Foreign(a, b)
IdleLink(link) == Unmatched \notin Ends(link) /\ Idle(link[1], link[2])

(* The rows this run has worked through.                                   *)
Passed(link) ==
  \E k \in 1 .. ap : \E n \in DOMAIN report[Aps[k]] :
     /\ link = report[Aps[k]][n]
     /\ k < ap \/ stage = "ap" \/ Whole \/ n < row

Settled ==
  edits = 0 /\ ~issues =>
    /\ \A link \in noted : IdleLink(link)
    /\ apply \/ ~changes =>
         \A link \in Reported : Passed(link) =>
           Unmatched \notin Ends(link) /\ (Joined(link[1], link[2]) \/ link \in noted)

(* A run with --apply after a green one.                                   *)
Green(status) == status \in {"ok", "changed"}
Repeated ==
  apply /\ edits = 0 =>
    /\ (stage # "idle" /\ ended # <<>> /\ Green(Last(ended))) =>
         /\ stage # "write"
         /\ ~issues /\ ~changes
         /\ \A link \in Reported : IdleLink(link)
    /\ GreenRunIsLast

(* TypeOK but for the cables, which Wired is about.                        *)
Types ==
  /\ apply \in BOOLEAN
  /\ report \in Reports
  /\ held \in [Interfaces -> Records]
  /\ stage \in {"ap", "rows", "write", "idle"}
  /\ ap \in 0..Len(Aps)
  /\ row \in Nat \ {0}
  /\ plan.action \in {"none", "create", "update"}
  /\ stage = "write" <=> plan # NoPlan
  /\ issues \in BOOLEAN
  /\ changes \in BOOLEAN
  /\ noted \subseteq Interfaces \X Interfaces
  /\ ended \in Seq({"ok", "drift", "changed", "partial", "error"})
  /\ faults \in 0..Faults
  /\ edits \in 0..Changes

IInv == Types /\ Wired /\ Planning
Promises == Current /\ Settled /\ Repeated

-----------------------------------------------------------------------------
(* What NetBox answers about a port.                                       *)

(* One that is on one cable has it, and its peers are that cable's other   *)
(* side.                                                                   *)
OnCable(t, id) ==
  /\ CablesOn(t) = {id}
  /\ CableOn(t) = id
  /\ LinkPeers(t) = IF t \in cables[id][1] THEN cables[id][2] ELSE cables[id][1]
Free(t) == CablesOn(t) = {} /\ CableOn(t) = NoCable /\ LinkPeers(t) = {}

LEMMA OneCable ==
  ASSUME NEW t, NEW id, CablesOn(t) = {id}
  PROVE  OnCable(t, id)
<1>1. CableOn(t) = id
  BY DEF CableOn
<1>2. LinkPeers(t) = IF t \in cables[id][1] THEN cables[id][2] ELSE cables[id][1]
  BY DEF LinkPeers
<1> QED
  BY <1>1, <1>2 DEF OnCable

(* One on none has no peers.                                               *)
LEMMA NoneOn ==
  ASSUME NEW t, CablesOn(t) = {}
  PROVE  Free(t)
BY DEF CableOn, LinkPeers, Free

(* As long as no termination has two cables, a port is on one or free.     *)
LEMMA OnOrFree ==
  ASSUME Wired, NEW t \in Terminations
  PROVE  /\ Free(t) \/ \E id \in DOMAIN cables : OnCable(t, id)
         /\ CableOn(t) \in 0 .. Len(cables)
         /\ CableOn(t) = NoCable <=> Free(t)
         /\ CableOn(t) # NoCable => OnCable(t, CableOn(t)) /\ CableOn(t) \in DOMAIN cables
<1>1. DOMAIN cables = 1 .. Len(cables) /\ Len(cables) \in Nat
  BY DEF Wired
<1>2. CASE CablesOn(t) = {}
  <2>1. Free(t)
    BY <1>2, NoneOn
  <2> QED
    BY <2>1, <1>1 DEF Free, NoCable
<1>3. CASE CablesOn(t) # {}
  <2>1. PICK id \in CablesOn(t) : TRUE
    BY <1>3
  <2>2. CablesOn(t) = {id} /\ id \in DOMAIN cables
    BY <2>1 DEF Wired, CablesOn
  <2>3. OnCable(t, id)
    BY <2>2, OneCable
  <2>4. id # NoCable /\ id \in 0 .. Len(cables)
    BY <2>2, <1>1 DEF NoCable
  <2> QED
    BY <2>2, <2>3, <2>4 DEF OnCable, Free
<1> QED
  BY <1>2, <1>3

(* Peers are terminations; what is not one has none.                       *)
LEMMA PeersAre ==
  ASSUME Wired, NEW t
  PROVE  /\ LinkPeers(t) \subseteq Terminations
         /\ t \notin Terminations => CablesOn(t) = {}
         /\ ConnectedEndpoints(t) \subseteq Interfaces
<1>1. \A id \in DOMAIN cables : cables[id] \in (SUBSET Terminations) \X (SUBSET Terminations)
  BY DEF Wired
<1> QED
  BY <1>1 DEF LinkPeers, CablesOn, ConnectedEndpoints

(* What is read of an interface is exact.                                  *)
LEMMA ReadIsExact ==
  ASSUME Wired, NEW i \in Interfaces
  PROVE  /\ Read(i) \in Records
         /\ Read(i).known /\ Read(i) # NotHeld
         /\ Exact(Read(i), i)
         /\ \A b : Traced(Read(i), i, b)
<1>1. i \in Terminations
  BY DEF Terminations
<1>2. CableOn(i) \in 0 .. Len(cables)
  BY <1>1, OnOrFree
<1>3. ConnectedEndpoints(i) \in SUBSET Interfaces
  BY PeersAre
<1>4. Read(i) \in Records
  BY <1>2, <1>3 DEF Read, Records
<1>5. Read(i).known /\ Read(i) # NotHeld
  BY DEF Read, NotHeld
<1>6. Exact(Read(i), i)
  BY DEF Exact, Read
<1>7. \A b : Traced(Read(i), i, b)
  BY DEF Traced, Read, Joined
<1> QED
  BY <1>4, <1>5, <1>6, <1>7

-----------------------------------------------------------------------------
(* What is planned for a row.                                              *)

(* Ports of two devices on one cable are on its two sides.                 *)
LEMMA SameCableJoins ==
  ASSUME Wired, NEW a \in Interfaces, NEW b \in Interfaces,
         DeviceOf[a] # DeviceOf[b], SameCable(a, b)
  PROVE  Joined(a, b)
<1>1. a \in Terminations /\ b \in Terminations
  BY DEF Terminations
<1>2. PICK id \in DOMAIN cables : OnCable(a, id) /\ OnCable(b, id)
  <2>1. OnCable(a, CableOn(a)) /\ CableOn(a) \in DOMAIN cables
    BY <1>1, OnOrFree DEF SameCable
  <2>2. OnCable(b, CableOn(b))
    BY <1>1, OnOrFree DEF SameCable
  <2> QED
    BY <2>1, <2>2 DEF SameCable
<1>3. /\ a \in cables[id][1] \cup cables[id][2]
      /\ b \in cables[id][1] \cup cables[id][2]
  BY <1>2 DEF OnCable, CablesOn
<1>4. \A s \in {1, 2} : ~(a \in cables[id][s] /\ b \in cables[id][s])
  BY <1>2 DEF Wired
<1>5. ~(a \in cables[id][1] /\ b \in cables[id][1]) /\ ~(a \in cables[id][2] /\ b \in cables[id][2])
  BY <1>4
<1>6. b \in LinkPeers(a)
  BY <1>2, <1>3, <1>5 DEF OnCable
<1> QED
  BY <1>6 DEF Joined, ConnectedEndpoints

(* A cable is re-pointed exactly when it runs straight from the holder to  *)
(* an interface, which is the one replaced.                                *)
LEMMA Repointed ==
  ASSUME Wired, NEW h \in Interfaces, NEW id \in DOMAIN cables, NEW a, NEW b
  PROVE  \/ /\ RunsStraight(id, h)
            /\ \E i \in Interfaces :
                 /\ Between(id, h, i)
                 /\ PlanRepoint(a, b, h, id) =
                      [action |-> "update", a |-> a, b |-> b, cable |-> id, replaced |-> i]
         \/ /\ ~RunsStraight(id, h)
            /\ PlanRepoint(a, b, h, id) = Planned("untouched", a, b)
<1> DEFINE kept == {s \in {1, 2} : cables[id][s] = {h}}
           stale == UNION {cables[id][3 - s] : s \in kept}
<1>1. cables[id] \in (SUBSET Terminations) \X (SUBSET Terminations)
  BY DEF Wired
<1>2. cables[id] = <<cables[id][1], cables[id][2]>>
  BY <1>1
<1>3. \A s \in kept : cables[id][3 - s] \subseteq stale
  OBVIOUS
<1>4. (1 \in kept => cables[id][2] \subseteq stale) /\ (2 \in kept => cables[id][1] \subseteq stale)
  <2>1. 3 - 1 = 2 /\ 3 - 2 = 1
    OBVIOUS
  <2> QED
    BY <1>3, <2>1
<1>5. stale \subseteq Terminations /\ IsFiniteSet(stale)
  <2>1. \A s \in kept : 3 - s \in {1, 2}
    OBVIOUS
  <2>2. \A s \in {1, 2} : cables[id][s] \subseteq Terminations
    BY <1>1
  <2>3. stale \subseteq Terminations
    BY <2>1, <2>2
  <2> QED
    BY <2>3, PortsAssumption, FS_Subset
<1>6. \A i : stale = {i} => Cardinality(stale) = 1
  BY FS_Singleton
<1>7. Cardinality(stale) = 1 => \E i : stale = {i}
  BY <1>5, FS_Singleton
<1>8. \A i : Between(id, h, i) => kept # {} /\ stale = {i}
  <2> SUFFICES ASSUME NEW i, Between(id, h, i)
               PROVE  kept # {} /\ stale = {i}
    OBVIOUS
  <2>1. CASE cables[id] = <<{h}, {i}>>
    <3>1. cables[id][1] = {h} /\ cables[id][2] = {i}
      BY <2>1
    <3>2. 1 \in kept
      BY <3>1
    <3>3. \A s \in kept : cables[id][3 - s] = {i}
      BY <3>1
    <3> QED
      BY <3>2, <3>3
  <2>2. CASE cables[id] = <<{i}, {h}>>
    <3>1. cables[id][1] = {i} /\ cables[id][2] = {h}
      BY <2>2
    <3>2. 2 \in kept
      BY <3>1
    <3>3. \A s \in kept : cables[id][3 - s] = {i}
      BY <3>1
    <3> QED
      BY <3>2, <3>3
  <2> QED
    BY <2>1, <2>2 DEF Between
<1>9. \A i : kept # {} /\ stale = {i} => Between(id, h, i)
  <2> SUFFICES ASSUME NEW i, kept # {}, stale = {i}
               PROVE  Between(id, h, i)
    OBVIOUS
  <2>1. CASE 1 \in kept
    <3>1. cables[id][1] = {h} /\ cables[id][2] \subseteq {i}
      BY <2>1, <1>4
    <3>2. \A s \in kept : cables[id][3 - s] \in {cables[id][2], {h}}
      BY <3>1
    <3> QED
      BY <3>1, <3>2, <1>2, <1>3, <2>1 DEF Between
  <2>2. CASE 2 \in kept /\ 1 \notin kept
    <3>1. cables[id][2] = {h}
      BY <2>2
    <3>2. \A s \in kept : cables[id][3 - s] = cables[id][1]
      BY <2>2
    <3>3. stale = cables[id][1]
      BY <3>2, <2>2
    <3> QED
      BY <3>1, <3>3, <1>2 DEF Between
  <2> QED
    BY <2>1, <2>2
<1>10. PlanRepoint(a, b, h, id) =
         IF kept # {} /\ Cardinality(stale) = 1 /\ stale \subseteq Interfaces
         THEN [Planned("update", a, b) EXCEPT !.cable = id,
                                              !.replaced = CHOOSE i \in stale : TRUE]
         ELSE Planned("untouched", a, b)
  BY DEF PlanRepoint
<1>11. CASE RunsStraight(id, h)
  <2>1. PICK i \in Interfaces : Between(id, h, i)
    BY <1>11 DEF RunsStraight
  <2>2. kept # {} /\ stale = {i}
    BY <2>1, <1>8
  <2>3. Cardinality(stale) = 1
    BY <2>2, <1>6
  <2>4. (CHOOSE j \in stale : TRUE) = i
    BY <2>2
  <2>5. PlanRepoint(a, b, h, id) =
          [Planned("update", a, b) EXCEPT !.cable = id, !.replaced = i]
    BY <1>10, <2>2, <2>3, <2>4
  <2>6. PlanRepoint(a, b, h, id) =
          [action |-> "update", a |-> a, b |-> b, cable |-> id, replaced |-> i]
    BY <2>5 DEF Planned, NoPlan
  <2> QED
    BY <1>11, <2>1, <2>6
<1>12. CASE ~RunsStraight(id, h)
  <2>1. ~(kept # {} /\ Cardinality(stale) = 1 /\ stale \subseteq Interfaces)
    BY <1>7, <1>9, <1>12 DEF RunsStraight
  <2>2. PlanRepoint(a, b, h, id) = Planned("untouched", a, b)
    BY ONLY <1>10, <2>1
  <2> QED
    BY <1>12, <2>2
<1> QED
  BY <1>11, <1>12

(* The plan of a row names its ports; one that re-points a cable has found *)
(* it run straight from one of them to the port replaced.                  *)
Drafted(p, a, b) ==
  /\ p.action \in {"in-sync", "create", "conflict", "untouched", "update"}
  /\ p.a = a /\ p.b = b
  /\ p.action # "update" => p = Planned(p.action, a, b)
  /\ p.action = "update" =>
       /\ p.cable \in DOMAIN cables
       /\ p.replaced \in Interfaces
       /\ \E h \in {a, b} : Between(p.cable, h, p.replaced)

(* Whatever the records say, a plan is of that form.                       *)
LEMMA PlanIsDrafted ==
  ASSUME Wired, NEW R, NEW a \in Interfaces, NEW b \in Interfaces,
         R[a].cable \in 0 .. Len(cables), R[b].cable \in 0 .. Len(cables)
  PROVE  Drafted(PlanNeighborCable(R, a, b), a, b)
<1>1. \A action : /\ Planned(action, a, b).action = action
                  /\ Planned(action, a, b).a = a /\ Planned(action, a, b).b = b
  BY DEF Planned, NoPlan
<1>2. \A action \in {"in-sync", "create", "conflict", "untouched"} :
        Drafted(Planned(action, a, b), a, b)
  BY <1>1 DEF Drafted
<1>3. \A h \in {a, b} : \A id \in DOMAIN cables : Drafted(PlanRepoint(a, b, h, id), a, b)
  <2> SUFFICES ASSUME NEW h \in {a, b}, NEW id \in DOMAIN cables
               PROVE  Drafted(PlanRepoint(a, b, h, id), a, b)
    OBVIOUS
  <2>1. CASE PlanRepoint(a, b, h, id) = Planned("untouched", a, b)
    BY <2>1, <1>2
  <2>2. CASE \E i \in Interfaces :
               /\ Between(id, h, i)
               /\ PlanRepoint(a, b, h, id) =
                    [action |-> "update", a |-> a, b |-> b, cable |-> id, replaced |-> i]
    BY <2>2 DEF Drafted
  <2> QED
    BY <2>1, <2>2, Repointed
<1>4. DOMAIN cables = 1 .. Len(cables) /\ Len(cables) \in Nat
  BY DEF Wired
<1>5. \A c \in 0 .. Len(cables) : c # NoCable => c \in DOMAIN cables
  BY <1>4 DEF NoCable
<1>6. PlanNeighborCable(R, a, b) \in
        {Planned("in-sync", a, b), Planned("create", a, b), Planned("conflict", a, b),
         Planned("untouched", a, b)}
      \/ (R[a].cable # NoCable /\ PlanNeighborCable(R, a, b) = PlanRepoint(a, b, a, R[a].cable))
      \/ (R[b].cable # NoCable /\ PlanNeighborCable(R, a, b) = PlanRepoint(a, b, b, R[b].cable))
  <2>1. \A c : Planned(IF c THEN "conflict" ELSE "untouched", a, b) \in
                 {Planned("conflict", a, b), Planned("untouched", a, b)}
    OBVIOUS
  <2> QED
    BY <2>1 DEF PlanNeighborCable
<1> QED
  BY <1>2, <1>3, <1>5, <1>6

(* From exact records the plan is to leave the row alone exactly when it   *)
(* needs no write.                                                         *)
Agrees(R, a, b) == Exact(R[a], a) /\ Exact(R[b], b) /\ Traced(R[a], a, b)

LEMMA PlanFollows ==
  ASSUME Wired, NEW R, NEW a \in Interfaces, NEW b \in Interfaces, Agrees(R, a, b)
  PROVE  /\ SameCable(a, b) \/ Joined(a, b) =>
              PlanNeighborCable(R, a, b) = Planned("in-sync", a, b)
         /\ ~(SameCable(a, b) \/ Joined(a, b)) /\ Foreign(a, b) =>
              PlanNeighborCable(R, a, b) = Planned("untouched", a, b)
         /\ ~Idle(a, b) =>
              PlanNeighborCable(R, a, b).action \in {"create", "update", "conflict"}
<1> DEFINE ca == CableOn(a)
           cb == CableOn(b)
           in == SameCable(a, b) \/ Joined(a, b)
           both == LinkPeers(a) \cup LinkPeers(b) \subseteq Interfaces
<1>1. R[a].cable = ca /\ R[b].cable = cb
  BY DEF Agrees, Exact
<1>2. (R[a].direct /\ R[b].direct) <=> both
  BY DEF Agrees, Exact
<1>3. ((ca # NoCable /\ ca = cb) \/ b \in R[a].reaches) <=> in
  BY DEF Agrees, Traced, SameCable
<1>4. a \in Terminations /\ b \in Terminations
  BY DEF Terminations
<1>5. (ca # NoCable => ca \in DOMAIN cables) /\ (cb # NoCable => cb \in DOMAIN cables)
  BY <1>4, OnOrFree
<1>6. \A h \in {a, b} : \A id \in DOMAIN cables :
        /\ RunsStraight(id, h) => PlanRepoint(a, b, h, id).action = "update"
        /\ ~RunsStraight(id, h) => PlanRepoint(a, b, h, id) = Planned("untouched", a, b)
  <2> SUFFICES ASSUME NEW h \in {a, b}, NEW id \in DOMAIN cables
               PROVE  /\ RunsStraight(id, h) => PlanRepoint(a, b, h, id).action = "update"
                      /\ ~RunsStraight(id, h) =>
                           PlanRepoint(a, b, h, id) = Planned("untouched", a, b)
    OBVIOUS
  <2> QED
    BY Repointed
<1>7. /\ Planned("create", a, b).action = "create"
      /\ Planned("conflict", a, b).action = "conflict"
  BY DEF Planned, NoPlan
<1>8. PlanNeighborCable(R, a, b) =
        IF in THEN Planned("in-sync", a, b)
        ELSE IF ca = NoCable /\ cb = NoCable THEN Planned("create", a, b)
        ELSE IF ca # NoCable /\ cb # NoCable
          THEN Planned(IF both THEN "conflict" ELSE "untouched", a, b)
        ELSE IF cb = NoCable THEN PlanRepoint(a, b, a, ca)
        ELSE PlanRepoint(a, b, b, cb)
  BY <1>1, <1>2, <1>3 DEF PlanNeighborCable
<1>9. ASSUME in
      PROVE  PlanNeighborCable(R, a, b) = Planned("in-sync", a, b)
  BY <1>8, <1>9
<1>10. ASSUME ~in, Foreign(a, b)
       PROVE  PlanNeighborCable(R, a, b) = Planned("untouched", a, b)
  <2>1. CASE ca # NoCable /\ cb # NoCable
    BY <1>8, <1>10, <2>1 DEF Foreign
  <2>2. CASE ca # NoCable /\ cb = NoCable
    BY <1>5, <1>6, <1>8, <1>10, <2>2 DEF Foreign
  <2>3. CASE ca = NoCable /\ cb # NoCable
    BY <1>5, <1>6, <1>8, <1>10, <2>3 DEF Foreign
  <2> QED
    BY <1>10, <2>1, <2>2, <2>3 DEF Foreign
<1>11. ASSUME ~in, ~Foreign(a, b)
       PROVE  PlanNeighborCable(R, a, b).action \in {"create", "update", "conflict"}
  <2>1. CASE ca = NoCable /\ cb = NoCable
    BY <1>7, <1>8, <1>11, <2>1
  <2>2. CASE ca # NoCable /\ cb # NoCable
    BY <1>7, <1>8, <1>11, <2>2 DEF Foreign
  <2>3. CASE ca # NoCable /\ cb = NoCable
    BY <1>5, <1>6, <1>8, <1>11, <2>3 DEF Foreign
  <2>4. CASE ca = NoCable /\ cb # NoCable
    BY <1>5, <1>6, <1>8, <1>11, <2>4 DEF Foreign
  <2> QED
    BY <2>1, <2>2, <2>3, <2>4
<1> QED
  BY <1>9, <1>10, <1>11 DEF Idle

(* Two sets of exact records give the same plan.                           *)
LEMMA SamePlan ==
  ASSUME NEW R, NEW S, NEW a, NEW b, Agrees(R, a, b), Agrees(S, a, b)
  PROVE  PlanNeighborCable(R, a, b) = PlanNeighborCable(S, a, b)
<1>1. R[a].cable = S[a].cable /\ R[b].cable = S[b].cable
  BY DEF Agrees, Exact
<1>2. (R[a].direct /\ R[b].direct) <=> (S[a].direct /\ S[b].direct)
  BY DEF Agrees, Exact
<1>3. ((R[a].cable # NoCable /\ R[a].cable = R[b].cable) \/ b \in R[a].reaches)
        <=> ((S[a].cable # NoCable /\ S[a].cable = S[b].cable) \/ b \in S[a].reaches)
  BY DEF Agrees, Exact, Traced, SameCable
<1> QED
  BY <1>1, <1>2, <1>3 DEF PlanNeighborCable

-----------------------------------------------------------------------------
(* Links.                                                                  *)

(* A reported link is a port of an AP and a port of another device, or     *)
(* unmatched.                                                              *)
LEMMA LinkIs ==
  ASSUME report \in Reports, NEW link \in Reported
  PROVE  /\ link = <<link[1], link[2]>>
         /\ link[1] \in Interfaces \cup {Unmatched} /\ link[2] \in Interfaces \cup {Unmatched}
         /\ Unmatched \notin Ends(link) =>
              /\ link[1] \in Interfaces /\ link[2] \in Interfaces
              /\ DeviceOf[link[1]] # DeviceOf[link[2]]
<1>1. PICK d \in Range(Aps) : link \in Range(report[d])
  BY DEF Reported
<1>2. report[d] \in Seq((On(d) \cup {Unmatched}) \X ((Interfaces \ On(d)) \cup {Unmatched}))
  BY ReportsAssumption
<1>3. link \in (On(d) \cup {Unmatched}) \X ((Interfaces \ On(d)) \cup {Unmatched})
  BY <1>1, <1>2 DEF Range
<1> QED
  BY <1>3 DEF On, Ends

(* The row in hand is a reported link of the AP in hand.                   *)
LEMMA RowIs ==
  ASSUME report \in Reports, ap \in 0 .. Len(Aps), ap > 0,
         row \in Nat \ {0}, row <= Len(Rows)
  PROVE  /\ row \in DOMAIN Rows
         /\ Rows[row] \in Reported
         /\ Rows[row][1] \in On(Aps[ap]) \cup {Unmatched}
<1>1. Aps[ap] \in Range(Aps)
  BY ReportsAssumption DEF Range
<1>2. Rows \in Seq((On(Aps[ap]) \cup {Unmatched}) \X ((Interfaces \ On(Aps[ap])) \cup {Unmatched}))
  BY <1>1, ReportsAssumption DEF Rows
<1>3. row \in DOMAIN Rows
  BY <1>2
<1>4. Rows[row] \in Range(report[Aps[ap]])
  BY <1>3 DEF Range, Rows
<1>5. Rows[row] \in Reported
  BY <1>1, <1>4 DEF Reported
<1>6. Rows[row][1] \in On(Aps[ap]) \cup {Unmatched}
  BY <1>2, <1>3
<1> QED
  BY <1>3, <1>5, <1>6

(* Two reported links have the same ports or none in common.               *)
LEMMA LinksApart ==
  ASSUME OnePerPort, report \in Reports, NEW x \in Reported, NEW y \in Reported,
         Unmatched \notin Ends(x)
  PROVE  Ends(x) = Ends(y) \/ Ends(x) \cap Ends(y) = {}
<1>1. PICK d \in Range(Aps) : x \in Range(report[d])
  BY DEF Reported
<1>2. PICK e \in Range(Aps) : y \in Range(report[e])
  BY DEF Reported
<1>3. Ends(x) = Ends(y) \/ Ends(x) \cap Ends(y) \subseteq {Unmatched}
  BY <1>1, <1>2 DEF OnePerPort
<1> QED
  BY <1>3

-----------------------------------------------------------------------------
(* What a write does to NetBox: the cable `id` now runs from a to b and no *)
(* other changed, none of which is on a or b; the port `gone` is the other *)
(* end it had, if it is not new.                                           *)
Rewired(id, a, b, gone) ==
  /\ a \in Interfaces /\ b \in Interfaces /\ DeviceOf[a] # DeviceOf[b]
  /\ cables' \in Seq((SUBSET Terminations) \X (SUBSET Terminations))
  /\ id \in Nat \ {0}
  /\ DOMAIN cables' = DOMAIN cables \cup {id}
  /\ Len(cables) <= Len(cables') /\ id <= Len(cables')
  /\ cables'[id] = <<{a}, {b}>>
  /\ \A k \in DOMAIN cables \ {id} :
       /\ cables'[k] = cables[k]
       /\ {a, b} \cap (cables[k][1] \cup cables[k][2]) = {}
  /\ \/ id \notin DOMAIN cables /\ gone = Unmatched
     \/ /\ id \in DOMAIN cables
        /\ gone \in Interfaces
        /\ \E h \in {a, b} : Between(id, h, gone)

(* An accepted write does that.                                            *)
LEMMA WriteRewires ==
  ASSUME Wired, Targeted, report \in Reports, ap \in 0 .. Len(Aps), row \in Nat \ {0},
         Accepted, cables' = Written
  PROVE  Rewired(WrittenId, plan.a, plan.b, plan.replaced)
<1> DEFINE Side == (SUBSET Terminations) \X (SUBSET Terminations)
<1>1. Len(cables) \in Nat /\ DOMAIN cables = 1 .. Len(cables) /\ cables \in Seq(Side)
  BY DEF Wired
<1>2. plan.a \in Interfaces /\ plan.b \in Interfaces /\ DeviceOf[plan.a] # DeviceOf[plan.b]
  <2>1. Rows[row] \in Reported
    BY RowIs DEF Targeted
  <2>2. Rows[row] = <<plan.a, plan.b>> /\ plan.a \in Interfaces /\ plan.b \in Interfaces
    BY DEF Targeted
  <2>3. Unmatched \notin Ends(Rows[row])
    BY <2>2, PortsAssumption DEF Ends, Terminations
  <2> QED
    BY <2>1, <2>2, <2>3, LinkIs
<1>3. <<{plan.a}, {plan.b}>> \in Side
  BY <1>2 DEF Terminations
<1>4. plan.a \in Terminations /\ plan.b \in Terminations
  BY <1>2 DEF Terminations
<1>5. ASSUME NEW t \in {plan.a, plan.b}, NEW id, CableOn(t) \in {NoCable, id},
             NEW k \in DOMAIN cables, k # id
      PROVE  t \notin cables[k][1] \cup cables[k][2]
  <2>1. t \in Terminations
    BY <1>4
  <2>2. Free(t) \/ OnCable(t, CableOn(t))
    BY <2>1, OnOrFree
  <2>3. CablesOn(t) = {} \/ CablesOn(t) = {id}
    BY <1>5, <2>1, <2>2, OnOrFree DEF OnCable, Free
  <2> QED
    BY <1>5, <2>3 DEF CablesOn
<1>6. CASE plan.action = "create"
  <2>1. CableOn(plan.a) = NoCable /\ CableOn(plan.b) = NoCable
    BY <1>6 DEF Accepted
  <2>2. cables' = Append(cables, <<{plan.a}, {plan.b}>>) /\ WrittenId = Len(cables) + 1
    BY <1>6 DEF Written, WrittenId
  <2>3. /\ cables' \in Seq(Side) /\ Len(cables') = Len(cables) + 1
        /\ cables'[Len(cables) + 1] = <<{plan.a}, {plan.b}>>
        /\ \A k \in 1 .. Len(cables) : cables'[k] = cables[k]
    BY <2>2, <1>1, <1>3
  <2>4. DOMAIN cables' = DOMAIN cables \cup {WrittenId} /\ WrittenId \notin DOMAIN cables
    BY <2>2, <2>3, <1>1
  <2>5. \A k \in DOMAIN cables \ {WrittenId} :
          /\ cables'[k] = cables[k]
          /\ {plan.a, plan.b} \cap (cables[k][1] \cup cables[k][2]) = {}
    <3>1. \A t \in {plan.a, plan.b} : CableOn(t) \in {NoCable, WrittenId}
      BY <2>1
    <3>2. \A t \in {plan.a, plan.b} : \A k \in DOMAIN cables :
            k # WrittenId => t \notin cables[k][1] \cup cables[k][2]
      <4> SUFFICES ASSUME NEW t \in {plan.a, plan.b}, NEW k \in DOMAIN cables, k # WrittenId
                   PROVE  t \notin cables[k][1] \cup cables[k][2]
        OBVIOUS
      <4>1. CableOn(t) \in {NoCable, WrittenId}
        BY <3>1
      <4> QED
        BY <4>1, <1>5
    <3>3. \A k \in DOMAIN cables : cables'[k] = cables[k]
      BY <1>1, <2>3
    <3> QED
      BY <3>2, <3>3
  <2>6. /\ WrittenId \in Nat \ {0} /\ Len(cables) <= Len(cables') /\ WrittenId <= Len(cables')
        /\ cables'[WrittenId] = <<{plan.a}, {plan.b}>>
    BY <1>1, <2>2, <2>3
  <2>7. plan.replaced = Unmatched
    BY <1>6 DEF Targeted
  <2> QED
    BY <1>2, <2>3, <2>4, <2>5, <2>6, <2>7 DEF Rewired
<1>7. CASE plan.action = "update"
  <2>1. /\ cables[plan.cable] # Deleted
        /\ CableOn(plan.a) \in {NoCable, plan.cable}
        /\ CableOn(plan.b) \in {NoCable, plan.cable}
    BY <1>7 DEF Accepted
  <2>2. /\ plan.cable \in DOMAIN cables /\ plan.replaced \in Interfaces
        /\ \E h \in {plan.a, plan.b} : Between(plan.cable, h, plan.replaced)
    BY <1>7, <2>1 DEF Targeted
  <2>3. cables' = [cables EXCEPT ![plan.cable] = <<{plan.a}, {plan.b}>>] /\ WrittenId = plan.cable
    BY <1>7 DEF Written, WrittenId
  <2>4. /\ cables' \in Seq(Side) /\ Len(cables') = Len(cables)
        /\ cables'[plan.cable] = <<{plan.a}, {plan.b}>>
        /\ \A k \in DOMAIN cables \ {plan.cable} : cables'[k] = cables[k]
    BY <2>2, <2>3, <1>1, <1>3
  <2>5. DOMAIN cables' = DOMAIN cables \cup {WrittenId}
    BY <2>2, <2>3
  <2>6. \A k \in DOMAIN cables \ {WrittenId} :
          /\ cables'[k] = cables[k]
          /\ {plan.a, plan.b} \cap (cables[k][1] \cup cables[k][2]) = {}
    <3>1. \A t \in {plan.a, plan.b} : CableOn(t) \in {NoCable, WrittenId}
      BY <2>1, <2>3
    <3>2. \A t \in {plan.a, plan.b} : \A k \in DOMAIN cables :
            k # WrittenId => t \notin cables[k][1] \cup cables[k][2]
      <4> SUFFICES ASSUME NEW t \in {plan.a, plan.b}, NEW k \in DOMAIN cables, k # WrittenId
                   PROVE  t \notin cables[k][1] \cup cables[k][2]
        OBVIOUS
      <4>1. CableOn(t) \in {NoCable, WrittenId}
        BY <3>1
      <4> QED
        BY <4>1, <1>5
    <3> QED
      BY <2>3, <2>4, <3>2
  <2>7. /\ WrittenId \in Nat \ {0} /\ Len(cables) <= Len(cables') /\ WrittenId <= Len(cables')
        /\ cables'[WrittenId] = <<{plan.a}, {plan.b}>>
    BY <1>1, <2>2, <2>3, <2>4
  <2> QED
    BY <1>2, <2>2, <2>3, <2>4, <2>5, <2>6, <2>7 DEF Rewired
<1> QED
  BY <1>6, <1>7 DEF Targeted

(* After it: the ports it joins are on it, each with the other as peer.    *)
LEMMA JoinedByWrite ==
  ASSUME Wired, NEW id, NEW a, NEW b, NEW gone, Rewired(id, a, b, gone)
  PROVE  \A t \in {a, b} :
           /\ CablesOn(t)' = {id}
           /\ CableOn(t)' = id
           /\ LinkPeers(t)' = {a, b} \ {t}
<1> SUFFICES ASSUME NEW t \in {a, b}
             PROVE  /\ CablesOn(t)' = {id}
                    /\ CableOn(t)' = id
                    /\ LinkPeers(t)' = {a, b} \ {t}
  OBVIOUS
<1>1. cables'[id][1] = {a} /\ cables'[id][2] = {b} /\ a # b
  BY DEF Rewired
<1>2. \A k \in DOMAIN cables' : t \in cables'[k][1] \cup cables'[k][2] <=> k = id
  BY <1>1 DEF Rewired
<1>3. CablesOn(t)' = {id}
  BY <1>2 DEF CablesOn, Rewired
<1>4. CableOn(t)' = id
  BY <1>3 DEF CableOn
<1>5. LinkPeers(t)' = IF t \in cables'[id][1] THEN cables'[id][2] ELSE cables'[id][1]
  BY <1>3 DEF LinkPeers
<1> QED
  BY <1>1, <1>3, <1>4, <1>5

(* The port it was taken off is free, and had one of them as its peer.     *)
LEMMA TakenByWrite ==
  ASSUME Wired, NEW id, NEW a, NEW b, NEW gone, Rewired(id, a, b, gone),
         gone \in Interfaces \ {a, b}
  PROVE  /\ Free(gone)'
         /\ OnCable(gone, id) /\ id \in DOMAIN cables
         /\ \E h \in {a, b} : /\ cables[id] \in {<<{h}, {gone}>>, <<{gone}, {h}>>}
                              /\ OnCable(h, id)
                              /\ LinkPeers(gone) = {h} /\ LinkPeers(h) = {gone}
<1>1. id \in DOMAIN cables /\ \E h \in {a, b} : Between(id, h, gone)
  BY PortsAssumption DEF Rewired, Terminations
<1>2. PICK h \in {a, b} : cables[id] \in {<<{h}, {gone}>>, <<{gone}, {h}>>}
  BY <1>1 DEF Between
<1>3. h # gone /\ h \in Terminations /\ gone \in Terminations
  BY DEF Rewired, Terminations
<1>4. \/ cables[id][1] = {h} /\ cables[id][2] = {gone}
      \/ cables[id][1] = {gone} /\ cables[id][2] = {h}
  BY <1>2
<1>5. id \in CablesOn(gone) /\ id \in CablesOn(h)
  BY <1>1, <1>4 DEF CablesOn
<1>6. CablesOn(gone) = {id} /\ CablesOn(h) = {id}
  BY <1>3, <1>5 DEF Wired
<1>7. OnCable(gone, id) /\ OnCable(h, id)
  BY <1>6, OneCable
<1>8. LinkPeers(gone) = {h} /\ LinkPeers(h) = {gone}
  BY <1>3, <1>4, <1>7 DEF OnCable
<1>9. CablesOn(gone)' = {}
  <2>1. cables'[id][1] = {a} /\ cables'[id][2] = {b}
    BY DEF Rewired
  <2>2. \A k \in DOMAIN cables \ {id} : gone \notin cables[k][1] \cup cables[k][2]
    BY <1>6 DEF CablesOn
  <2>3. \A k \in DOMAIN cables' : gone \notin cables'[k][1] \cup cables'[k][2]
    BY <2>1, <2>2 DEF Rewired
  <2> QED
    BY <2>3 DEF CablesOn
<1>10. Free(gone)'
  BY <1>9 DEF Free, CableOn, LinkPeers
<1> QED
  BY <1>1, <1>2, <1>7, <1>8, <1>10

(* Every other termination keeps its cable and its peers.                  *)
LEMMA KeptByWrite ==
  ASSUME Wired, NEW id, NEW a, NEW b, NEW gone, Rewired(id, a, b, gone),
         NEW t, t \notin {a, b, gone}
  PROVE  /\ CablesOn(t)' = CablesOn(t) /\ id \notin CablesOn(t)
         /\ CableOn(t)' = CableOn(t)
         /\ LinkPeers(t)' = LinkPeers(t)
<1>1. id \in DOMAIN cables => t \notin cables[id][1] \cup cables[id][2]
  BY DEF Rewired, Between
<1>2. t \notin cables'[id][1] \cup cables'[id][2]
  BY DEF Rewired
<1>3. DOMAIN cables' = DOMAIN cables \cup {id} /\ \A k \in DOMAIN cables \ {id} : cables'[k] = cables[k]
  BY DEF Rewired
<1>4. CablesOn(t)' = CablesOn(t) /\ id \notin CablesOn(t)
  BY <1>1, <1>2, <1>3 DEF CablesOn
<1>5. CableOn(t)' = CableOn(t)
  BY <1>4 DEF CableOn
<1>6. \A k \in CablesOn(t) : cables'[k] = cables[k]
  BY <1>3, <1>4 DEF CablesOn
<1>7. LinkPeers(t)' = LinkPeers(t)
  BY <1>4, <1>6 DEF LinkPeers
<1> QED
  BY <1>4, <1>5, <1>7

(* So does the path of an interface: it is through panel ports, which the  *)
(* write does not touch.                                                   *)
LEMMA PathKeptByWrite ==
  ASSUME Wired, NEW id, NEW a, NEW b, NEW gone, Rewired(id, a, b, gone),
         NEW t, t \notin {a, b, gone}
  PROVE  ConnectedEndpoints(t)' = ConnectedEndpoints(t)
<1>1. LinkPeers(t)' = LinkPeers(t)
  BY KeptByWrite
<1>2. \A p \in PanelPorts : LinkPeers(Mate[p])' = LinkPeers(Mate[p])
  <2> SUFFICES ASSUME NEW p \in PanelPorts
               PROVE  LinkPeers(Mate[p])' = LinkPeers(Mate[p])
    OBVIOUS
  <2>1. PICK m : m = Mate[p]
    OBVIOUS
  <2>2. m \in PanelPorts
    BY <2>1, PortsAssumption
  <2>3. m \notin {a, b, gone}
    BY <2>2, PortsAssumption DEF Rewired, Terminations
  <2>4. LinkPeers(m)' = LinkPeers(m)
    BY <2>3, KeptByWrite
  <2> QED
    BY <2>1, <2>4
<1> QED
  BY <1>1, <1>2 DEF ConnectedEndpoints

(* A termination still has one cable, and a side of one is on one device.  *)
LEMMA WiredByWrite ==
  ASSUME Wired, NEW id, NEW a, NEW b, NEW gone, Rewired(id, a, b, gone)
  PROVE  Wired'
<1>1. \A t \in Terminations : \A k, n \in CablesOn(t)' : k = n
  <2> SUFFICES ASSUME NEW t \in Terminations
               PROVE  \A k, n \in CablesOn(t)' : k = n
    OBVIOUS
  <2>1. CASE t \in {a, b}
    BY <2>1, JoinedByWrite
  <2>2. CASE t \notin {a, b} /\ t = gone
    <3>1. gone \in Interfaces \ {a, b}
      BY <2>2, PortsAssumption DEF Rewired
    <3>2. Free(gone)'
      BY <3>1, TakenByWrite
    <3>3. CablesOn(t)' = {}
      BY <3>2, <2>2 DEF Free
    <3> QED
      BY <3>3
  <2>3. CASE t \notin {a, b, gone}
    <3>1. CablesOn(t)' = CablesOn(t)
      BY <2>3, KeptByWrite
    <3> QED
      BY <3>1 DEF Wired
  <2> QED
    BY <2>1, <2>2, <2>3
<1>2. ASSUME NEW k \in DOMAIN cables', NEW s \in {1, 2},
             NEW i \in cables'[k][s] \cap Interfaces, NEW j \in cables'[k][s] \cap Interfaces
      PROVE  DeviceOf[i] = DeviceOf[j]
  <2>1. CASE k = id
    BY <2>1 DEF Rewired
  <2>2. CASE k # id
    <3>1. k \in DOMAIN cables /\ cables'[k] = cables[k]
      BY <2>2 DEF Rewired
    <3> QED
      BY <3>1 DEF Wired
  <2> QED
    BY <2>1, <2>2
<1>3. cables' \in Seq((SUBSET Terminations) \X (SUBSET Terminations))
  BY DEF Rewired
<1> QED
  BY <1>1, <1>2, <1>3 DEF Wired

(* A straight cable's peer is an interface.                                *)
LEMMA StraightIsDirect ==
  ASSUME Wired, NEW t \in Interfaces, CableOn(t) # NoCable, RunsStraight(CableOn(t), t)
  PROVE  LinkPeers(t) \subseteq Interfaces
<1>1. t \in Terminations
  BY DEF Terminations
<1>2. PICK id : id = CableOn(t)
  OBVIOUS
<1>3. OnCable(t, id)
  BY <1>1, <1>2, OnOrFree
<1>4. PICK i \in Interfaces : cables[id] \in {<<{t}, {i}>>, <<{i}, {t}>>}
  BY <1>2 DEF RunsStraight, Between
<1>5. \/ cables[id][1] = {t} /\ cables[id][2] = {i}
      \/ cables[id][1] = {i} /\ cables[id][2] = {t}
  BY <1>4
<1> QED
  BY <1>3, <1>5 DEF OnCable

(* A port the write does not concern is on a straight cable before and     *)
(* after it, or neither.                                                   *)
LEMMA StraightKept ==
  ASSUME Wired, NEW id, NEW a, NEW b, NEW gone, Rewired(id, a, b, gone),
         NEW t \in Interfaces, t \notin {a, b, gone}, CableOn(t) # NoCable
  PROVE  RunsStraight(CableOn(t), t)' <=> RunsStraight(CableOn(t), t)
<1>1. t \in Terminations
  BY DEF Terminations
<1>2. PICK k : k = CableOn(t)
  OBVIOUS
<1>3. k \in DOMAIN cables /\ k \in CablesOn(t)
  BY <1>1, <1>2, OnOrFree DEF OnCable
<1>4. CableOn(t)' = k /\ k # id
  BY <1>2, <1>3, KeptByWrite
<1>5. cables'[k] = cables[k]
  BY <1>3, <1>4 DEF Rewired
<1>6. RunsStraight(k, t)' <=> RunsStraight(k, t)
  BY <1>5 DEF RunsStraight, Between
<1>7. RunsStraight(CableOn(t), t)' <=> RunsStraight(k, t)'
  BY <1>4 DEF RunsStraight, Between
<1> QED
  BY <1>2, <1>6, <1>7

(* The port taken off was on another cable than a port not concerned, ran  *)
(* straight and was no end of a link with it.                              *)
LEMMA TakenApart ==
  ASSUME Wired, NEW id, NEW a, NEW b, NEW gone, Rewired(id, a, b, gone),
         gone \in Interfaces \ {a, b}, NEW t \in Interfaces \ {a, b, gone}
  PROVE  /\ CableOn(gone) = id /\ CableOn(gone) # NoCable /\ CableOn(t) # id
         /\ RunsStraight(CableOn(gone), gone) /\ LinkPeers(gone) \subseteq Interfaces
         /\ CableOn(gone)' = NoCable
         /\ ~Joined(gone, t) /\ ~Joined(gone, t)'
<1>1. PICK h \in {a, b} : /\ cables[id] \in {<<{h}, {gone}>>, <<{gone}, {h}>>}
                          /\ LinkPeers(gone) = {h}
  BY TakenByWrite
<1>2. OnCable(gone, id) /\ id \in DOMAIN cables /\ Free(gone)'
  BY TakenByWrite
<1>3. h \in Interfaces /\ h # t
  BY DEF Rewired
<1>4. CableOn(gone) = id /\ id # NoCable
  BY <1>2 DEF OnCable, Wired, NoCable
<1>5. CableOn(t) # id
  <2>1. id \notin CablesOn(t)
    BY KeptByWrite
  <2>2. t \in Terminations
    BY DEF Terminations
  <2> QED
    BY <1>4, <2>1, <2>2, OnOrFree DEF OnCable
<1>6. RunsStraight(id, gone)
  BY <1>1, <1>3 DEF RunsStraight, Between
<1>7. LinkPeers(gone) \cap PanelPorts = {}
  BY <1>1, <1>3, PortsAssumption
<1>8. ~Joined(gone, t)
  BY <1>1, <1>3, <1>7 DEF Joined, ConnectedEndpoints
<1>9. CableOn(gone)' = NoCable /\ LinkPeers(gone)' = {}
  BY <1>2 DEF Free
<1>10. ~Joined(gone, t)'
  BY <1>9 DEF Joined, ConnectedEndpoints
<1> QED
  BY <1>1, <1>3, <1>4, <1>5, <1>6, <1>8, <1>9, <1>10

(* A link with none of the ports written is in NetBox after the write      *)
(* exactly when it was, and still needs none if it needed none.            *)
LEMMA OtherLinkKept ==
  ASSUME Wired, NEW id, NEW a, NEW b, NEW gone, Rewired(id, a, b, gone),
         NEW x \in Interfaces \ {a, b}, NEW y \in Interfaces \ {a, b}, x # y
  PROVE  /\ Joined(x, y)' <=> Joined(x, y)
         /\ SameCable(x, y)' <=> SameCable(x, y)
         /\ Idle(x, y) => Idle(x, y)'
<1>1. ASSUME NEW t \in {x, y}, t # gone
      PROVE  /\ CableOn(t)' = CableOn(t)
             /\ LinkPeers(t)' = LinkPeers(t)
             /\ ConnectedEndpoints(t)' = ConnectedEndpoints(t)
             /\ CableOn(t) # NoCable =>
                  (RunsStraight(CableOn(t), t)' <=> RunsStraight(CableOn(t), t))
  BY <1>1, KeptByWrite, PathKeptByWrite, StraightKept
<1>2. CASE x # gone /\ y # gone
  <2>1. Joined(x, y)' <=> Joined(x, y)
    BY <1>1, <1>2 DEF Joined
  <2>2. SameCable(x, y)' <=> SameCable(x, y)
    BY <1>1, <1>2 DEF SameCable
  <2>3. Foreign(x, y) => Foreign(x, y)'
    BY <1>1, <1>2 DEF Foreign
  <2> QED
    BY <2>1, <2>2, <2>3 DEF Idle
<1>3. CASE x = gone
  <2>1. /\ CableOn(x) = id /\ CableOn(x) # NoCable /\ CableOn(y) # id
        /\ RunsStraight(CableOn(x), x) /\ LinkPeers(x) \subseteq Interfaces
        /\ CableOn(x)' = NoCable
        /\ ~Joined(x, y) /\ ~Joined(x, y)'
    BY <1>3, TakenApart
  <2>2. ~SameCable(x, y) /\ ~SameCable(x, y)'
    BY <2>1 DEF SameCable
  <2>3. ASSUME Foreign(x, y)
        PROVE  Foreign(x, y)'
    <3>1. CableOn(y) # NoCable /\ ~(LinkPeers(y) \subseteq Interfaces)
      BY <2>1, <2>3 DEF Foreign
    <3>2. ~RunsStraight(CableOn(y), y)
      BY <3>1, StraightIsDirect
    <3>3. CableOn(y)' # NoCable /\ ~RunsStraight(CableOn(y), y)'
      BY <1>1, <1>3, <3>1, <3>2
    <3> QED
      BY <2>1, <3>3 DEF Foreign
  <2> QED
    BY <2>1, <2>2, <2>3 DEF Idle
<1>4. CASE y = gone
  <2>1. /\ CableOn(y) = id /\ CableOn(y) # NoCable /\ CableOn(x) # id
        /\ RunsStraight(CableOn(y), y) /\ LinkPeers(y) \subseteq Interfaces
        /\ CableOn(y)' = NoCable
    BY <1>4, TakenApart
  <2>2. ~SameCable(x, y) /\ ~SameCable(x, y)'
    BY <2>1 DEF SameCable
  <2>3. ASSUME Foreign(x, y)
        PROVE  Foreign(x, y)'
    <3>1. CableOn(x) # NoCable /\ ~(LinkPeers(x) \subseteq Interfaces)
      BY <2>1, <2>3 DEF Foreign
    <3>2. ~RunsStraight(CableOn(x), x)
      BY <3>1, StraightIsDirect
    <3>3. CableOn(x)' # NoCable /\ ~RunsStraight(CableOn(x), x)'
      BY <1>1, <1>4, <3>1, <3>2
    <3> QED
      BY <2>1, <3>3 DEF Foreign
  <2>4. Joined(x, y)' <=> Joined(x, y)
    BY <1>1, <1>4 DEF Joined
  <2> QED
    BY <2>2, <2>3, <2>4 DEF Idle
<1> QED
  BY <1>2, <1>3, <1>4

-----------------------------------------------------------------------------
(* The records.                                                            *)

(* _interfaces keeps what is held and reads the rest of the device.        *)
LEMMA WithDeviceIs ==
  ASSUME Wired, NEW R \in [Interfaces -> Records], NEW device
  PROVE  /\ WithDevice(R, device) \in [Interfaces -> Records]
         /\ \A i \in Interfaces :
              /\ R[i] # NotHeld => WithDevice(R, device)[i] = R[i]
              /\ WithDevice(R, device)[i] \in {R[i], Read(i)}
              /\ i \in On(device) => WithDevice(R, device)[i] # NotHeld
<1>1. \A i \in Interfaces : Read(i) \in Records /\ Read(i) # NotHeld
  BY ReadIsExact
<1>2. WithDevice(R, device) =
        [i \in Interfaces |-> IF i \in On(device) /\ R[i] = NotHeld THEN Read(i) ELSE R[i]]
  BY DEF WithDevice
<1> QED
  BY <1>1, <1>2

(* record_cable: the ends have the cable, the port taken off has none, a   *)
(* record not held stays so, and the paths are as they were read.          *)
LEMMA RecordCableIs ==
  ASSUME Types, Planning, NEW id \in Nat, NEW i \in Interfaces
  PROVE  /\ held[i] = NotHeld => RecordCable(id)[i] = NotHeld
         /\ held[i] # NotHeld => /\ RecordCable(id)[i] # NotHeld
                                 /\ RecordCable(id)[i].known
                                 /\ RecordCable(id)[i].reaches = held[i].reaches
         /\ held[i] # NotHeld /\ i \in {plan.a, plan.b} =>
              RecordCable(id)[i].cable = id /\ RecordCable(id)[i].direct = TRUE
         /\ held[i] # NotHeld /\ i \notin {plan.a, plan.b} /\ i = plan.replaced =>
              RecordCable(id)[i].cable = NoCable /\ RecordCable(id)[i].direct = TRUE
         /\ i \notin {plan.a, plan.b, plan.replaced} => RecordCable(id)[i] = held[i]
         /\ \A top \in Nat : top >= Len(cables) /\ id <= top /\ Len(cables) \in Nat =>
              RecordCable(id)[i] \in
                [known : BOOLEAN, cable : 0..top, direct : BOOLEAN, reaches : SUBSET Interfaces]
<1>1. held[i] \in [known : BOOLEAN, cable : 0..Len(cables), direct : BOOLEAN,
                   reaches : SUBSET Interfaces]
  BY DEF Types, Records
<1>2. RecordCable(id)[i] =
        IF held[i] = NotHeld THEN NotHeld
        ELSE IF i \in {plan.a, plan.b} THEN [held[i] EXCEPT !.cable = id, !.direct = TRUE]
        ELSE IF i = plan.replaced THEN [held[i] EXCEPT !.cable = NoCable, !.direct = TRUE]
        ELSE held[i]
  BY DEF RecordCable
<1>3. held[i] # NotHeld => held[i].known
  BY DEF Planning
<1>4. \A r : r.known => r # NotHeld
  BY DEF NotHeld
<1>5. CASE held[i] = NotHeld
  <2>1. RecordCable(id)[i] = NotHeld
    BY <1>2, <1>5
  <2>2. \A top \in Nat : NotHeld \in
          [known : BOOLEAN, cable : 0..top, direct : BOOLEAN, reaches : SUBSET Interfaces]
    BY DEF NotHeld, NoCable
  <2> QED
    BY <1>5, <2>1, <2>2
<1>6. CASE held[i] # NotHeld /\ i \in {plan.a, plan.b}
  <2>1. RecordCable(id)[i] = [held[i] EXCEPT !.cable = id, !.direct = TRUE]
    BY <1>2, <1>6
  <2>2. RecordCable(id)[i] =
          [known |-> held[i].known, cable |-> id, direct |-> TRUE, reaches |-> held[i].reaches]
    BY <1>1, <2>1
  <2>3. \A top \in Nat : id <= top => RecordCable(id)[i] \in
          [known : BOOLEAN, cable : 0..top, direct : BOOLEAN, reaches : SUBSET Interfaces]
    BY <1>1, <2>2
  <2> QED
    BY <1>3, <1>4, <1>6, <2>2, <2>3
<1>7. CASE held[i] # NotHeld /\ i \notin {plan.a, plan.b} /\ i = plan.replaced
  <2>1. RecordCable(id)[i] = [held[i] EXCEPT !.cable = NoCable, !.direct = TRUE]
    BY <1>2, <1>7
  <2>2. RecordCable(id)[i] =
          [known |-> held[i].known, cable |-> NoCable, direct |-> TRUE, reaches |-> held[i].reaches]
    BY <1>1, <2>1
  <2>3. \A top \in Nat : RecordCable(id)[i] \in
          [known : BOOLEAN, cable : 0..top, direct : BOOLEAN, reaches : SUBSET Interfaces]
    BY <1>1, <2>2 DEF NoCable
  <2> QED
    BY <1>3, <1>4, <1>7, <2>2, <2>3
<1>8. CASE held[i] # NotHeld /\ i \notin {plan.a, plan.b, plan.replaced}
  <2>1. RecordCable(id)[i] = held[i]
    BY <1>2, <1>8
  <2>2. \A top \in Nat : top >= Len(cables) /\ Len(cables) \in Nat =>
          held[i] \in
            [known : BOOLEAN, cable : 0..top, direct : BOOLEAN, reaches : SUBSET Interfaces]
    BY <1>1
  <2> QED
    BY <1>3, <1>8, <2>1, <2>2
<1> QED
  BY <1>5, <1>6, <1>7, <1>8
-----------------------------------------------------------------------------
(* Every step keeps the records typed and NetBox wired.                    *)
LEMMA InitIInv == Init => IInv
<1> SUFFICES ASSUME Init
             PROVE  IInv
  OBVIOUS
<1>1. cables \in Seq((SUBSET Terminations) \X (SUBSET Terminations)) /\ Len(cables) \in Nat
  BY FabricsAssumption DEF Init
<1>2. NotHeld \in Records
  BY <1>1 DEF NotHeld, Records, NoCable
<1>3. plan.action = "none"
  BY DEF Init, NoPlan
<1>4. ended \in Seq({"ok", "drift", "changed", "partial", "error"})
  BY DEF Init
<1>5. 0 \in 0 .. Len(Aps) /\ 0 \in 0 .. Faults /\ 0 \in 0 .. Changes
  BY BoundsAssumption, ReportsAssumption
<1>6. Types
  <2>1. held \in [Interfaces -> Records]
    BY <1>2 DEF Init
  <2>2. stage = "write" <=> plan # NoPlan
    BY DEF Init
  <2>3. plan.action \in {"none", "create", "update"} /\ row \in Nat \ {0}
    BY <1>3 DEF Init
  <2>4. /\ ap \in 0 .. Len(Aps) /\ faults \in 0 .. Faults /\ edits \in 0 .. Changes
        /\ noted \subseteq Interfaces \X Interfaces /\ issues \in BOOLEAN /\ changes \in BOOLEAN
    BY <1>5 DEF Init
  <2>5. apply \in BOOLEAN /\ report \in Reports /\ stage \in {"ap", "rows", "write", "idle"}
    BY DEF Init
  <2> QED
    BY <1>4, <2>1, <2>2, <2>3, <2>4, <2>5 DEF Types
<1>7. Wired
  BY <1>1, FabricsAssumption DEF Init, Wired, CablesOn
<1>8. Planning
  BY DEF Init, Planning, Whole
<1> QED
  BY <1>6, <1>7, <1>8 DEF IInv

(* Records stay records while no cable is taken out of the list.           *)
LEMMA RecordsGrow ==
  ASSUME Len(cables) \in Nat, Len(cables') \in Nat, Len(cables) <= Len(cables')
  PROVE  Records \subseteq Records'
BY DEF Records

LEMMA NextApIInv == IInv /\ NextAp => IInv'
<1> SUFFICES ASSUME IInv, NextAp
             PROVE  IInv'
  OBVIOUS
<1> USE DEF IInv
<1> DEFINE own == On(Aps[ap + 1]) \cup (IF ap > 0 THEN On(Aps[ap]) ELSE {})
           kept == [i \in Interfaces |-> IF i \in own THEN NotHeld ELSE held[i]]
<1>1. NotHeld \in Records
  BY DEF Wired, Records, NotHeld, NoCable
<1>2. kept \in [Interfaces -> Records]
  BY <1>1 DEF Types
<1>3. held' = WithDevice(kept, Aps[ap + 1])
  BY DEF NextAp
<1> HIDE DEF kept
<1>4. /\ held' \in [Interfaces -> Records]
      /\ \A i \in Interfaces : /\ held'[i] \in {kept[i], Read(i)}
                               /\ i \in On(Aps[ap + 1]) => held'[i] # NotHeld
  BY <1>2, <1>3, WithDeviceIs
<1>5. Records' = Records
  BY DEF NextAp, Records
<1>6. ap + 1 \in 0 .. Len(Aps) /\ ap + 1 > 0
  <2>1. Len(Aps) \in Nat
    BY ReportsAssumption
  <2> QED
    BY <2>1 DEF NextAp, Types
<1>7. Types'
  BY <1>4, <1>5, <1>6 DEF NextAp, Types
<1>8. Wired'
  BY DEF NextAp, Wired, CablesOn
<1>9. \A i \in Interfaces : held'[i] # NotHeld => held'[i].known
  <2>1. \A i \in Interfaces : kept[i] # NotHeld => kept[i].known
    BY DEF kept, Planning
  <2>2. \A i \in Interfaces : Read(i).known
    BY ReadIsExact
  <2> QED
    BY <1>4, <2>1, <2>2
<1>10. Planning'
  BY <1>4, <1>6, <1>9 DEF NextAp, Planning, Whole, On, Reported
<1> QED
  BY <1>7, <1>8, <1>10

LEMMA PlanRowIInv == IInv /\ PlanRow => IInv'
<1> SUFFICES ASSUME IInv, PlanRow
             PROVE  IInv'
  OBVIOUS
<1> USE DEF IInv
<1> DEFINE a == Rows[row][1]
           b == Rows[row][2]
           records == IF b = Unmatched THEN held ELSE WithDevice(held, DeviceOf[b])
           decided == IF Unmatched \in {a, b} THEN Planned("blocked", a, b)
                      ELSE PlanNeighborCable(records, a, b)
           writes == decided.action \in {"create", "update"}
<1>1. /\ stage = "rows" /\ row <= Len(Rows)
      /\ held' = records
      /\ plan' = (IF writes /\ apply THEN decided ELSE NoPlan)
      /\ stage' = (IF writes /\ apply THEN "write" ELSE "rows")
      /\ row' = (IF writes /\ apply THEN row ELSE row + 1)
      /\ issues' = (issues \/ decided.action \in {"blocked", "conflict"})
      /\ changes' = (changes \/ (writes /\ ~apply))
      /\ noted' = (IF decided.action = "untouched" THEN noted \cup {<<a, b>>} ELSE noted)
      /\ UNCHANGED <<apply, report, cables, ap, ended, faults, edits>>
  BY DEF PlanRow
<1>2. Rows[row] \in Reported /\ report \in Reports
  BY <1>1, RowIs DEF Types, Planning
<1>3. Rows[row] = <<a, b>> /\ (Unmatched \notin {a, b} => a \in Interfaces /\ b \in Interfaces)
  BY <1>2, LinkIs DEF Ends
<1>4. /\ records \in [Interfaces -> Records]
      /\ \A i \in Interfaces : /\ held[i] # NotHeld => records[i] # NotHeld
                               /\ records[i] \in {held[i], Read(i)}
  <2>1. held \in [Interfaces -> Records]
    BY DEF Types
  <2>2. CASE b = Unmatched
    BY <2>1, <2>2
  <2>3. CASE b # Unmatched
    <3>1. records = WithDevice(held, DeviceOf[b])
      BY <2>3
    <3>2. PICK d : d = DeviceOf[b]
      OBVIOUS
    <3> QED
      BY <2>1, <3>1, <3>2, WithDeviceIs
  <2> QED
    BY <2>2, <2>3
<1>5. Unmatched \notin {a, b} => Drafted(decided, a, b)
  <2> SUFFICES ASSUME Unmatched \notin {a, b}
               PROVE  Drafted(decided, a, b)
    OBVIOUS
  <2>1. decided = PlanNeighborCable(records, a, b)
    OBVIOUS
  <2> HIDE DEF a, b, records, decided
  <2>2. a \in Interfaces /\ b \in Interfaces
    BY <1>3
  <2>3. records[a].cable \in 0 .. Len(cables) /\ records[b].cable \in 0 .. Len(cables)
    BY <1>4, <2>2 DEF Records
  <2> QED
    BY <2>1, <2>2, <2>3, PlanIsDrafted
<1>6. Unmatched \in {a, b} => decided.action = "blocked"
  BY DEF Planned, NoPlan
<1> HIDE DEF a, b, records, decided
<1>7. Records' = Records
  BY <1>1 DEF Records
<1>8. NoPlan.action = "none"
  BY DEF NoPlan
<1>9. row \in Nat \ {0} /\ row + 1 \in Nat \ {0}
  BY DEF Types
<1>10. noted' \subseteq Interfaces \X Interfaces
  BY <1>1, <1>3, <1>6 DEF Types
<1>11. Types'
  <2>1. /\ held' \in [Interfaces -> Records'] /\ stage' \in {"ap", "rows", "write", "idle"}
        /\ row' \in Nat \ {0}
        /\ plan'.action \in {"none", "create", "update"}
        /\ (stage' = "write" <=> plan' # NoPlan)
        /\ issues' \in BOOLEAN /\ changes' \in BOOLEAN
    BY <1>1, <1>4, <1>7, <1>8, <1>9 DEF Types
  <2> QED
    BY <1>1, <1>10, <2>1 DEF Types
<1>12. Wired'
  BY <1>1 DEF Wired, CablesOn
<1>13. Planning'
  <2>1. \A i \in Interfaces : held'[i] # NotHeld => held'[i].known
    <3>1. \A i \in Interfaces : Read(i).known
      BY ReadIsExact
    <3> QED
      BY <1>1, <1>4, <3>1 DEF Planning
  <2>2. ap' > 0 /\ \A i \in On(Aps[ap']) : held'[i] # NotHeld
    BY <1>1, <1>4 DEF Planning, On
  <2>3. ASSUME stage' = "write"
        PROVE  Targeted'
    <3>1. writes /\ apply /\ plan' = decided /\ row' = row
      BY <1>1, <2>3
    <3>2. Drafted(decided, a, b) /\ a \in Interfaces /\ b \in Interfaces
      BY <1>3, <1>5, <1>6, <3>1
    <3>3. decided.action = "create" => decided.replaced = Unmatched
      BY <3>2 DEF Drafted, Planned, NoPlan
    <3>4. decided.action = "update" =>
            /\ decided.cable \in DOMAIN cables' /\ decided.replaced \in Interfaces
            /\ \E h \in {a, b} : cables'[decided.cable] \in
                 {<<{h}, {decided.replaced}>>, <<{decided.replaced}, {h}>>}
      BY <1>1, <3>2 DEF Drafted, Between
    <3>5. apply' /\ row' <= Len(Rows') /\ Rows'[row'] = <<a, b>>
      BY <1>1, <1>3, <3>1 DEF Rows
    <3>6. plan'.a = a /\ plan'.b = b /\ plan'.action \in {"create", "update"}
      BY <3>1, <3>2 DEF Drafted
    <3> QED
      BY <2>2, <3>1, <3>2, <3>3, <3>4, <3>5, <3>6 DEF Targeted, Between
  <2>4. noted' \subseteq Reported'
    <3>1. noted \subseteq Reported /\ Reported' = Reported
      BY <1>1 DEF Planning, Reported
    <3> QED
      BY <1>1, <1>2, <1>3, <3>1
  <2> QED
    BY <1>1, <2>1, <2>2, <2>3, <2>4 DEF Planning, Whole
<1> QED
  BY <1>11, <1>12, <1>13

(* A write is one of the row in hand, whether its answer comes or not.     *)
LEMMA WriteIs ==
  ASSUME IInv, stage = "write", Accepted, cables' = Written
  PROVE  /\ Rewired(WrittenId, plan.a, plan.b, plan.replaced)
         /\ Wired'
         /\ Records \subseteq Records'
         /\ Rows[row] \in Reported /\ Rows[row] = <<plan.a, plan.b>> /\ row \in DOMAIN Rows
<1> USE DEF IInv
<1>1. Rewired(WrittenId, plan.a, plan.b, plan.replaced)
  BY WriteRewires DEF Types, Planning
<1>2. Wired'
  <2>1. PICK id, a, b, gone : id = WrittenId /\ a = plan.a /\ b = plan.b /\ gone = plan.replaced
    OBVIOUS
  <2>2. Rewired(id, a, b, gone)
    BY <1>1, <2>1
  <2> QED
    BY <2>2, WiredByWrite
<1>3. Records \subseteq Records'
  BY <1>1, <1>2, RecordsGrow DEF Wired, Rewired
<1>4. Targeted
  BY DEF Planning
<1>5. Rows[row] \in Reported /\ row \in DOMAIN Rows
  BY <1>4, RowIs DEF Types, Targeted
<1> QED
  BY <1>1, <1>2, <1>3, <1>4, <1>5 DEF Targeted

LEMMA WriteRowIInv == IInv /\ WriteRow => IInv'
<1> SUFFICES ASSUME IInv, WriteRow
             PROVE  IInv'
  OBVIOUS
<1> USE DEF IInv
<1>1. /\ stage = "write" /\ Accepted /\ cables' = Written
      /\ held' = RecordCable(WrittenId)
      /\ changes' = TRUE
      /\ stage' = "rows" /\ row' = row + 1 /\ plan' = NoPlan
      /\ UNCHANGED <<apply, report, ap, issues, noted, ended, faults, edits>>
  BY DEF WriteRow, RowDone
<1>2. /\ Rewired(WrittenId, plan.a, plan.b, plan.replaced)
      /\ Wired'
  BY <1>1, WriteIs
<1>3. PICK id : id = WrittenId
  OBVIOUS
<1>4. id \in Nat /\ id <= Len(cables') /\ Len(cables) <= Len(cables')
  BY <1>2, <1>3 DEF Rewired
<1>5. Len(cables) \in Nat /\ Len(cables') \in Nat
  BY <1>2 DEF Wired
<1>6. ASSUME NEW i \in Interfaces
      PROVE  /\ held'[i] \in Records'
             /\ held[i] # NotHeld => held'[i] # NotHeld
             /\ held'[i] # NotHeld => held'[i].known
  <2>1. RecordCable(id)[i] \in [known : BOOLEAN, cable : 0..Len(cables'), direct : BOOLEAN,
                                reaches : SUBSET Interfaces]
    BY <1>4, <1>5, RecordCableIs
  <2>2. /\ held[i] = NotHeld => RecordCable(id)[i] = NotHeld
        /\ held[i] # NotHeld => RecordCable(id)[i] # NotHeld /\ RecordCable(id)[i].known
    BY <1>4, RecordCableIs
  <2> QED
    BY <1>1, <1>3, <2>1, <2>2 DEF Records
<1>7. held' \in [Interfaces -> Records']
  BY <1>1, <1>6 DEF RecordCable
<1>8. NoPlan.action = "none"
  BY DEF NoPlan
<1>9. row' \in Nat \ {0}
  BY <1>1 DEF Types
<1>10. Types'
  BY <1>1, <1>7, <1>8, <1>9 DEF Types
<1>11. Planning'
  <2>1. ap > 0
    BY <1>1 DEF Planning, Targeted
  <2>2. \A i \in On(Aps[ap]) : held'[i] # NotHeld
    BY <1>1, <1>6 DEF Planning, On
  <2> QED
    BY <1>1, <1>6, <2>1, <2>2 DEF Planning, Whole, Reported
<1> QED
  BY <1>2, <1>10, <1>11

LEMMA WriteFailsIInv == IInv /\ WriteFails => IInv'
<1> SUFFICES ASSUME IInv, WriteFails
             PROVE  IInv'
  OBVIOUS
<1> USE DEF IInv
<1>1. /\ stage = "write" /\ issues' = TRUE
      /\ stage' = "rows" /\ row' = row + 1 /\ plan' = NoPlan
      /\ UNCHANGED <<apply, report, ap, held, changes, noted, ended, edits>>
      /\ faults' = faults \/ (faults < Faults /\ faults' = faults + 1)
      /\ cables' = cables \/ (Accepted /\ cables' = Written)
  BY DEF WriteFails, RowDone
<1>2. Wired' /\ Records \subseteq Records'
  <2>1. CASE cables' = cables
    BY <2>1 DEF Wired, CablesOn, Records
  <2>2. CASE Accepted /\ cables' = Written
    BY <1>1, <2>2, WriteIs
  <2> QED
    BY <1>1, <2>1, <2>2
<1>3. held' \in [Interfaces -> Records']
  BY <1>1, <1>2 DEF Types
<1>4. NoPlan.action = "none"
  BY DEF NoPlan
<1>5. row' \in Nat \ {0}
  BY <1>1 DEF Types
<1>6. faults' \in 0 .. Faults
  BY <1>1, BoundsAssumption DEF Types
<1>7. Types'
  BY <1>1, <1>3, <1>4, <1>5, <1>6 DEF Types
<1>8. Planning'
  <2>1. ap > 0
    BY <1>1 DEF Planning, Targeted
  <2> QED
    BY <1>1, <2>1 DEF Planning, Whole, On, Reported
<1> QED
  BY <1>2, <1>7, <1>8

(* The steps that touch neither NetBox nor a record.                       *)
LEMMA TurnIInv ==
  IInv /\ (ReadFails \/ ApDone \/ EndRun \/ StartRun \/ UNCHANGED vars) => IInv'
<1> SUFFICES ASSUME IInv, ReadFails \/ ApDone \/ EndRun \/ StartRun \/ UNCHANGED vars
             PROVE  IInv'
  OBVIOUS
<1> USE DEF IInv
<1>1. cables' = cables
  BY DEF ReadFails, ApDone, EndRun, StartRun, vars
<1>2. Wired' /\ Records' = Records
  BY <1>1 DEF Wired, CablesOn, Records
<1>3. CASE ApDone
  <2>1. Types'
    BY <1>2, <1>3 DEF ApDone, Types
  <2>2. Planning'
    BY <1>3 DEF ApDone, Planning, Whole, Reported
  <2> QED
    BY <1>2, <2>1, <2>2
<1>4. CASE EndRun
  <2>1. Status \in {"ok", "drift", "changed", "partial"}
    BY DEF Status
  <2>2. /\ ended' = Append(ended, Status)
        /\ ended \in Seq({"ok", "drift", "changed", "partial", "error"})
    BY <1>4 DEF EndRun, Types
  <2>3. ended' \in Seq({"ok", "drift", "changed", "partial", "error"}) /\ ended' # <<>>
    BY <2>1, <2>2
  <2>4. Last(ended') = Status
    BY <2>1, <2>2 DEF Last
  <2>5. Types'
    BY <1>2, <1>4, <2>3 DEF EndRun, Types
  <2>6. Status' = Status
    BY <1>4 DEF EndRun, Status
  <2>7. Planning'
    BY <1>4, <2>3, <2>4, <2>6 DEF EndRun, Planning, Whole, Reported
  <2> QED
    BY <1>2, <2>5, <2>7
<1>5. CASE StartRun
  <2>1. NotHeld \in Records
    BY DEF Wired, Records, NotHeld, NoCable
  <2>2. held' \in [Interfaces -> Records'] /\ \A i \in Interfaces : held'[i] = NotHeld
    BY <1>2, <1>5, <2>1 DEF StartRun
  <2>3. 0 \in 0 .. Len(Aps)
    BY ReportsAssumption
  <2>4. Types'
    BY <1>5, <2>2, <2>3 DEF StartRun, Types
  <2>5. Planning'
    BY <1>5, <2>2 DEF StartRun, Planning, Whole
  <2> QED
    BY <1>2, <2>4, <2>5
<1>6. CASE UNCHANGED vars
  <2>1. Types'
    BY <1>2, <1>6 DEF vars, Types
  <2>2. Planning'
    BY <1>6 DEF vars, Planning, Whole, Targeted, Rows, Between, Status, Reported
  <2> QED
    BY <1>2, <2>1, <2>2
<1>7. CASE ReadFails
  <2>1. /\ ended' = Append(ended, "error")
        /\ ended \in Seq({"ok", "drift", "changed", "partial", "error"})
    BY <1>7 DEF ReadFails, Types
  <2>2. ended' \in Seq({"ok", "drift", "changed", "partial", "error"}) /\ ended' # <<>>
    BY <2>1
  <2>3. Last(ended') = "error"
    BY <2>1 DEF Last
  <2>4. faults' \in 0 .. Faults
    BY <1>7, BoundsAssumption DEF ReadFails, Types
  <2>5. Types'
    BY <1>2, <1>7, <2>2, <2>4 DEF ReadFails, Types
  <2>6. Planning'
    BY <1>7, <2>2, <2>3 DEF ReadFails, Planning, Whole, Reported
  <2> QED
    BY <1>2, <2>5, <2>6
<1> QED
  BY <1>3, <1>4, <1>5, <1>6, <1>7

(* A person keeps to NetBox's rules too.                                   *)
LEMMA PersonEditsIInv == IInv /\ PersonEdits => IInv'
<1> SUFFICES ASSUME IInv, PersonEdits
             PROVE  IInv'
  OBVIOUS
<1> USE DEF IInv
<1> DEFINE Side == (SUBSET Terminations) \X (SUBSET Terminations)
<1>1. /\ edits < Changes /\ edits' = edits + 1
      /\ UNCHANGED <<apply, report, held, stage, ap, row, plan, issues, changes,
                     noted, ended, faults>>
  BY DEF PersonEdits
<1>2. cables \in Seq(Side) /\ Len(cables) \in Nat /\ DOMAIN cables = 1 .. Len(cables)
  BY DEF Wired
<1>3. ASSUME NEW n \in DOMAIN cables, cables' = [cables EXCEPT ![n] = Deleted]
      PROVE  /\ Wired' /\ Len(cables') = Len(cables) /\ DOMAIN cables' = DOMAIN cables
             /\ \A k \in DOMAIN cables : cables'[k] \in {cables[k], Deleted}
  <2>1. Deleted \in Side /\ Deleted[1] = {} /\ Deleted[2] = {}
    BY DEF Deleted
  <2>2. cables' \in Seq(Side) /\ Len(cables') = Len(cables) /\ DOMAIN cables' = DOMAIN cables
    BY <1>2, <1>3, <2>1
  <2>3. \A k \in DOMAIN cables : cables'[k] \in {cables[k], Deleted}
    BY <1>3
  <2>4. \A t : CablesOn(t)' \subseteq CablesOn(t)
    BY <2>1, <2>2, <2>3 DEF CablesOn
  <2>5. \A k \in DOMAIN cables' : \A s \in {1, 2} : cables'[k][s] \subseteq cables[k][s]
    BY <2>1, <2>2, <2>3
  <2> QED
    BY <2>2, <2>3, <2>4, <2>5 DEF Wired
<1>4. ASSUME NEW i \in Interfaces, NEW j \in Interfaces, DeviceOf[i] # DeviceOf[j],
             CableOn(i) = NoCable, CableOn(j) = NoCable, cables' = Append(cables, <<{i}, {j}>>)
      PROVE  /\ Wired' /\ Len(cables') = Len(cables) + 1
             /\ \A k \in DOMAIN cables : k \in DOMAIN cables' /\ cables'[k] = cables[k]
  <2>1. i \in Terminations /\ j \in Terminations
    BY DEF Terminations
  <2>2. <<{i}, {j}>> \in Side
    BY <2>1
  <2>3. /\ cables' \in Seq(Side) /\ Len(cables') = Len(cables) + 1
        /\ cables'[Len(cables) + 1] = <<{i}, {j}>>
        /\ \A k \in 1 .. Len(cables) : cables'[k] = cables[k]
    BY <1>2, <1>4, <2>2
  <2>4. CablesOn(i) = {} /\ CablesOn(j) = {}
    BY <1>4, <2>1, OnOrFree DEF Free
  <2>5. \A k \in DOMAIN cables : {i, j} \cap (cables[k][1] \cup cables[k][2]) = {}
    BY <2>4 DEF CablesOn
  <2>6. Rewired(Len(cables) + 1, i, j, Unmatched)
    <3>1. DOMAIN cables' = DOMAIN cables \cup {Len(cables) + 1} /\ Len(cables) + 1 \notin DOMAIN cables
      BY <1>2, <2>3
    <3>2. Len(cables) + 1 \in Nat \ {0} /\ Len(cables) <= Len(cables') /\ Len(cables) + 1 <= Len(cables')
      BY <1>2, <2>3
    <3> QED
      BY <1>2, <1>4, <2>3, <2>5, <3>1, <3>2 DEF Rewired
  <2>7. PICK id : id = Len(cables) + 1
    OBVIOUS
  <2>8. Wired'
    BY <2>6, <2>7, WiredByWrite
  <2>9. \A k \in DOMAIN cables : k \in DOMAIN cables' /\ cables'[k] = cables[k]
    BY <1>2, <2>3
  <2> QED
    BY <2>3, <2>8, <2>9
<1>5. /\ Wired' /\ Len(cables) <= Len(cables')
      /\ \A k \in DOMAIN cables : k \in DOMAIN cables' /\ cables'[k] \in {cables[k], Deleted}
  <2>1. \/ \E n \in DOMAIN cables : cables' = [cables EXCEPT ![n] = Deleted]
        \/ \E i, j \in Interfaces :
              /\ DeviceOf[i] # DeviceOf[j] /\ CableOn(i) = NoCable /\ CableOn(j) = NoCable
              /\ cables' = Append(cables, <<{i}, {j}>>)
    BY DEF PersonEdits
  <2>2. CASE \E n \in DOMAIN cables : cables' = [cables EXCEPT ![n] = Deleted]
    <3>1. /\ Wired' /\ Len(cables') = Len(cables) /\ DOMAIN cables' = DOMAIN cables
          /\ \A k \in DOMAIN cables : cables'[k] \in {cables[k], Deleted}
      BY <1>3, <2>2
    <3> QED
      BY <1>2, <3>1
  <2>3. CASE \E i, j \in Interfaces :
               /\ DeviceOf[i] # DeviceOf[j] /\ CableOn(i) = NoCable /\ CableOn(j) = NoCable
               /\ cables' = Append(cables, <<{i}, {j}>>)
    BY <1>2, <1>4, <2>3
  <2> QED
    BY <2>1, <2>2, <2>3
<1>6. held' \in [Interfaces -> Records']
  <2>1. Records \subseteq Records'
    BY <1>2, <1>5, RecordsGrow DEF Wired
  <2> QED
    BY <1>1, <2>1 DEF Types
<1>7. edits' \in 0 .. Changes
  BY <1>1, BoundsAssumption DEF Types
<1>8. Types'
  BY <1>1, <1>6, <1>7 DEF Types
<1>9. Planning'
  <2>1. Targeted => Targeted'
    BY <1>1, <1>5 DEF Targeted, Rows, Between, Deleted
  <2>2. Status' = Status
    BY <1>1 DEF Status
  <2> QED
    BY <1>1, <2>1, <2>2 DEF Planning, Whole, Reported
<1> QED
  BY <1>5, <1>8, <1>9

LEMMA NextIInv == IInv /\ [Next]_vars => IInv'
BY NextApIInv, PlanRowIInv, WriteRowIInv, WriteFailsIInv, TurnIInv, PersonEditsIInv DEF Next

(* So TypeOK holds too: what is on one cable at most has at most one.      *)
LEMMA IInvTypes == IInv => TypeOK
<1> SUFFICES ASSUME IInv
             PROVE  TypeOK
  OBVIOUS
<1>1. ASSUME NEW t \in Terminations
      PROVE  Cardinality(CablesOn(t)) <= 1
  <2>1. Free(t) \/ \E id : OnCable(t, id)
    BY OnOrFree DEF IInv
  <2>2. CablesOn(t) = {} \/ \E id : CablesOn(t) = {id}
    BY <2>1 DEF Free, OnCable
  <2>3. CablesOn(t) = {} => Cardinality(CablesOn(t)) = 0
    BY FS_EmptySet
  <2>4. \A id : CablesOn(t) = {id} => Cardinality(CablesOn(t)) = 1
    BY FS_Singleton
  <2> QED
    BY <2>2, <2>3, <2>4
<1> QED
  BY <1>1 DEF IInv, Types, Wired, TypeOK

(* The state is always typed, and NetBox has one cable per termination.    *)
THEOREM TypeCorrect == Spec => []TypeOK
<1>1. Spec => []IInv
  BY InitIInv, NextIInv, PTL DEF Spec
<1> QED
  BY <1>1, IInvTypes, PTL

-----------------------------------------------------------------------------
(* What a write does to the links reported.                                *)

(* The link written is in NetBox after it.                                 *)
LEMMA OwnLinkJoined ==
  ASSUME Wired, NEW id, NEW a, NEW b, NEW gone, Rewired(id, a, b, gone),
         NEW x, NEW y, {x, y} = {a, b}, x # y
  PROVE  Joined(x, y)' /\ SameCable(x, y)'
<1>1. /\ CableOn(x)' = id /\ LinkPeers(x)' = {a, b} \ {x}
      /\ CableOn(y)' = id
  BY JoinedByWrite
<1>2. id # NoCable /\ y \in Interfaces
  BY DEF Rewired, NoCable
<1>3. y \in LinkPeers(x)'
  BY <1>1
<1> QED
  BY <1>1, <1>2, <1>3 DEF Joined, SameCable, ConnectedEndpoints

(* Every other keeps what it was.                                          *)
LEMMA LinksAfterWrite ==
  ASSUME OnePerPort, IInv, stage = "write", Accepted, cables' = Written,
         NEW link \in Reported, Unmatched \notin Ends(link)
  PROVE  \/ Joined(link[1], link[2])' /\ SameCable(link[1], link[2])'
         \/ /\ Joined(link[1], link[2])' <=> Joined(link[1], link[2])
            /\ SameCable(link[1], link[2])' <=> SameCable(link[1], link[2])
            /\ Idle(link[1], link[2]) => Idle(link[1], link[2])'
<1>1. PICK id, a, b, gone : id = WrittenId /\ a = plan.a /\ b = plan.b /\ gone = plan.replaced
  OBVIOUS
<1>2. /\ Rewired(id, a, b, gone)
      /\ Rows[row] \in Reported /\ Rows[row] = <<a, b>>
  BY <1>1, WriteIs
<1>3. PICK x, y : x = link[1] /\ y = link[2]
  OBVIOUS
<1>4. x \in Interfaces /\ y \in Interfaces /\ x # y
  BY <1>3, LinkIs DEF IInv, Types
<1>5. {x, y} = {a, b} \/ {x, y} \cap {a, b} = {}
  <2>1. Ends(link) = Ends(Rows[row]) \/ Ends(link) \cap Ends(Rows[row]) = {}
    BY <1>2, LinksApart DEF IInv, Types
  <2> QED
    BY <1>2, <1>3, <2>1 DEF Ends
<1>6. CASE {x, y} = {a, b}
  BY <1>2, <1>3, <1>4, <1>6, OwnLinkJoined DEF IInv
<1>7. CASE {x, y} \cap {a, b} = {}
  <2>1. x \in Interfaces \ {a, b} /\ y \in Interfaces \ {a, b}
    BY <1>4, <1>7
  <2> QED
    BY <1>2, <1>3, <1>4, <2>1, OtherLinkKept DEF IInv
<1> QED
  BY <1>5, <1>6, <1>7

(* A link in NetBox has matched ports.                                     *)
LEMMA JoinedMatched ==
  ASSUME Wired, NEW link, Joined(link[1], link[2])
  PROVE  Unmatched \notin Ends(link)
<1>1. link[2] \in Interfaces
  BY DEF Joined, ConnectedEndpoints
<1>2. link[1] \in Terminations
  <2>1. LinkPeers(link[1]) # {}
    BY DEF Joined, ConnectedEndpoints
  <2>2. CablesOn(link[1]) # {}
    BY <2>1, NoneOn DEF Free
  <2> QED
    BY <2>2, PeersAre
<1> QED
  BY <1>1, <1>2, PortsAssumption DEF Ends, Terminations

(* No step of the program takes a reported link out of NetBox.             *)
LEMMA StepKeepsLinks ==
  ASSUME OnePerPort, IInv, [Next]_vars, edits' = edits, NEW link \in Reported,
         Joined(link[1], link[2])
  PROVE  link[2] \in ConnectedEndpoints(link[1])'
<1>1. cables' = cables \/ (stage = "write" /\ Accepted /\ cables' = Written)
  <2>1. ~PersonEdits
    <3>1. edits \in Nat
      BY BoundsAssumption DEF IInv, Types
    <3> QED
      BY <3>1 DEF PersonEdits
  <2> QED
    BY <2>1 DEF Next, vars, NextAp, PlanRow, WriteRow, WriteFails, ReadFails, ApDone, EndRun, StartRun
<1>2. CASE cables' = cables
  BY <1>2 DEF Joined, ConnectedEndpoints, LinkPeers, CablesOn
<1>3. CASE stage = "write" /\ Accepted /\ cables' = Written
  <2>1. Unmatched \notin Ends(link)
    BY JoinedMatched DEF IInv
  <2>2. Joined(link[1], link[2])'
    BY <1>3, <2>1, LinksAfterWrite
  <2> QED
    BY <2>2 DEF Joined
<1> QED
  BY <1>1, <1>2, <1>3

(* So correcting one neighbor never undoes another, whatever went wrong    *)
(* before and whoever else wrote.                                          *)
THEOREM LinksKept ==
  ASSUME OnePerPort
  PROVE  Spec => KeepsReportedLinks
<1>1. IInv /\ [Next]_vars =>
        [edits' = edits =>
           \A link \in Reported :
             Joined(link[1], link[2]) => link[2] \in ConnectedEndpoints(link[1])']_vars
  BY StepKeepsLinks
<1>2. Spec => []IInv
  BY InitIInv, NextIInv, PTL DEF Spec
<1> QED
  BY <1>1, <1>2, PTL DEF Spec, KeepsReportedLinks

-----------------------------------------------------------------------------
(* The records stay faithful.                                              *)

(* Reading more of them, or letting go of some, does no harm.              *)
LEMMA RefreshedFaithful ==
  ASSUME IInv, Faithful, cables' = cables, report' = report,
         \A i \in Interfaces : held'[i] \in {held[i], Read(i), NotHeld}
  PROVE  Faithful'
<1>1. Reported' = Reported
  BY DEF Reported
<1>2. \A t : /\ CableOn(t)' = CableOn(t) /\ LinkPeers(t)' = LinkPeers(t)
              /\ ConnectedEndpoints(t)' = ConnectedEndpoints(t)
  BY DEF CableOn, LinkPeers, ConnectedEndpoints, CablesOn
<1>3. ASSUME NEW i \in Interfaces, held'[i] # NotHeld
      PROVE  Exact(held[i], i)'
  <2>1. Exact(held'[i], i)
    <3>1. CASE held'[i] = Read(i)
      BY <3>1, ReadIsExact DEF IInv
    <3>2. CASE held'[i] = held[i]
      BY <1>3, <3>2 DEF Faithful
    <3> QED
      BY <1>3, <3>1, <3>2
  <2> QED
    BY <1>2, <2>1 DEF Exact
<1>4. ASSUME NEW link \in Reported, Unmatched \notin Ends(link), held'[link[1]] # NotHeld
      PROVE  Traced(held[link[1]], link[1], link[2])'
  <2>1. PICK x, y : x = link[1] /\ y = link[2]
    OBVIOUS
  <2>2. x \in Interfaces
    BY <1>4, <2>1, LinkIs DEF IInv, Types
  <2>3. Traced(held'[x], x, y)
    <3>1. CASE held'[x] = Read(x)
      BY <2>2, <3>1, ReadIsExact DEF IInv
    <3>2. CASE held'[x] = held[x]
      BY <1>4, <2>1, <3>2 DEF Faithful
    <3> QED
      BY <1>4, <2>1, <2>2, <3>1, <3>2
  <2> QED
    BY <1>2, <2>1, <2>3 DEF Traced, SameCable, Joined
<1> QED
  BY <1>1, <1>3, <1>4 DEF Faithful

(* record_cable notes all that the write changed.                          *)
LEMMA RecordedFaithful ==
  ASSUME OnePerPort, IInv, Faithful, WriteRow
  PROVE  Faithful'
<1> USE DEF IInv
<1>1. /\ stage = "write" /\ Accepted /\ cables' = Written
      /\ held' = RecordCable(WrittenId) /\ report' = report
  BY DEF WriteRow
<1>2. PICK id, a, b, gone : id = WrittenId /\ a = plan.a /\ b = plan.b /\ gone = plan.replaced
  OBVIOUS
<1>3. Rewired(id, a, b, gone)
  BY <1>1, <1>2, WriteIs
<1>4. id \in Nat /\ a \in Interfaces /\ b \in Interfaces
  BY <1>3 DEF Rewired
<1>5. Reported' = Reported
  BY <1>1 DEF Reported
<1>6. ASSUME NEW i \in Interfaces, held'[i] # NotHeld
      PROVE  held[i] # NotHeld /\ held'[i].reaches = held[i].reaches
  BY <1>1, <1>2, <1>4, <1>6, RecordCableIs
<1>7. ASSUME NEW i \in Interfaces, held'[i] # NotHeld
      PROVE  Exact(held[i], i)'
  <2>1. held[i] # NotHeld
    BY <1>6, <1>7
  <2>2. CASE i \in {a, b}
    <3>1. held'[i].cable = id /\ held'[i].direct = TRUE
      BY <1>1, <1>2, <1>4, <2>1, <2>2, RecordCableIs
    <3>2. CableOn(i)' = id /\ LinkPeers(i)' = {a, b} \ {i}
      BY <1>3, <2>2, JoinedByWrite
    <3>3. LinkPeers(i)' \subseteq Interfaces
      BY <1>4, <3>2
    <3> QED
      BY <3>1, <3>2, <3>3 DEF Exact
  <2>3. CASE i \notin {a, b} /\ i = gone
    <3>1. held'[i].cable = NoCable /\ held'[i].direct = TRUE
      BY <1>1, <1>2, <1>4, <2>1, <2>3, RecordCableIs
    <3>2. Free(gone)'
      BY <1>3, <2>3, TakenByWrite
    <3>3. CableOn(i)' = NoCable /\ LinkPeers(i)' = {}
      BY <2>3, <3>2 DEF Free
    <3> QED
      BY <3>1, <3>3 DEF Exact
  <2>4. CASE i \notin {a, b, gone}
    <3>1. held'[i] = held[i]
      BY <1>1, <1>2, <1>4, <2>4, RecordCableIs
    <3>2. CableOn(i)' = CableOn(i) /\ LinkPeers(i)' = LinkPeers(i)
      BY <1>3, <2>4, KeptByWrite
    <3>3. Exact(held[i], i)
      BY <2>1 DEF Faithful
    <3> QED
      BY <3>1, <3>2, <3>3 DEF Exact
  <2> QED
    BY <2>2, <2>3, <2>4
<1>8. ASSUME NEW link \in Reported, Unmatched \notin Ends(link), held'[link[1]] # NotHeld
      PROVE  Traced(held[link[1]], link[1], link[2])'
  <2>1. link[1] \in Interfaces
    BY <1>8, LinkIs DEF Types
  <2>2. held[link[1]] # NotHeld /\ held'[link[1]].reaches = held[link[1]].reaches
    BY <1>6, <1>8, <2>1
  <2>3. Traced(held[link[1]], link[1], link[2])
    BY <1>8, <2>2 DEF Faithful
  <2>4. \/ SameCable(link[1], link[2])'
        \/ /\ Joined(link[1], link[2])' <=> Joined(link[1], link[2])
           /\ SameCable(link[1], link[2])' <=> SameCable(link[1], link[2])
    BY <1>1, <1>8, LinksAfterWrite
  <2> QED
    BY <2>2, <2>3, <2>4 DEF Traced
<1> QED
  BY <1>5, <1>7, <1>8 DEF Faithful

LEMMA InitCurrent == Init => Current
<1> SUFFICES ASSUME Init
             PROVE  Faithful
  BY DEF Current
<1>1. IInv
  BY InitIInv
<1>2. \A i \in Interfaces : held[i] = NotHeld
  BY DEF Init
<1>3. \A link \in Reported : Unmatched \notin Ends(link) => link[1] \in Interfaces
  BY <1>1, LinkIs DEF IInv, Types
<1> QED
  BY <1>2, <1>3 DEF Faithful

LEMMA NextCurrent ==
  ASSUME OnePerPort, IInv, Current, [Next]_vars
  PROVE  Current'
<1> SUFFICES ASSUME Undisturbed'
             PROVE  Faithful'
  BY DEF Current
<1> USE DEF IInv
<1>1. edits \in Nat /\ faults \in Nat /\ issues \in BOOLEAN
  BY BoundsAssumption DEF Types
<1>2. CASE NextAp
  <2>1. Undisturbed
    BY <1>2 DEF NextAp, Undisturbed
  <2> DEFINE own == On(Aps[ap + 1]) \cup (IF ap > 0 THEN On(Aps[ap]) ELSE {})
             kept == [i \in Interfaces |-> IF i \in own THEN NotHeld ELSE held[i]]
  <2>2. held' = WithDevice(kept, Aps[ap + 1])
    BY <1>2 DEF NextAp
  <2>3. NotHeld \in Records
    BY DEF Wired, Records, NotHeld, NoCable
  <2>4. kept \in [Interfaces -> Records]
    BY <2>3 DEF Types
  <2>5. \A i \in Interfaces : kept[i] \in {held[i], NotHeld}
    OBVIOUS
  <2> HIDE DEF kept
  <2>6. \A i \in Interfaces : held'[i] \in {kept[i], Read(i)}
    BY <2>2, <2>4, WithDeviceIs
  <2>7. \A i \in Interfaces : held'[i] \in {held[i], Read(i), NotHeld}
    BY <2>5, <2>6
  <2>8. Faithful /\ cables' = cables /\ report' = report
    BY <1>2, <2>1 DEF NextAp, Current
  <2> QED
    BY <2>7, <2>8, RefreshedFaithful
<1>3. CASE PlanRow
  <2>1. Undisturbed
    BY <1>1, <1>3 DEF PlanRow, Undisturbed
  <2>2. held' = held \/ \E device : held' = WithDevice(held, device)
    BY <1>3 DEF PlanRow
  <2>3. \A i \in Interfaces : held'[i] \in {held[i], Read(i), NotHeld}
    <3>1. held \in [Interfaces -> Records]
      BY DEF Types
    <3> QED
      BY <2>2, <3>1, WithDeviceIs
  <2>4. Faithful /\ cables' = cables /\ report' = report
    BY <1>3, <2>1 DEF PlanRow, Current
  <2> QED
    BY <2>3, <2>4, RefreshedFaithful
<1>4. CASE WriteRow
  <2>1. Undisturbed
    BY <1>4 DEF WriteRow, Undisturbed
  <2> QED
    BY <1>4, <2>1, RecordedFaithful DEF Current
<1>5. CASE WriteFails
  <2>1. faults' = 0 /\ edits' = 0
    BY <1>5 DEF WriteFails, Undisturbed
  <2>2. cables' = cables /\ faults = 0
    BY <1>1, <1>5, <2>1 DEF WriteFails
  <2>3. Undisturbed /\ held' = held /\ report' = report
    BY <1>5, <2>1, <2>2 DEF WriteFails, Undisturbed
  <2> QED
    BY <2>2, <2>3, RefreshedFaithful DEF Current
<1>6. CASE ReadFails \/ ApDone \/ EndRun \/ UNCHANGED vars
  <2>1. /\ Undisturbed /\ cables' = cables /\ held' = held /\ report' = report
    BY <1>1, <1>6 DEF ReadFails, ApDone, EndRun, vars, Undisturbed
  <2> QED
    BY <2>1, RefreshedFaithful DEF Current
<1>7. CASE StartRun
  <2>1. \A i \in Interfaces : held'[i] = NotHeld
    BY <1>7 DEF StartRun
  <2>2. Reported' = Reported
    BY <1>7 DEF StartRun, Reported
  <2>3. \A link \in Reported : Unmatched \notin Ends(link) => link[1] \in Interfaces
    BY LinkIs DEF Types
  <2> QED
    BY <2>1, <2>2, <2>3 DEF Faithful
<1>8. CASE PersonEdits
  BY <1>1, <1>8 DEF PersonEdits, Undisturbed
<1> QED
  BY <1>2, <1>3, <1>4, <1>5, <1>6, <1>7, <1>8 DEF Next

-----------------------------------------------------------------------------
(* The row in hand is planned from exact records, when nothing disturbed.  *)
LEMMA RowAgrees ==
  ASSUME IInv, Faithful, stage = "rows", row <= Len(Rows),
         NEW a, NEW b, a = Rows[row][1], b = Rows[row][2], Unmatched \notin {a, b}
  PROVE  /\ a \in Interfaces /\ b \in Interfaces /\ DeviceOf[a] # DeviceOf[b]
         /\ Rows[row] = <<a, b>> /\ Rows[row] \in Reported
         /\ Agrees(WithDevice(held, DeviceOf[b]), a, b)
<1> USE DEF IInv
<1>1. Rows[row] \in Reported /\ a \in On(Aps[ap])
  BY RowIs DEF Types, Planning
<1>2. /\ a \in Interfaces /\ b \in Interfaces /\ DeviceOf[a] # DeviceOf[b]
      /\ Rows[row] = <<a, b>>
  BY <1>1, LinkIs DEF Types, Ends
<1>3. PICK R : R = WithDevice(held, DeviceOf[b])
  OBVIOUS
<1>4. \A i \in Interfaces : /\ held[i] # NotHeld => R[i] = held[i]
                            /\ R[i] \in {held[i], Read(i)}
                            /\ i \in On(DeviceOf[b]) => R[i] # NotHeld
  <2>1. PICK d : d = DeviceOf[b]
    OBVIOUS
  <2> QED
    BY <1>3, <2>1, WithDeviceIs DEF Types
<1>5. \A i \in Interfaces : R[i] # NotHeld => Exact(R[i], i)
  BY <1>4, ReadIsExact DEF Faithful
<1>6. held[a] # NotHeld /\ R[a] = held[a]
  BY <1>1, <1>2, <1>4 DEF Planning
<1>7. R[b] # NotHeld
  BY <1>2, <1>4 DEF On
<1>8. Traced(R[a], a, b)
  BY <1>1, <1>2, <1>6 DEF Faithful, Ends
<1>9. Agrees(R, a, b)
  BY <1>2, <1>5, <1>6, <1>7, <1>8 DEF Agrees
<1> QED
  BY <1>1, <1>2, <1>3, <1>9

LEMMA CurrentPlans == IInv /\ Current => PlanIsCurrent
<1> SUFFICES ASSUME IInv, Current, stage = "rows", row <= Len(Rows), faults + edits = 0,
                    NEW a, NEW b, a = Rows[row][1], b = Rows[row][2], Unmatched \notin {a, b}
             PROVE  PlanNeighborCable(WithDevice(held, DeviceOf[b]), a, b)
                      = PlanNeighborCable([i \in Interfaces |-> Read(i)], a, b)
  BY DEF PlanIsCurrent
<1>1. Faithful
  <2>1. faults = 0 /\ edits = 0
    BY BoundsAssumption DEF IInv, Types
  <2> QED
    BY <2>1 DEF Current, Undisturbed
<1>2. /\ a \in Interfaces /\ b \in Interfaces
      /\ Agrees(WithDevice(held, DeviceOf[b]), a, b)
  BY <1>1, RowAgrees
<1>3. Agrees([i \in Interfaces |-> Read(i)], a, b)
  BY <1>2, ReadIsExact DEF Agrees, IInv
<1>4. PICK R, S : R = WithDevice(held, DeviceOf[b]) /\ S = [i \in Interfaces |-> Read(i)]
  OBVIOUS
<1> QED
  BY <1>2, <1>3, <1>4, SamePlan

(* "A later plan in the same run (another AP on a freed switch port) sees  *)
(* NetBox as it now is" (cabling.py:250), as long as nobody else wrote and *)
(* no answer was lost.                                                     *)
THEOREM PlansCurrent ==
  ASSUME OnePerPort
  PROVE  Spec => []PlanIsCurrent
<1>1. IInv /\ Current /\ [Next]_vars => (IInv /\ Current)'
  BY NextIInv, NextCurrent
<1>2. Init => IInv /\ Current
  BY InitIInv, InitCurrent
<1>3. Spec => [](IInv /\ Current)
  BY <1>1, <1>2, PTL DEF Spec
<1> QED
  BY <1>3, CurrentPlans, PTL

-----------------------------------------------------------------------------
(* What was worked through is in NetBox, or left alone with a note.        *)

(* Without a write nothing about a link changes.                           *)
LEMMA LinksUntouched ==
  ASSUME cables' = cables
  PROVE  \A x, y : /\ Joined(x, y)' <=> Joined(x, y)
                   /\ Idle(x, y)' <=> Idle(x, y)
<1>1. \A t : /\ CableOn(t)' = CableOn(t) /\ LinkPeers(t)' = LinkPeers(t)
              /\ ConnectedEndpoints(t)' = ConnectedEndpoints(t)
  BY DEF CableOn, LinkPeers, ConnectedEndpoints, CablesOn
<1>2. \A id, t : RunsStraight(id, t)' <=> RunsStraight(id, t)
  BY DEF RunsStraight, Between
<1>3. \A x, y : Joined(x, y)' <=> Joined(x, y)
  BY <1>1 DEF Joined
<1>4. \A x, y : SameCable(x, y)' <=> SameCable(x, y)
  BY <1>1 DEF SameCable
<1>5. \A x, y : Foreign(x, y)' <=> Foreign(x, y)
  BY <1>1, <1>2 DEF Foreign
<1> QED
  BY <1>3, <1>4, <1>5 DEF Idle

(* A row done is one more worked through; the other steps of a run add     *)
(* none, and a new run has done none.                                      *)
LEMMA PassedNext ==
  ASSUME IInv, [Next]_vars, ~PersonEdits, NEW link, Passed(link)'
  PROVE  \/ ~StartRun /\ Passed(link)
         \/ /\ stage \in {"rows", "write"} /\ row \in DOMAIN Rows
            /\ row' = row + 1 /\ link = Rows[row]
<1> USE DEF IInv
<1>0. PICK k \in 1 .. ap' : \E n \in DOMAIN report'[Aps[k]] :
        /\ link = report'[Aps[k]][n]
        /\ k < ap' \/ stage' = "ap" \/ Whole' \/ n < row'
  BY DEF Passed
<1>1. PICK n \in DOMAIN report'[Aps[k]] :
        /\ link = report'[Aps[k]][n]
        /\ k < ap' \/ stage' = "ap" \/ Whole' \/ n < row'
  BY <1>0
<1>2. report' = report
  BY DEF Next, vars, NextAp, PlanRow, WriteRow, WriteFails, ReadFails, ApDone, EndRun, StartRun
<1>3. /\ ap \in Nat /\ row \in Nat \ {0}
  BY ReportsAssumption DEF Types
<1>4. ap' \in 0 .. Len(Aps)
  BY NextIInv DEF Types
<1>5. k \in Nat /\ k >= 1 /\ k <= Len(Aps) /\ Aps[k] \in Range(Aps)
  <2>1. k \in 1 .. Len(Aps) /\ DOMAIN Aps = 1 .. Len(Aps) /\ Len(Aps) \in Nat
    BY <1>4, ReportsAssumption
  <2> QED
    BY <2>1 DEF Range
<1>6. /\ DOMAIN report[Aps[k]] = 1 .. Len(report[Aps[k]])
      /\ Len(report[Aps[k]]) \in Nat
  BY <1>5, ReportsAssumption DEF Types
<1>7. n \in Nat /\ n >= 1 /\ n <= Len(report[Aps[k]]) /\ n \in DOMAIN report[Aps[k]]
  BY <1>1, <1>2, <1>6
<1>8. ASSUME k \in 1 .. ap, k < ap \/ stage = "ap" \/ Whole \/ n < row
      PROVE  Passed(link)
  BY <1>1, <1>2, <1>7, <1>8 DEF Passed
<1>9. CASE NextAp
  <2>1. stage = "ap" /\ ap' = ap + 1 /\ row' = 1 /\ stage' = "rows"
    BY <1>9 DEF NextAp
  <2>2. k \in 1 .. ap
    BY <1>1, <1>3, <1>5, <1>7, <2>1 DEF Whole
  <2>3. ~StartRun
    BY <2>1 DEF StartRun
  <2> QED
    BY <1>8, <2>1, <2>2, <2>3
<1>10. CASE PlanRow \/ WriteRow \/ WriteFails
  <2>1. /\ stage \in {"rows", "write"} /\ stage' \in {"rows", "write"} /\ ap' = ap
        /\ row' \in {row, row + 1}
    BY <1>10 DEF PlanRow, WriteRow, WriteFails, RowDone
  <2>2. ~StartRun
    BY <2>1 DEF StartRun
  <2>3. CASE k < ap \/ n < row
    BY <1>1, <1>8, <2>1, <2>2, <2>3
  <2>4. CASE ~(k < ap) /\ ~(n < row)
    <3>1. k = ap /\ n = row /\ row' = row + 1
      BY <1>1, <1>3, <1>5, <1>7, <2>1, <2>4 DEF Whole
    <3>2. link = Rows[row] /\ row \in DOMAIN Rows
      BY <1>1, <1>2, <1>7, <3>1 DEF Rows
    <3> QED
      BY <2>1, <3>1, <3>2
  <2> QED
    BY <2>3, <2>4
<1>11. CASE ApDone
  <2>1. stage = "rows" /\ row > Len(Rows) /\ ap' = ap
    BY <1>11 DEF ApDone
  <2>2. ~StartRun
    BY <2>1 DEF StartRun
  <2>3. k \in 1 .. ap
    BY <1>1, <2>1
  <2>4. k < ap \/ n < row
    <3>1. CASE k = ap
      BY <1>3, <1>7, <2>1, <3>1 DEF Rows
    <3> QED
      BY <1>3, <2>3, <3>1
  <2> QED
    BY <1>8, <2>2, <2>3, <2>4
<1>12. CASE EndRun \/ UNCHANGED vars
  <2>1. ap' = ap /\ row' = row /\ (EndRun => stage = "ap") /\ (~EndRun => stage' = stage)
    BY <1>12 DEF EndRun, vars
  <2>2. stage' = "ap" \/ Whole' => stage = "ap" \/ Whole
    BY <1>12, <2>1 DEF Whole, vars
  <2>3. StartRun => FALSE
    <3>1. StartRun => stage = "idle" /\ stage' = "ap"
      BY DEF StartRun
    <3> QED
      BY <1>12, <2>1, <3>1
  <2> QED
    BY <1>1, <1>8, <2>1, <2>2, <2>3
<1>13. CASE StartRun
  <2>1. ap' = 0
    BY <1>13 DEF StartRun
  <2> QED
    BY <1>1, <2>1
<1>14. CASE ReadFails
  <2>1. /\ stage = "rows" /\ stage' = "idle" /\ ap' = ap /\ row' = row
        /\ ended' = Append(ended, "error") /\ ended \in Seq({"ok", "drift", "changed", "partial", "error"})
    BY <1>14 DEF ReadFails, Types
  <2>2. Last(ended') = "error"
    BY <2>1 DEF Last
  <2>3. ~StartRun
    BY <2>1 DEF StartRun
  <2> QED
    BY <1>1, <1>8, <2>1, <2>2, <2>3 DEF Whole
<1> QED
  BY <1>9, <1>10, <1>11, <1>12, <1>13, <1>14 DEF Next

(* What planning the row in hand decides, when nothing disturbed.          *)
LEMMA RowDecided ==
  ASSUME IInv, Current, PlanRow, edits = 0, ~issues'
  PROVE  LET link == Rows[row] IN
         /\ ~issues
         /\ link \in Reported /\ Unmatched \notin Ends(link)
         /\ \/ Joined(link[1], link[2]) /\ noted' = noted /\ changes' = changes /\ plan' = NoPlan
            \/ /\ Foreign(link[1], link[2]) /\ noted' = noted \cup {link}
               /\ changes' = changes /\ plan' = NoPlan
            \/ /\ ~Idle(link[1], link[2]) /\ noted' = noted
               /\ apply /\ stage' = "write" /\ row' = row
            \/ /\ ~Idle(link[1], link[2]) /\ noted' = noted
               /\ ~apply /\ changes'
<1> USE DEF IInv
<1> DEFINE x == Rows[row][1]
           y == Rows[row][2]
           records == IF y = Unmatched THEN held ELSE WithDevice(held, DeviceOf[y])
           decided == IF Unmatched \in {x, y} THEN Planned("blocked", x, y)
                      ELSE PlanNeighborCable(records, x, y)
           writes == decided.action \in {"create", "update"}
<1>1. /\ stage = "rows" /\ row <= Len(Rows)
      /\ plan' = (IF writes /\ apply THEN decided ELSE NoPlan)
      /\ stage' = (IF writes /\ apply THEN "write" ELSE "rows")
      /\ row' = (IF writes /\ apply THEN row ELSE row + 1)
      /\ issues' = (issues \/ decided.action \in {"blocked", "conflict"})
      /\ changes' = (changes \/ (writes /\ ~apply))
      /\ noted' = (IF decided.action = "untouched" THEN noted \cup {<<x, y>>} ELSE noted)
  BY DEF PlanRow
<1>2. \A action, c, d : Planned(action, c, d).action = action
  BY DEF Planned, NoPlan
<1>3. Unmatched \notin {x, y} /\ ~issues
  <2>1. Unmatched \in {x, y} => decided.action = "blocked"
    BY <1>2
  <2> HIDE DEF x, y, records, decided
  <2>2. issues \in BOOLEAN
    BY DEF Types
  <2> QED
    BY <1>1, <2>1, <2>2
<1>4. decided = PlanNeighborCable(WithDevice(held, DeviceOf[y]), x, y)
  BY <1>3
<1>5. Faithful
  BY <1>3 DEF Current, Undisturbed
<1>6. PICK a, b : a = x /\ b = y
  OBVIOUS
<1> HIDE DEF x, y, records, decided
<1>7. /\ a \in Interfaces /\ b \in Interfaces /\ DeviceOf[a] # DeviceOf[b]
      /\ Rows[row] = <<a, b>> /\ Rows[row] \in Reported
      /\ Agrees(WithDevice(held, DeviceOf[b]), a, b)
  BY <1>1, <1>3, <1>5, <1>6, RowAgrees DEF x, y
<1>8. PICK R : R = WithDevice(held, DeviceOf[b])
  OBVIOUS
<1>9. /\ SameCable(a, b) \/ Joined(a, b) => decided = Planned("in-sync", a, b)
      /\ ~(SameCable(a, b) \/ Joined(a, b)) /\ Foreign(a, b) =>
           decided = Planned("untouched", a, b)
      /\ ~Idle(a, b) => decided.action \in {"create", "update", "conflict"}
  BY <1>4, <1>6, <1>7, <1>8, PlanFollows
<1>10. Ends(Rows[row]) = {x, y} /\ Rows[row][1] = a /\ Rows[row][2] = b
  BY <1>6, <1>7 DEF Ends
<1>11. CASE SameCable(a, b) \/ Joined(a, b)
  <2>1. Joined(a, b)
    BY <1>7, <1>11, SameCableJoins
  <2>2. decided.action = "in-sync"
    BY <1>2, <1>9, <1>11
  <2>3. noted' = noted /\ changes' = changes /\ plan' = NoPlan
    BY <1>1, <2>2 DEF Types
  <2> QED
    BY <1>3, <1>7, <1>10, <2>1, <2>3
<1>12. CASE ~(SameCable(a, b) \/ Joined(a, b)) /\ Foreign(a, b)
  <2>1. decided.action = "untouched"
    BY <1>2, <1>9, <1>12
  <2>2. noted' = noted \cup {Rows[row]} /\ changes' = changes /\ plan' = NoPlan
    BY <1>1, <1>6, <1>7, <2>1 DEF Types
  <2> QED
    BY <1>3, <1>7, <1>10, <1>12, <2>2
<1>13. CASE ~Idle(a, b)
  <2>1. decided.action \in {"create", "update"}
    BY <1>1, <1>9, <1>13
  <2>2. /\ noted' = noted
        /\ \/ apply /\ stage' = "write" /\ row' = row
           \/ ~apply /\ changes'
    BY <1>1, <2>1 DEF Types
  <2> QED
    BY <1>3, <1>7, <1>10, <1>13, <2>2
<1> QED
  BY <1>11, <1>12, <1>13 DEF Idle

LEMMA InitSettled == Init => Settled /\ Repeated
<1> SUFFICES ASSUME Init
             PROVE  Settled /\ Repeated
  OBVIOUS
<1>1. Settled
  BY DEF Init, Settled, Passed
<1>2. Repeated
  BY DEF Init, Repeated, GreenRunIsLast
<1> QED
  BY <1>1, <1>2

LEMMA NextSettled ==
  ASSUME OnePerPort, IInv, Current, Settled, [Next]_vars
  PROVE  Settled'
<1> SUFFICES ASSUME edits' = 0, ~issues'
             PROVE  /\ \A link \in noted' : IdleLink(link)'
                    /\ apply' \/ ~changes' =>
                         \A link \in Reported' : Passed(link)' =>
                           /\ Unmatched \notin Ends(link)
                           /\ Joined(link[1], link[2])' \/ link \in noted'
  BY DEF Settled, Ends
<1> USE DEF IInv
<1>1. edits \in Nat /\ changes \in BOOLEAN /\ apply \in BOOLEAN /\ issues \in BOOLEAN
  BY BoundsAssumption DEF Types
<1>2. ~PersonEdits /\ edits = 0
  <2>1. ~PersonEdits
    <3>1. PersonEdits => edits' = edits + 1
      BY DEF PersonEdits
    <3>2. edits + 1 # 0
      BY <1>1
    <3> QED
      BY <3>1, <3>2
  <2> QED
    BY <1>1, <2>1 DEF Next, vars, NextAp, PlanRow, WriteRow, WriteFails, ReadFails, ApDone, EndRun, StartRun
<1>3. Reported' = Reported /\ apply' = apply
  BY <1>2 DEF Next, vars, NextAp, PlanRow, WriteRow, WriteFails, ReadFails, ApDone, EndRun, StartRun, Reported
<1>4. CASE StartRun
  <2>1. noted' = {}
    BY <1>4 DEF StartRun
  <2>2. \A link : ~Passed(link)'
    <3>1. ap' = 0
      BY <1>4 DEF StartRun
    <3> QED
      BY <3>1 DEF Passed
  <2> QED
    BY <2>1, <2>2
<1>5. CASE NextAp \/ ReadFails \/ ApDone \/ EndRun \/ UNCHANGED vars
  <2>1. /\ cables' = cables /\ issues' = issues /\ changes' = changes /\ noted' = noted
    BY <1>5 DEF NextAp, ReadFails, ApDone, EndRun, vars
  <2>2. \A x, y : (Joined(x, y)' <=> Joined(x, y)) /\ (Idle(x, y)' <=> Idle(x, y))
    BY <2>1, LinksUntouched
  <2>3. ASSUME NEW link, Passed(link)'
        PROVE  Passed(link)
    <3>1. ~(stage \in {"rows", "write"} /\ row \in DOMAIN Rows /\ row' = row + 1)
      <4>1. row \in Nat \ {0}
        BY DEF Types
      <4>2. NextAp => stage = "ap"
        BY DEF NextAp
      <4>3. ReadFails \/ ApDone \/ EndRun \/ UNCHANGED vars => row' = row
        BY DEF ReadFails, ApDone, EndRun, vars
      <4> QED
        BY <1>5, <4>1, <4>2, <4>3
    <3> QED
      BY <1>2, <2>3, <3>1, PassedNext
  <2>4. \A link \in noted' : IdleLink(link)'
    BY <1>2, <2>1, <2>2 DEF Settled, IdleLink, Ends
  <2> QED
    BY <1>2, <1>3, <2>1, <2>2, <2>3, <2>4 DEF Settled
<1>6. CASE PlanRow
  <2>1. cables' = cables
    BY <1>6 DEF PlanRow
  <2>2. \A x, y : (Joined(x, y)' <=> Joined(x, y)) /\ (Idle(x, y)' <=> Idle(x, y))
    BY <2>1, LinksUntouched
  <2>3. PICK own : own = Rows[row]
    OBVIOUS
  <2>4. /\ ~issues
        /\ own \in Reported /\ Unmatched \notin Ends(own)
        /\ \/ Joined(own[1], own[2]) /\ noted' = noted /\ changes' = changes
           \/ Foreign(own[1], own[2]) /\ noted' = noted \cup {own} /\ changes' = changes
           \/ noted' = noted /\ apply /\ row' = row
           \/ noted' = noted /\ ~apply /\ changes'
    BY <1>2, <1>6, <2>3, RowDecided
  <2>5. \A link \in noted' : IdleLink(link)
    BY <1>2, <2>4 DEF Settled, IdleLink, Idle
  <2>6. \A link \in noted' : IdleLink(link)'
    BY <2>2, <2>5 DEF IdleLink, Ends
  <2>7. ASSUME apply \/ ~changes', NEW link \in Reported, Passed(link)'
        PROVE  Unmatched \notin Ends(link) /\ (Joined(link[1], link[2])' \/ link \in noted')
    <3>1. apply \/ ~changes
      BY <2>7, <1>6 DEF PlanRow
    <3>2. CASE Passed(link)
      <4>1. Unmatched \notin Ends(link) /\ (Joined(link[1], link[2]) \/ link \in noted)
        BY <1>2, <2>4, <3>1, <3>2 DEF Settled
      <4> QED
        BY <2>2, <2>4, <4>1
    <3>3. CASE link = own /\ row' = row + 1
      <4>1. row \in Nat
        BY DEF Types
      <4>2. Joined(own[1], own[2]) \/ own \in noted'
        BY <2>4, <2>7, <3>3, <4>1
      <4> QED
        BY <2>2, <2>4, <3>3, <4>2
    <3> QED
      BY <1>2, <2>3, <2>7, <3>2, <3>3, PassedNext
  <2> QED
    BY <1>3, <2>6, <2>7
<1>7. CASE WriteRow
  <2>1. /\ stage = "write" /\ Accepted /\ cables' = Written
        /\ issues' = issues /\ noted' = noted
    BY <1>7 DEF WriteRow
  <2>2. apply
    BY <2>1 DEF Planning, Targeted
  <2>3. noted \subseteq Reported
    BY DEF Planning
  <2>4. \A link \in Reported : Unmatched \notin Ends(link) =>
          /\ Joined(link[1], link[2]) => Joined(link[1], link[2])'
          /\ Idle(link[1], link[2]) => Idle(link[1], link[2])'
    <3> SUFFICES ASSUME NEW link \in Reported, Unmatched \notin Ends(link)
                 PROVE  /\ Joined(link[1], link[2]) => Joined(link[1], link[2])'
                        /\ Idle(link[1], link[2]) => Idle(link[1], link[2])'
      OBVIOUS
    <3>1. Joined(link[1], link[2])' => Idle(link[1], link[2])'
      BY DEF Idle
    <3> QED
      BY <2>1, <3>1, LinksAfterWrite
  <2>5. \A link \in noted' : IdleLink(link)'
    <3>1. \A link \in noted : IdleLink(link)
      BY <1>2, <2>1 DEF Settled
    <3> QED
      BY <2>1, <2>3, <2>4, <3>1 DEF IdleLink, Ends
  <2>6. ASSUME NEW link \in Reported, Passed(link)'
        PROVE  Unmatched \notin Ends(link) /\ (Joined(link[1], link[2])' \/ link \in noted')
    <3>1. CASE Passed(link)
      <4>1. Unmatched \notin Ends(link) /\ (Joined(link[1], link[2]) \/ link \in noted)
        BY <1>2, <2>1, <2>2, <3>1 DEF Settled
      <4> QED
        BY <2>1, <2>4, <4>1
    <3>2. CASE link = Rows[row]
      <4>1. PICK id, a, b, gone :
              id = WrittenId /\ a = plan.a /\ b = plan.b /\ gone = plan.replaced
        OBVIOUS
      <4>2. Rewired(id, a, b, gone) /\ link = <<a, b>>
        BY <2>1, <3>2, <4>1, WriteIs
      <4>3. a # b /\ Unmatched \notin {a, b}
        BY <4>2, PortsAssumption DEF Rewired, Terminations
      <4>4. Joined(a, b)'
        BY <4>2, <4>3, OwnLinkJoined
      <4>5. link[1] = a /\ link[2] = b
        BY <4>2
      <4>6. Joined(link[1], link[2])'
        BY <4>4, <4>5
      <4> QED
        BY <4>3, <4>5, <4>6 DEF Ends
    <3> QED
      BY <1>2, <2>6, <3>1, <3>2, PassedNext
  <2> QED
    BY <1>3, <2>5, <2>6
<1>8. ~WriteFails
  BY DEF WriteFails
<1> QED
  BY <1>2, <1>4, <1>5, <1>6, <1>7, <1>8 DEF Next

-----------------------------------------------------------------------------
(* After a green run with --apply no link needs a write, so the next plans *)
(* none and finds no issue.                                                *)
AfterGreen == stage # "idle" /\ ended # <<>> /\ Green(Last(ended))
NothingToDo == /\ stage # "write"
               /\ ~issues /\ ~changes
               /\ \A link \in Reported : IdleLink(link)

(* The next run starts with nothing to do.                                 *)
LEMMA GreenStart ==
  ASSUME IInv, Settled, StartRun, edits = 0, Green(Last(ended))
  PROVE  NothingToDo'
<1> USE DEF IInv
<1>1. /\ stage = "idle" /\ stage' = "ap" /\ ~issues' /\ ~changes'
      /\ cables' = cables /\ report' = report
  BY DEF StartRun
<1>2. Whole /\ ap = Len(Aps) /\ Last(ended) = Status
  BY <1>1 DEF Planning, Whole, Green
<1>3. ~issues /\ (apply \/ ~changes)
  BY <1>2 DEF Status, Green
<1>4. ASSUME NEW link \in Reported
      PROVE  IdleLink(link)
  <2>1. PICK d \in Range(Aps) : link \in Range(report[d])
    BY DEF Reported
  <2>2. PICK k \in DOMAIN Aps : d = Aps[k]
    BY <2>1 DEF Range
  <2>3. k \in 1 .. ap
    BY <1>2, ReportsAssumption
  <2>4. PICK n \in DOMAIN report[Aps[k]] : link = report[Aps[k]][n]
    BY <2>1, <2>2 DEF Range
  <2>5. Passed(link)
    BY <1>2, <2>3, <2>4 DEF Passed
  <2>6. Unmatched \notin Ends(link) /\ (Joined(link[1], link[2]) \/ link \in noted)
    BY <1>3, <2>5 DEF Settled
  <2> QED
    BY <1>3, <2>6 DEF Settled, IdleLink, Idle
<1>5. \A x, y : Idle(x, y)' <=> Idle(x, y)
  BY <1>1, LinksUntouched
<1>6. \A link : IdleLink(link)' <=> IdleLink(link)
  BY <1>5 DEF IdleLink, Ends
<1>7. Reported' = Reported
  BY <1>1 DEF Reported
<1> QED
  BY <1>1, <1>4, <1>6, <1>7 DEF NothingToDo

(* And every step of it leaves it at that.                                 *)
LEMMA GreenStays ==
  ASSUME IInv, Current, NothingToDo, [Next]_vars, ~PersonEdits, ~StartRun, edits = 0
  PROVE  NothingToDo'
<1> USE DEF IInv
<1>1. ~WriteRow /\ ~WriteFails
  BY DEF NothingToDo, WriteRow, WriteFails
<1>2. cables' = cables /\ report' = report
  BY <1>1 DEF Next, vars, NextAp, PlanRow, ReadFails, ApDone, EndRun
<1>3. \A x, y : Idle(x, y)' <=> Idle(x, y)
  BY <1>2, LinksUntouched
<1>4. \A link : IdleLink(link)' <=> IdleLink(link)
  BY <1>3 DEF IdleLink, Ends
<1>5. Reported' = Reported
  BY <1>2 DEF Reported
<1>6. CASE PlanRow
  <2> DEFINE x == Rows[row][1]
             y == Rows[row][2]
             records == IF y = Unmatched THEN held ELSE WithDevice(held, DeviceOf[y])
             decided == IF Unmatched \in {x, y} THEN Planned("blocked", x, y)
                        ELSE PlanNeighborCable(records, x, y)
  <2>1. /\ stage = "rows" /\ row <= Len(Rows)
        /\ stage' = (IF decided.action \in {"create", "update"} /\ apply
                     THEN "write" ELSE "rows")
        /\ issues' = (issues \/ decided.action \in {"blocked", "conflict"})
        /\ changes' = (changes \/ (decided.action \in {"create", "update"} /\ ~apply))
    BY <1>6 DEF PlanRow
  <2>2. PICK a, b : a = x /\ b = y
    OBVIOUS
  <2>3. Rows[row] \in Reported
    BY <2>1, RowIs DEF Types, Planning
  <2>4. Unmatched \notin {a, b} /\ Idle(a, b)
    BY <2>2, <2>3 DEF NothingToDo, IdleLink, Ends
  <2>5. Faithful
    BY DEF NothingToDo, Current, Undisturbed
  <2>6. /\ a \in Interfaces /\ b \in Interfaces
        /\ Agrees(WithDevice(held, DeviceOf[b]), a, b)
    BY <2>1, <2>2, <2>4, <2>5, RowAgrees
  <2>7. decided = PlanNeighborCable(WithDevice(held, DeviceOf[b]), a, b)
    BY <2>2, <2>4
  <2> HIDE DEF x, y, records, decided
  <2>8. PICK R : R = WithDevice(held, DeviceOf[b])
    OBVIOUS
  <2>9. decided \in {Planned("in-sync", a, b), Planned("untouched", a, b)}
    <3>1. decided = PlanNeighborCable(R, a, b) /\ Agrees(R, a, b)
      BY <2>6, <2>7, <2>8
    <3> QED
      BY <2>4, <2>6, <3>1, PlanFollows DEF Idle
  <2>10. decided.action \in {"in-sync", "untouched"}
    BY <2>9 DEF Planned, NoPlan
  <2>11. stage' # "write" /\ ~issues' /\ ~changes'
    BY <2>1, <2>10 DEF NothingToDo
  <2> QED
    BY <1>4, <1>5, <2>11 DEF NothingToDo
<1>7. CASE NextAp \/ ReadFails \/ ApDone \/ EndRun \/ UNCHANGED vars
  <2>1. stage' # "write" /\ ~issues' /\ ~changes'
    BY <1>7 DEF NextAp, ReadFails, ApDone, EndRun, vars, NothingToDo
  <2> QED
    BY <1>4, <1>5, <2>1 DEF NothingToDo
<1> QED
  BY <1>1, <1>6, <1>7 DEF Next

LEMMA NextRepeated ==
  ASSUME IInv, Current, Settled, Repeated, [Next]_vars
  PROVE  Repeated'
<1> SUFFICES ASSUME apply', edits' = 0
             PROVE  (AfterGreen' => NothingToDo') /\ GreenRunIsLast'
  BY DEF Repeated, AfterGreen, NothingToDo
<1> USE DEF IInv
<1>1. edits \in Nat /\ ended \in Seq({"ok", "drift", "changed", "partial", "error"})
  BY BoundsAssumption DEF Types
<1>2. ~PersonEdits /\ edits = 0
  <2>1. ~PersonEdits
    <3>1. PersonEdits => edits' = edits + 1
      BY DEF PersonEdits
    <3>2. edits + 1 # 0
      BY <1>1
    <3> QED
      BY <3>1, <3>2
  <2> QED
    BY <1>1, <2>1 DEF Next, vars, NextAp, PlanRow, WriteRow, WriteFails, ReadFails, ApDone, EndRun, StartRun
<1>3. apply
  BY <1>2 DEF Next, vars, NextAp, PlanRow, WriteRow, WriteFails, ReadFails, ApDone, EndRun, StartRun
<1>4. (AfterGreen => NothingToDo) /\ GreenRunIsLast
  BY <1>2, <1>3 DEF Repeated, AfterGreen, NothingToDo
<1>5. CASE EndRun
  <2>1. stage = "ap" /\ stage' = "idle" /\ ended' = Append(ended, Status)
    BY <1>5 DEF EndRun
  <2>2. Status \in {"ok", "drift", "changed", "partial"}
    BY DEF Status
  <2>3. /\ Len(ended') = Len(ended) + 1 /\ Len(ended) \in Nat
        /\ Last(ended') = Status
        /\ ended # <<>> => ended'[Len(ended)] = Last(ended)
    BY <1>1, <2>1, <2>2 DEF Last
  <2>4. ASSUME Len(ended') >= 2, ended'[Len(ended') - 1] \in {"ok", "changed"}
        PROVE  Last(ended') \in {"ok", "error"}
    <3>1. ended # <<>> /\ Green(Last(ended))
      BY <1>1, <2>3, <2>4 DEF Green
    <3>2. ~issues /\ ~changes
      BY <1>4, <2>1, <3>1 DEF AfterGreen, NothingToDo
    <3> QED
      BY <2>3, <3>2 DEF Status
  <2>5. GreenRunIsLast'
    BY <2>4 DEF GreenRunIsLast
  <2>6. ~AfterGreen'
    BY <2>1 DEF AfterGreen
  <2> QED
    BY <2>5, <2>6
<1>6. CASE ReadFails
  <2>1. ended' = Append(ended, "error") /\ stage' = "idle"
    BY <1>6 DEF ReadFails
  <2>2. Last(ended') = "error"
    BY <1>1, <2>1 DEF Last
  <2> QED
    BY <2>1, <2>2 DEF GreenRunIsLast, AfterGreen
<1>7. CASE ~EndRun /\ ~ReadFails
  <2>1. ended' = ended
    BY <1>2, <1>7 DEF Next, vars, NextAp, PlanRow, WriteRow, WriteFails, ApDone, StartRun
  <2>2. GreenRunIsLast'
    BY <1>2, <1>3, <1>4, <2>1 DEF GreenRunIsLast
  <2>3. ASSUME AfterGreen'
        PROVE  NothingToDo'
    <3>1. CASE StartRun
      BY <1>2, <2>1, <2>3, <3>1, GreenStart DEF AfterGreen
    <3>2. CASE ~StartRun
      <4>1. stage # "idle"
        BY <1>2, <1>7, <2>3, <3>2
           DEF Next, vars, NextAp, PlanRow, WriteRow, WriteFails, ApDone, AfterGreen
      <4>2. NothingToDo
        BY <1>4, <2>1, <2>3, <4>1 DEF AfterGreen
      <4> QED
        BY <1>2, <3>2, <4>2, GreenStays
    <3> QED
      BY <3>1, <3>2
  <2> QED
    BY <2>2, <2>3
<1> QED
  BY <1>5, <1>6, <1>7

-----------------------------------------------------------------------------
LEMMA Invariance ==
  ASSUME OnePerPort
  PROVE  Spec => [](IInv /\ Promises)
<1>1. Init => IInv /\ Promises
  BY InitIInv, InitCurrent, InitSettled DEF Promises
<1>2. IInv /\ Promises /\ [Next]_vars => (IInv /\ Promises)'
  BY NextIInv, NextCurrent, NextSettled, NextRepeated DEF Promises
<1> QED
  BY <1>1, <1>2, PTL DEF Spec

(* "Green: everything the network reported is in NetBox" (sync.py:95): a  *)
(* run nobody else interfered with ends OK, or CHANGED, only when every    *)
(* neighbor reported is cabled, save those it noted as left alone.         *)
THEOREM GreenIsCabled ==
  ASSUME OnePerPort
  PROVE  Spec => []GreenMeansCabled
<1>1. IInv /\ Promises => GreenMeansCabled
  <2> SUFFICES ASSUME IInv, Settled, stage = "idle", edits = 0,
                      Last(ended) \in {"ok", "changed"}, NEW link \in Reported \ noted
               PROVE  Joined(link[1], link[2])
    BY DEF Promises, GreenMeansCabled
  <2> USE DEF IInv
  <2>1. Whole /\ ap = Len(Aps) /\ Last(ended) = Status
    BY DEF Planning, Whole
  <2>2. ~issues /\ (apply \/ ~changes)
    BY <2>1 DEF Status
  <2>3. PICK d \in Range(Aps) : link \in Range(report[d])
    BY DEF Reported
  <2>4. PICK k \in DOMAIN Aps : d = Aps[k]
    BY <2>3 DEF Range
  <2>5. k \in 1 .. ap
    BY <2>1, ReportsAssumption
  <2>6. PICK n \in DOMAIN report[Aps[k]] : link = report[Aps[k]][n]
    BY <2>3, <2>4 DEF Range
  <2>7. Passed(link)
    BY <2>1, <2>5, <2>6 DEF Passed
  <2> QED
    BY <2>2, <2>7 DEF Settled
<1> QED
  BY <1>1, Invariance, PTL

(* What a run corrected stays corrected: after a green run with --apply    *)
(* the next one finds nothing to do, unless a read that raises ends it.    *)
THEOREM GreenIsFinal ==
  ASSUME OnePerPort
  PROVE  Spec => []GreenRunIsLast
<1>1. IInv /\ Promises => GreenRunIsLast
  BY DEF Promises, Repeated, GreenRunIsLast
<1> QED
  BY <1>1, Invariance, PTL

=============================================================================
