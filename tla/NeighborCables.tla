----------------------------- MODULE NeighborCables -----------------------------
(***************************************************************************)
(* The cables `wireless sync` keeps in NetBox: for each LLDP neighbor a    *)
(* WLC reports of an access point, the cable from the AP's port to the     *)
(* neighbor's is created, or a wrong one re-pointed (netbox/cabling.py and *)
(* _sync_cables of tools/wireless/sync.py).                                *)
(*                                                                         *)
(* A run plans from records it holds: the AP's own interfaces, read when   *)
(* its turn comes, and the interfaces of each switch, read once and kept   *)
(* for the run.  What it writes it also notes on them (record_cable).      *)
(* Modelled are several runs in a row, writes that fail, writes that reach *)
(* NetBox though their answer is lost, and a person who changes the        *)
(* cabling in NetBox meanwhile.  Names are resolved already: a row of a    *)
(* report is an AP port and a switch port, or Unmatched where NetBox has   *)
(* no interface of that name.                                              *)
(***************************************************************************)
EXTENDS Naturals, FiniteSets, Sequences, SequencesExt, Functions

CONSTANTS
  Aps,         (* the APs, in the order the Conductor reports them         *)
  DeviceOf,    (* the device each interface is on                          *)
  Mate,        (* the two ports of each patch panel position, by each other *)
  Fabrics,     (* the cables NetBox may have at first                      *)
  Reports,     (* for each AP, the rows its WLCs may report                *)
  Runs,        (* how many runs follow each other                          *)
  Faults,      (* how many writes may go wrong                             *)
  Changes      (* how many changes a person may make                       *)

Interfaces == DOMAIN DeviceOf
PanelPorts == DOMAIN Mate
Unmatched == "unmatched"
NoCable == 0

(* A cable has two sides, each a set of terminations, both empty once it   *)
(* is deleted; its id is its place in `cables`.                            *)
Deleted == <<{}, {}>>

Terminations == Interfaces \cup PanelPorts
On(device) == {i \in Interfaces : DeviceOf[i] = device}

ASSUME PortsAssumption ==
  /\ IsFiniteSet(Terminations)
  /\ Interfaces \cap PanelPorts = {}
  /\ Unmatched \notin Terminations
  /\ Mate \in [PanelPorts -> PanelPorts]

(* NetBox keeps one cable per termination, and the terminations of a side  *)
(* on one device.                                                          *)
ASSUME FabricsAssumption ==
  \A f \in Fabrics :
    /\ f \in Seq((SUBSET Terminations) \X (SUBSET Terminations))
    /\ \A k, n \in DOMAIN f : k # n => (f[k][1] \cup f[k][2]) \cap (f[n][1] \cup f[n][2]) = {}
    /\ \A k \in DOMAIN f : \A s \in {1, 2} :
         \A i, j \in f[k][s] \cap Interfaces : DeviceOf[i] = DeviceOf[j]

(* A row is a port of the AP and a port of another device.                 *)
ASSUME ReportsAssumption ==
  /\ Aps \in Seq(Range(Aps))
  /\ \A r \in Reports : \A d \in Range(Aps) :
       r[d] \in Seq((On(d) \cup {Unmatched}) \X ((Interfaces \ On(d)) \cup {Unmatched}))
ASSUME BoundsAssumption == Runs \in Nat /\ Faults \in Nat /\ Changes \in Nat

VARIABLES
  apply,       (* ctx.settings.apply                                       *)
  report,      (* one of Reports, the same in every run                    *)
  cables,      (* NetBox's cables                                          *)
  held,        (* the records in memory: local interfaces, interface_cache *)
  stage,       (* "ap", "rows", "write" or "idle"                          *)
  ap,          (* position in Aps                                          *)
  row,         (* position in the AP's rows                                *)
  plan,        (* the CablePlan being written                              *)
  issues,      (* some device's report has an issue                        *)
  changes,     (* some change was made, or would be                        *)
  noted,       (* rows left alone with a note                              *)
  ended,       (* history: the statuses of the runs                        *)
  faults,      (* history: writes that went wrong                          *)
  edits        (* history: changes a person made                           *)

vars == <<apply, report, cables, held, stage, ap, row, plan, issues, changes,
          noted, ended, faults, edits>>

-----------------------------------------------------------------------------
(* What NetBox says of an interface when it is read.                       *)
CablesOn(t) == {id \in DOMAIN cables : t \in cables[id][1] \cup cables[id][2]}

CableOn(t) == IF CablesOn(t) = {} THEN NoCable ELSE CHOOSE id \in CablesOn(t) : TRUE

LinkPeers(t) ==
  UNION {IF t \in cables[id][1] THEN cables[id][2] ELSE cables[id][1] : id \in CablesOn(t)}

ConnectedEndpoints(i) ==
  (LinkPeers(i) \cup UNION {LinkPeers(Mate[p]) : p \in LinkPeers(i) \cap PanelPorts})
    \cap Interfaces

Read(i) == [known |-> TRUE,
            cable |-> CableOn(i),
            direct |-> LinkPeers(i) \subseteq Interfaces,
            reaches |-> ConnectedEndpoints(i)]
NotHeld == [known |-> FALSE, cable |-> NoCable, direct |-> TRUE, reaches |-> {}]

(* _interfaces: the device's interfaces, read if they are not held yet.    *)
WithDevice(records, device) ==
  [i \in Interfaces |-> IF i \in On(device) /\ records[i] = NotHeld
                        THEN Read(i) ELSE records[i]]

-----------------------------------------------------------------------------
NoPlan == [action |-> "none", a |-> Unmatched, b |-> Unmatched,
           cable |-> NoCable, replaced |-> Unmatched]

Planned(action, a, b) == [NoPlan EXCEPT !.action = action, !.a = a, !.b = b]

(* Mutant of PlanRepoint: the holder's side may have other terminations.   *)
PlanRepointSharedSide(a, b, holder, id) ==
  LET kept == {s \in {1, 2} : holder \in cables[id][s]}
      stale == UNION {cables[id][3 - s] : s \in kept} IN
  IF kept # {} /\ Cardinality(stale) = 1 /\ stale \subseteq Interfaces
  THEN [Planned("update", a, b) EXCEPT !.cable = id,
                                       !.replaced = CHOOSE i \in stale : TRUE]
  ELSE Planned("untouched", a, b)

(* _plan_repoint: the cable on `holder` gets the free port as its other    *)
(* end, if it runs straight from one interface to one interface.           *)
PlanRepoint(a, b, holder, id) ==
  LET kept == {s \in {1, 2} : cables[id][s] = {holder}}
      stale == UNION {cables[id][3 - s] : s \in kept} IN
  IF kept # {} /\ Cardinality(stale) = 1 /\ stale \subseteq Interfaces
  THEN [Planned("update", a, b) EXCEPT !.cable = id,
                                       !.replaced = CHOOSE i \in stale : TRUE]
  ELSE Planned("untouched", a, b)

(* Mutant of PlanNeighborCable: two ports without a cable have the same.   *)
PlanNeighborCableNoneIsSame(records, a, b) ==
  LET ca == records[a].cable
      cb == records[b].cable IN
  IF ca = cb \/ b \in records[a].reaches THEN Planned("in-sync", a, b)
  ELSE IF ca # NoCable /\ cb # NoCable
    THEN Planned(IF records[a].direct /\ records[b].direct THEN "conflict" ELSE "untouched", a, b)
  ELSE IF cb = NoCable THEN PlanRepoint(a, b, a, ca)
  ELSE PlanRepoint(a, b, b, cb)

(* plan_neighbor_cable, on the records given.                              *)
PlanNeighborCable(records, a, b) ==
  LET ca == records[a].cable
      cb == records[b].cable IN
  IF (ca # NoCable /\ ca = cb) \/ b \in records[a].reaches THEN Planned("in-sync", a, b)
  ELSE IF ca = NoCable /\ cb = NoCable THEN Planned("create", a, b)
  ELSE IF ca # NoCable /\ cb # NoCable
    THEN Planned(IF records[a].direct /\ records[b].direct THEN "conflict" ELSE "untouched", a, b)
  ELSE IF cb = NoCable THEN PlanRepoint(a, b, a, ca)
  ELSE PlanRepoint(a, b, b, cb)

(* Mutant of RecordCable: the replaced end keeps its cable.                *)
RecordCableKeepsReplaced(id) ==
  [i \in Interfaces |->
     IF held[i] # NotHeld /\ i \in {plan.a, plan.b}
     THEN [held[i] EXCEPT !.cable = id, !.direct = TRUE] ELSE held[i]]

(* record_cable: both ends have the cable, a replaced end has lost its own; *)
(* the traced paths stay as they were read.                                *)
RecordCable(id) ==
  [i \in Interfaces |->
     IF held[i] = NotHeld THEN NotHeld
     ELSE IF i \in {plan.a, plan.b} THEN [held[i] EXCEPT !.cable = id, !.direct = TRUE]
     ELSE IF i = plan.replaced THEN [held[i] EXCEPT !.cable = NoCable, !.direct = TRUE]
     ELSE held[i]]

-----------------------------------------------------------------------------
Init ==
  /\ apply \in BOOLEAN
  /\ report \in Reports
  /\ cables \in Fabrics
  /\ held = [i \in Interfaces |-> NotHeld]
  /\ stage = "ap"
  /\ ap = 0
  /\ row = 1
  /\ plan = NoPlan
  /\ issues = FALSE
  /\ changes = FALSE
  /\ noted = {}
  /\ ended = <<>>
  /\ faults = 0
  /\ edits = 0

(* The interfaces of the next AP are read, though they were read already   *)
(* as a neighbor's; the last AP's are let go of.                           *)
NextAp ==
  /\ stage = "ap"
  /\ ap < Len(Aps)
  /\ ap' = ap + 1
  /\ row' = 1
  /\ held' = LET own == On(Aps[ap + 1]) \cup (IF ap > 0 THEN On(Aps[ap]) ELSE {})
                 kept == [i \in Interfaces |-> IF i \in own THEN NotHeld ELSE held[i]]
             IN  WithDevice(kept, Aps[ap + 1])
  /\ stage' = "rows"
  /\ UNCHANGED <<apply, report, cables, plan, issues, changes, noted, ended,
                 faults, edits>>

Rows == report[Aps[ap]]

(* _sync_cable up to its write: blocked and conflicting neighbors are      *)
(* issues, a path left alone is a note, and a plan only tells of a change. *)
PlanRow ==
  /\ stage = "rows"
  /\ row <= Len(Rows)
  /\ LET a == Rows[row][1]
         b == Rows[row][2]
         records == IF b = Unmatched THEN held ELSE WithDevice(held, DeviceOf[b])
         decided == IF Unmatched \in {a, b} THEN Planned("blocked", a, b)
                    ELSE PlanNeighborCable(records, a, b)
         writes == decided.action \in {"create", "update"} IN
     /\ held' = records
     /\ plan' = IF writes /\ apply THEN decided ELSE NoPlan
     /\ stage' = IF writes /\ apply THEN "write" ELSE "rows"
     /\ row' = IF writes /\ apply THEN row ELSE row + 1
     /\ issues' = (issues \/ decided.action \in {"blocked", "conflict"})
     /\ changes' = (changes \/ (writes /\ ~apply))
     /\ noted' = IF decided.action = "untouched" THEN noted \cup {<<a, b>>} ELSE noted
  /\ UNCHANGED <<apply, report, cables, ap, ended, faults, edits>>

(* NetBox refuses a termination that has a cable, and a deleted cable.     *)
Accepted ==
  IF plan.action = "create" THEN CableOn(plan.a) = NoCable /\ CableOn(plan.b) = NoCable
  ELSE /\ cables[plan.cable] # Deleted
       /\ CableOn(plan.a) \in {NoCable, plan.cable}
       /\ CableOn(plan.b) \in {NoCable, plan.cable}

(* Mutants of Written: a re-pointed cable is made anew beside the old one; *)
(* its wrong end is replaced.                                              *)
WrittenAsNewCable == Append(cables, <<{plan.a}, {plan.b}>>)

WrittenWrongEnd ==
  IF plan.action = "create" THEN Append(cables, <<{plan.a}, {plan.b}>>)
  ELSE [cables EXCEPT ![plan.cable] =
          <<{plan.replaced}, {IF CableOn(plan.a) = plan.cable THEN plan.b ELSE plan.a}>>]

Written ==
  IF plan.action = "create" THEN Append(cables, <<{plan.a}, {plan.b}>>)
  ELSE [cables EXCEPT ![plan.cable] = <<{plan.a}, {plan.b}>>]

WrittenId == IF plan.action = "create" THEN Len(cables) + 1 ELSE plan.cable

RowDone ==
  /\ stage' = "rows"
  /\ row' = row + 1
  /\ plan' = NoPlan

(* create_cable or update_cable, and record_cable after it.                *)
WriteRow ==
  /\ stage = "write"
  /\ Accepted
  /\ cables' = Written
  /\ held' = RecordCable(WrittenId)
  /\ changes' = TRUE
  /\ RowDone
  /\ UNCHANGED <<apply, report, ap, issues, noted, ended, faults, edits>>

(* The write raises: NetBox refused it, or the request failed; or it went  *)
(* through and its answer was lost.  Either way it is an issue, and not    *)
(* recorded.                                                               *)
WriteFails ==
  /\ stage = "write"
  /\ \/ ~Accepted /\ UNCHANGED <<cables, faults>>
     \/ /\ faults < Faults
        /\ faults' = faults + 1
        /\ \/ UNCHANGED cables
           \/ Accepted /\ cables' = Written
  /\ issues' = TRUE
  /\ RowDone
  /\ UNCHANGED <<apply, report, ap, held, changes, noted, ended, edits>>

(* A read of a neighbor's interfaces, or of a cable, that raises is caught  *)
(* nowhere in the tool, and the run ends there.                            *)
ReadFails ==
  /\ stage = "rows"
  /\ row <= Len(Rows)
  /\ faults < Faults
  /\ faults' = faults + 1
  /\ ended' = Append(ended, "error")
  /\ stage' = "idle"
  /\ UNCHANGED <<apply, report, cables, held, ap, row, plan, issues, changes,
                 noted, edits>>

ApDone ==
  /\ stage = "rows"
  /\ row > Len(Rows)
  /\ stage' = "ap"
  /\ UNCHANGED <<apply, report, cables, held, ap, row, plan, issues, changes,
                 noted, ended, faults, edits>>

(* _result, as far as cables decide it.                                    *)
Status ==
  IF issues THEN "partial"
  ELSE IF changes THEN IF apply THEN "changed" ELSE "drift"
  ELSE "ok"

EndRun ==
  /\ stage = "ap"
  /\ ap = Len(Aps)
  /\ ended' = Append(ended, Status)
  /\ stage' = "idle"
  /\ UNCHANGED <<apply, report, cables, held, ap, row, plan, issues, changes,
                 noted, faults, edits>>

(* The next run starts with nothing in memory.                             *)
StartRun ==
  /\ stage = "idle"
  /\ Len(ended) < Runs
  /\ held' = [i \in Interfaces |-> NotHeld]
  /\ ap' = 0
  /\ issues' = FALSE
  /\ changes' = FALSE
  /\ noted' = {}
  /\ stage' = "ap"
  /\ UNCHANGED <<apply, report, cables, row, plan, ended, faults, edits>>

(* A person deletes a cable in NetBox, or connects two free ports.         *)
PersonEdits ==
  /\ edits < Changes
  /\ edits' = edits + 1
  /\ \/ \E id \in DOMAIN cables :
          cables[id] # Deleted /\ cables' = [cables EXCEPT ![id] = Deleted]
     \/ \E i, j \in Interfaces :
          /\ DeviceOf[i] # DeviceOf[j]
          /\ CableOn(i) = NoCable
          /\ CableOn(j) = NoCable
          /\ cables' = Append(cables, <<{i}, {j}>>)
  /\ UNCHANGED <<apply, report, held, stage, ap, row, plan, issues, changes,
                 noted, ended, faults>>

Next ==
  \/ NextAp \/ PlanRow \/ WriteRow \/ WriteFails \/ ReadFails \/ ApDone
  \/ EndRun \/ StartRun \/ PersonEdits

Spec == Init /\ [][Next]_vars

-----------------------------------------------------------------------------
Records == [known : BOOLEAN, cable : 0..Len(cables), direct : BOOLEAN, reaches : SUBSET Interfaces]

TypeOK ==
  /\ apply \in BOOLEAN
  /\ report \in Reports
  /\ cables \in Seq((SUBSET Terminations) \X (SUBSET Terminations))
  /\ \A t \in Terminations : Cardinality(CablesOn(t)) <= 1
  /\ held \in [Interfaces -> Records]
  /\ stage \in {"ap", "rows", "write", "idle"}
  /\ ap \in 0..Len(Aps)
  /\ row \in Nat \ {0}
  /\ plan.action \in {"none", "create", "update"}
  /\ stage = "write" <=> plan # NoPlan
  /\ issues \in BOOLEAN
  /\ changes \in BOOLEAN
  /\ noted \subseteq Interfaces \X Interfaces
  /\ ended \in Seq({"ok", "drift", "changed", "partial", "error"})
  /\ faults \in 0..Faults
  /\ edits \in 0..Changes

Reported == UNION {Range(report[d]) : d \in Range(Aps)}
Joined(a, b) == b \in ConnectedEndpoints(a)

(* The reports the properties are meant for: a port is in the rows of one  *)
(* link only; two APs cabled to each other both report theirs.             *)
Ends(link) == {link[1], link[2]}
OnePerPort ==
  \A r \in Reports : \A d, e \in Range(Aps) : \A x \in Range(r[d]), y \in Range(r[e]) :
     Ends(x) = Ends(y) \/ Ends(x) \cap Ends(y) \subseteq {Unmatched}

(* "A later plan in the same run (another AP on a freed switch port) sees  *)
(* NetBox as it now is" (cabling.py:250): unless somebody else wrote or an *)
(* answer was lost, the plan made of a row from the records held is the    *)
(* one NetBox would give now.                                              *)
PlanIsCurrent ==
  (stage = "rows" /\ row <= Len(Rows) /\ faults + edits = 0) =>
    LET a == Rows[row][1]
        b == Rows[row][2] IN
    Unmatched \notin {a, b} =>
      PlanNeighborCable(WithDevice(held, DeviceOf[b]), a, b)
        = PlanNeighborCable([i \in Interfaces |-> Read(i)], a, b)

(* Correcting one neighbor never undoes another: a reported link that is   *)
(* in NetBox stays there through every step of the program, whatever went  *)
(* wrong before and whoever else wrote.                                    *)
KeepsReportedLinks ==
  [][edits' = edits =>
       \A link \in Reported :
         Joined(link[1], link[2]) => link[2] \in ConnectedEndpoints(link[1])']_vars

(* "Green: everything the network reported is in NetBox" (sync.py:95): a  *)
(* run nobody else interfered with ends OK, or CHANGED, only when every    *)
(* neighbor reported is cabled, save those it noted as left alone.         *)
GreenMeansCabled ==
  (stage = "idle" /\ edits = 0 /\ Last(ended) \in {"ok", "changed"}) =>
    \A link \in Reported \ noted : Joined(link[1], link[2])

(* What a run corrected stays corrected: after a green run with --apply    *)
(* the next one finds nothing to do, unless a read ends it.                *)
GreenRunIsLast ==
  (Len(ended) >= 2 /\ apply /\ edits = 0) =>
    (ended[Len(ended) - 1] \in {"ok", "changed"} => Last(ended) \in {"ok", "error"})

=============================================================================
