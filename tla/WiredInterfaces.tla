---------------------------- MODULE WiredInterfaces ----------------------------
(***************************************************************************)
(* One run of `wired interfaces`: the create step, then the sync step, over *)
(* the same Nornir object, from bunnyauto/tools/wired/interfaces.py,        *)
(* create_interfaces.py (execute, _apply, _result) and sync_interfaces.py   *)
(* (_run, _result).                                                        *)
(*                                                                         *)
(* What is kept: which hosts each step talks to, what each step carries to *)
(* the next (failed_hosts, CreateOutcome.unreachable and .pending), stacks *)
(* reached through several hosts, every way a device can fail, what is     *)
(* written, and the status the run ends with.  A device's interfaces are   *)
(* abstracted to the kinds of difference between the switch and NetBox.    *)
(* run_with_retries appears as the outcomes AttemptContract lets it return; *)
(* "refused" stands for its "rejected" and "other".                        *)
(***************************************************************************)
EXTENDS Naturals, FiniteSets, Sequences, Functions

CONSTANTS
  Inventory,   (* the selected Nornir hosts, in the order results come in  *)
  StackOf,     (* the stack each NetBox device belongs to: Stack.key       *)
  Stacks,      (* the keys with is_stack; the others are lone switches     *)
  Drifts,      (* the differences a device may start with                  *)
  Steps        (* the values of --only explored, "both" for its absence    *)

Devices == DOMAIN StackOf
Hosts == Range(Inventory)     \* a host carries the name of its device

ASSUME InventoryAssumption ==
  /\ Inventory \in Seq(Devices)
  /\ Len(Inventory) > 0
  /\ \A i, j \in 1..Len(Inventory) : Inventory[i] = Inventory[j] => i = j
ASSUME DevicesAssumption == IsFiniteSet(Devices)
ASSUME StacksAssumption ==
  /\ Stacks \subseteq Range(StackOf)
  /\ \A d, e \in Devices : d # e /\ StackOf[d] = StackOf[e] => StackOf[d] \in Stacks

(* "port": interfaces NetBox is missing.  "type", "number" and "optic":    *)
(* wrong types, wrong stack member numbers and unrecorded transceivers of  *)
(* existing interfaces.  "state": existing interfaces whose VLANs, enabled *)
(* state or description differ.                                            *)
Kinds == {"port", "type", "number", "optic", "state"}
CreateKinds == Kinds \ {"state"}
Warnable == {"type", "optic", "state"}   \* may be left with a warning or a note
ASSUME DriftsAssumption == Drifts \subseteq SUBSET Kinds
ASSUME StepsAssumption == Steps \subseteq {"both", "create", "sync"}

Statuses == {"ok", "drift", "changed", "partial", "error"}
NoStatus == "none"
Outcomes == {"ok", "connect", "refused", "not run"}
NoHost == "no host"           \* None, where the code has a host's name
ASSUME NoHostAssumption == NoHost \notin Devices

VARIABLES
  apply,         (* ctx.settings.apply                                     *)
  only,          (* args.only                                              *)
  dark,          (* stack members whose ports are not reported: powered off *)
  orphans,       (* stacks reporting ports of a member with no device      *)
  drift,         (* NetBox against the switches, by device                 *)
  failedHosts,   (* data.failed_hosts, shared by every view of the Nornir  *)
  stage,         (* where the run stands                                   *)
  at,            (* position in Inventory of the result looked at          *)
  outcome,       (* what run_with_retries returned for each host           *)
  stacksSeen,    (* stack keys handled in this step                        *)
  via,           (* checked_via, then covered                              *)
  failures,      (* the devices this step reports as failed                *)
  erred,         (* plans with an error, then devices_with_errors          *)
  plan,          (* what the create step would write, by device            *)
  planned,       (* devices with a _DevicePlan                             *)
  todo,          (* planned devices not applied yet                        *)
  duplicates,    (* hosts of an already synced stack                       *)
  blocked,       (* some port was skipped for lack of a member's device    *)
  written,       (* the step counted a write (in a sync plan: a change)    *)
  noSession,     (* CreateOutcome.unreachable                              *)
  pending,       (* devices with ports in CreateOutcome.pending            *)
  status,        (* of each step and of the run                            *)
  tried,         (* history: hosts each step opened a session to           *)
  noted,         (* history: the differences the run left alone with no    *)
                 (* more than a warning or a note, by device               *)
  sent,          (* history: a write request went to NetBox                *)
  trouble        (* history: a collection, a lookup or a write failed      *)

inputs == <<apply, only, dark, orphans>>
locals == <<at, stacksSeen, via, failures, erred, plan, planned, todo,
            duplicates, blocked, written>>
history == <<tried, noted, sent, trouble>>
vars == <<inputs, drift, failedHosts, stage, outcome, locals, noSession,
          pending, status, history>>

Stages == {"create collect", "create resolve", "create apply", "sync collect",
           "sync devices", "done"}

TypeOK ==
  /\ apply \in BOOLEAN
  /\ only \in {"both", "create", "sync"}
  /\ dark \in SUBSET Devices
  /\ orphans \in SUBSET Stacks
  /\ drift \in [Devices -> SUBSET Kinds]
  /\ failedHosts \in SUBSET Hosts
  /\ stage \in Stages
  /\ at \in 1..(Len(Inventory) + 1)
  /\ outcome \in [Hosts -> Outcomes]
  /\ stacksSeen \in SUBSET Range(StackOf)
  /\ via \in [Devices -> Hosts \cup {NoHost}]
  /\ failures \in SUBSET Devices
  /\ erred \in SUBSET Devices
  /\ plan \in [Devices -> SUBSET CreateKinds]
  /\ planned \in SUBSET Devices
  /\ todo \in SUBSET planned
  /\ duplicates \in 0..Cardinality(Hosts)
  /\ blocked \in BOOLEAN
  /\ written \in BOOLEAN
  /\ noSession \in SUBSET Hosts
  /\ pending \in SUBSET Devices
  /\ status \in [{"create", "sync", "run"} -> Statuses \cup {NoStatus}]
  /\ tried \in [{"create", "sync"} -> SUBSET Hosts]
  /\ noted \in [Devices -> SUBSET Warnable]
  /\ sent \in BOOLEAN
  /\ trouble \in BOOLEAN

Mates(d) == {e \in Devices : StackOf[e] = StackOf[d]}

(* The devices whose ports the switch reached through h reports.           *)
Seen(h) == {h} \cup (Mates(h) \ dark)

Collected == {h \in Hosts : outcome[h] = "ok"}
Unreachable == {h \in Hosts : outcome[h] \in {"connect", "refused"}} \cup noSession

-----------------------------------------------------------------------------
(* The locals of execute and of _run, as each begins.                      *)
FreshLocals ==
  /\ at' = 1
  /\ stacksSeen' = {}
  /\ via' = [d \in Devices |-> NoHost]
  /\ failures' = {}
  /\ erred' = {}
  /\ plan' = [d \in Devices |-> {}]
  /\ planned' = {}
  /\ todo' = {}
  /\ duplicates' = 0
  /\ blocked' = FALSE
  /\ written' = FALSE

Init ==
  /\ apply \in BOOLEAN
  /\ only \in Steps
  /\ dark \in SUBSET {d \in Devices : StackOf[d] \in Stacks}
  /\ orphans \in SUBSET Stacks
  /\ drift \in [Devices -> Drifts]
  /\ failedHosts = {}                  \* each run builds its own Nornir
  /\ stage = IF only = "sync" THEN "sync collect" ELSE "create collect"
  /\ outcome = [h \in Hosts |-> "not run"]
  /\ at = 1
  /\ stacksSeen = {}
  /\ via = [d \in Devices |-> NoHost]
  /\ failures = {}
  /\ erred = {}
  /\ plan = [d \in Devices |-> {}]
  /\ planned = {}
  /\ todo = {}
  /\ duplicates = 0
  /\ blocked = FALSE
  /\ written = FALSE
  /\ noSession = {}
  /\ pending = {}
  /\ status = [s \in {"create", "sync", "run"} |-> NoStatus]
  /\ tried = [s \in {"create", "sync"} |-> {}]
  /\ noted = [d \in Devices |-> {}]
  /\ sent = FALSE
  /\ trouble = FALSE

(* Mutant of RunWithRetries: the failures are not left in failed_hosts.    *)
RunWithRetriesForgets(targets) ==
  LET runOn == targets \ failedHosts IN
  /\ outcome' \in [Hosts -> Outcomes]
  /\ \A h \in Hosts : outcome'[h] = "not run" <=> h \notin runOn
  /\ \A h \in dark \cap Hosts : outcome'[h] # "ok"
  /\ failedHosts' = failedHosts
  /\ trouble' = (trouble \/ \E h \in runOn : outcome'[h] # "ok")

(* One call of run_with_retries on the hosts `targets`: Nornir passes over *)
(* those in failed_hosts, and the ones that fail join them.                *)
RunWithRetries(targets) ==
  LET runOn == targets \ failedHosts IN
  /\ outcome' \in [Hosts -> Outcomes]
  /\ \A h \in Hosts : outcome'[h] = "not run" <=> h \notin runOn
  /\ \A h \in dark \cap Hosts : outcome'[h] # "ok"
  /\ failedHosts' = failedHosts \cup {h \in runOn : outcome'[h] # "ok"}
  /\ trouble' = (trouble \/ \E h \in runOn : outcome'[h] # "ok")

-----------------------------------------------------------------------------
(* The create step.                                                        *)
CreateCollect ==
  /\ stage = "create collect"
  /\ FreshLocals
  /\ RunWithRetries(Hosts)
  /\ tried' = [tried EXCEPT !["create"] = Hosts \ failedHosts]
  /\ stage' = "create resolve"
  /\ UNCHANGED <<inputs, drift, noSession, pending, status, noted, sent>>

ThisHost == Inventory[at]

CreateSkips ==
  /\ ThisHost \notin Collected \/ StackOf[ThisHost] \in stacksSeen
  /\ UNCHANGED <<stacksSeen, via, failures, plan, planned, blocked, noted, trouble>>

(* resolve_stack or one of the NetBox lookups raises.                      *)
CreateLookupFails ==
  /\ ThisHost \in Collected
  /\ failures' = failures \cup {ThisHost}
  /\ trouble' = TRUE
  /\ UNCHANGED <<stacksSeen, via, plan, planned, blocked, noted>>

(* What _supported_types, _note_inventory and plan_inventory_item may leave *)
(* out of the plan of a device with no more than a warning or a note: the  *)
(* type choices cannot be read, or the media has no type; `show inventory`  *)
(* failed, or NetBox has the serial number elsewhere.                      *)
LeftOut(h) == [Seen(h) -> SUBSET {"type", "optic"}]

(* Each port the stack reports is filed under the device that owns it.  Of  *)
(* a kind left out of the plan, `still` says whether some are in it yet.   *)
CreateClassifies ==
  /\ ThisHost \in Collected
  /\ StackOf[ThisHost] \notin stacksSeen
  /\ stacksSeen' = stacksSeen \cup {StackOf[ThisHost]}
  /\ via' = [d \in Devices |-> IF d \in Seen(ThisHost) /\ via[d] = NoHost
                               THEN ThisHost ELSE via[d]]
  /\ planned' = planned \cup Seen(ThisHost)
  /\ \E left \in LeftOut(ThisHost), still \in BOOLEAN :
        LET out(d) == IF still THEN {} ELSE left[d] IN
        /\ \A d \in Seen(ThisHost) : left[d] \subseteq drift[d]
        /\ plan' = [d \in Devices |-> IF d \in Seen(ThisHost)
                                      THEN (drift[d] \cap CreateKinds) \ out(d) ELSE plan[d]]
        /\ noted' = [d \in Devices |-> IF d \in Seen(ThisHost)
                                       THEN noted[d] \cup left[d] ELSE noted[d]]
  /\ blocked' = (blocked \/ StackOf[ThisHost] \in orphans)
  /\ UNCHANGED <<failures, trouble>>

CreateHost ==
  /\ stage = "create resolve"
  /\ at <= Len(Inventory)
  /\ CreateSkips \/ CreateLookupFails \/ CreateClassifies
  /\ at' = at + 1
  /\ UNCHANGED <<inputs, drift, failedHosts, stage, outcome, erred, todo,
                 duplicates, written, noSession, pending, status, tried, sent>>

(* Mutant of Uncovered: a host's stack is covered when it was handled.     *)
UncoveredByStack(hosts) == {h \in hosts : StackOf[h] \notin stacksSeen}

(* Unreachable hosts whose device was not dealt with through another host. *)
Uncovered(hosts) == {h \in hosts : via[h] \in {NoHost, h}}

(* Mutant of CreateReports: every device is applied, planned or not.       *)
CreateReportsEveryDevice ==
  /\ stage = "create resolve"
  /\ at > Len(Inventory)
  /\ failures' = failures \cup Uncovered(Unreachable)
  /\ todo' = IF apply THEN Devices ELSE {}
  /\ stage' = "create apply"
  /\ UNCHANGED <<inputs, drift, failedHosts, outcome, at, stacksSeen, via,
                 erred, plan, planned, duplicates, blocked, written,
                 noSession, pending, status, history>>

(* The plans are complete; they are applied next, or only reported.        *)
CreateReports ==
  /\ stage = "create resolve"
  /\ at > Len(Inventory)
  /\ failures' = failures \cup Uncovered(Unreachable)
  /\ todo' = IF apply THEN planned ELSE {}
  /\ stage' = "create apply"
  /\ UNCHANGED <<inputs, drift, failedHosts, outcome, at, stacksSeen, via,
                 erred, plan, planned, duplicates, blocked, written,
                 noSession, pending, status, history>>

(* The bulk writes of one plan; those in `failing` raise, each on its own. *)
(* An interface just created has none of its VLANs, state or description;  *)
(* what was left out of the plan stays as it was.                          *)
WritePlan(d, failing) ==
  LET done == plan[d] \ failing IN
  /\ drift' = [drift EXCEPT ![d] = (@ \ (done \ noted[d])) \cup
                                   (IF "port" \in done THEN {"state"} ELSE {})]
  /\ written' = (written \/ done # {})
  /\ erred' = IF failing = {} THEN erred ELSE erred \cup {d}
  /\ failures' = IF failing = {} THEN failures ELSE failures \cup {d}
  /\ sent' = (sent \/ plan[d] # {})
  /\ trouble' = (trouble \/ failing # {})

(* _apply of one plan.                                                     *)
CreateApplies(d) ==
  /\ stage = "create apply"
  /\ d \in todo
  /\ \E failing \in SUBSET plan[d] : WritePlan(d, failing)
  /\ todo' = todo \ {d}
  /\ UNCHANGED <<inputs, failedHosts, stage, outcome, at, stacksSeen, via,
                 plan, planned, duplicates, blocked, noSession, pending,
                 status, tried, noted>>

Progressed == stacksSeen # {} /\ (planned = {} \/ planned \ erred # {})

(* Mutant of CreateStatus: what is written is told of, not what would be.  *)
CreateStatusOfWrites ==
  IF failures # {} \/ blocked THEN IF Progressed THEN "partial" ELSE "error"
  ELSE IF written THEN IF apply THEN "changed" ELSE "drift"
  ELSE "ok"

(* _result of create_interfaces.py.                                        *)
CreateStatus ==
  IF failures # {} \/ blocked THEN IF Progressed THEN "partial" ELSE "error"
  ELSE IF apply /\ written THEN "changed"
  ELSE IF \E d \in planned : plan[d] # {} THEN "drift"
  ELSE "ok"

(* Mutant of CreateReturns: the sync step is told of nothing to come.      *)
CreateReturnsNoPending ==
  /\ stage = "create apply"
  /\ todo = {}
  /\ noSession' = {h \in Hosts : outcome[h] = "connect"}
  /\ pending' = {}
  /\ status' = [status EXCEPT !["create"] = CreateStatus,
                              !["run"] = IF only = "create" THEN CreateStatus ELSE @]
  /\ stage' = IF only = "create" THEN "done" ELSE "sync collect"
  /\ UNCHANGED <<inputs, drift, failedHosts, outcome, locals, history>>

(* execute returns its CreateOutcome.                                      *)
CreateReturns ==
  /\ stage = "create apply"
  /\ todo = {}
  /\ noSession' = {h \in Hosts : outcome[h] = "connect"}
  /\ pending' = IF apply THEN {} ELSE {d \in planned : "port" \in plan[d]}
  /\ status' = [status EXCEPT !["create"] = CreateStatus,
                              !["run"] = IF only = "create" THEN CreateStatus ELSE @]
  /\ stage' = IF only = "create" THEN "done" ELSE "sync collect"
  /\ UNCHANGED <<inputs, drift, failedHosts, outcome, locals, history>>

-----------------------------------------------------------------------------
(* The sync step.                                                          *)
SyncCollect ==
  /\ stage = "sync collect"
  /\ FreshLocals
  /\ RunWithRetries(Hosts \ noSession)
  /\ tried' = [tried EXCEPT !["sync"] = (Hosts \ noSession) \ failedHosts]
  /\ stage' = "sync devices"
  /\ UNCHANGED <<inputs, drift, noSession, pending, status, noted, sent>>

SyncSkips ==
  /\ ThisHost \notin Collected
  /\ UNCHANGED <<drift, stacksSeen, via, erred, duplicates, blocked, written,
                 noted, sent, trouble>>

SyncDuplicate ==
  /\ ThisHost \in Collected
  /\ StackOf[ThisHost] \in stacksSeen
  /\ duplicates' = duplicates + 1
  /\ UNCHANGED <<drift, stacksSeen, via, erred, blocked, written, noted, sent,
                 trouble>>

(* Mutant of Stale: the interfaces of the connected device only.           *)
StaleConnected(h) == {d \in {h} : "state" \in drift[d]}

(* The devices whose existing interfaces the sync of h would change.       *)
Stale(h) == {d \in Seen(h) : "state" \in drift[d]}

SyncedDrift(done) ==
  IF apply THEN [d \in Devices |-> IF d \in done THEN drift[d] \ {"state"} ELSE drift[d]]
  ELSE drift

WarnedOf(spared) ==
  [d \in Devices |-> IF d \in spared THEN noted[d] \cup {"state"} ELSE noted[d]]

(* The search scope or the sync itself raises; what it had updated by then *)
(* stays updated, and the summary that counted it is lost.  The next host  *)
(* of the stack syncs it again.                                            *)
SyncRaises ==
  /\ ThisHost \in Collected
  /\ \E done \in SUBSET Stale(ThisHost) :
        /\ StackOf[ThisHost] \in stacksSeen => done = {}
        /\ drift' = SyncedDrift(done)
        /\ sent' = (sent \/ (apply /\ done # {}))
  /\ erred' = erred \cup {ThisHost}
  /\ trouble' = TRUE
  /\ UNCHANGED <<stacksSeen, via, duplicates, blocked, written, noted>>

(* Mutant of SyncSucceeds: a plan is written too.                          *)
SyncSucceedsInPlan ==
  /\ ThisHost \in Collected
  /\ StackOf[ThisHost] \notin stacksSeen
  /\ drift' = [d \in Devices |-> IF d \in Stale(ThisHost)
                                 THEN drift[d] \ {"state"} ELSE drift[d]]
  /\ written' = (written \/ Stale(ThisHost) # {})
  /\ sent' = (sent \/ Stale(ThisHost) # {})
  /\ stacksSeen' = stacksSeen \cup {StackOf[ThisHost]}
  /\ UNCHANGED <<via, erred, duplicates, blocked, noted, trouble>>

(* sync_device returns.  `done` are the devices whose differing interfaces *)
(* were all updated and verified; `partly`, some of another device's were; *)
(* `error`, the summary has one: an update failed, or an access, native or *)
(* voice VLAN is missing or ambiguous.  A trunk of the devices in `spared` *)
(* keeps its tagged VLANs beside those that could be resolved, and that is *)
(* a warning only.  An interface NetBox lacks is an error unless it awaits *)
(* creation.                                                               *)
SyncSucceeds ==
  /\ ThisHost \in Collected
  /\ StackOf[ThisHost] \notin stacksSeen
  /\ \E done, spared \in SUBSET Stale(ThisHost), partly, error \in BOOLEAN :
        LET absent == {d \in Seen(ThisHost) : "port" \in drift[d]} \ pending
            errors == error \/ absent # {} IN
        /\ done \cap spared = {}
        /\ done \cup spared # Stale(ThisHost) => error
        /\ partly => done # Stale(ThisHost)
        /\ drift' = SyncedDrift(done)
        /\ written' = (written \/ done # {} \/ partly)
        /\ sent' = (sent \/ (apply /\ (done # {} \/ partly \/ error)))
        /\ erred' = IF errors THEN erred \cup {ThisHost} ELSE erred
        /\ noted' = WarnedOf(spared)
        /\ trouble' = (trouble \/ error)
  /\ stacksSeen' = stacksSeen \cup {StackOf[ThisHost]}
  /\ via' = [d \in Devices |-> IF d \in Mates(ThisHost) /\ via[d] = NoHost
                               THEN ThisHost ELSE via[d]]
  /\ blocked' = (blocked \/ StackOf[ThisHost] \in orphans)
  /\ UNCHANGED duplicates

SyncHost ==
  /\ stage = "sync devices"
  /\ at <= Len(Inventory)
  /\ SyncSkips \/ SyncDuplicate \/ SyncRaises \/ SyncSucceeds
  /\ at' = at + 1
  /\ UNCHANGED <<inputs, failedHosts, stage, outcome, failures, plan, planned,
                 todo, noSession, pending, status, tried>>

(* _result of sync_interfaces.py.                                          *)
SyncStatus(failed) ==
  LET hadFailures == failed # {} \/ erred # {}
      someOk == Cardinality(Collected) > duplicates + Cardinality(erred) IN
  IF hadFailures /\ someOk THEN "partial"
  ELSE IF hadFailures /\ ~written THEN "error"
  ELSE IF blocked THEN "partial"
  ELSE IF written THEN IF apply THEN "changed" ELSE "drift"
  ELSE "ok"

(* _status of interfaces.py.                                               *)
Combine(first, second) ==
  LET both == {first, second} IN
  IF both = {"error"} THEN "error"
  ELSE IF both \cap {"error", "partial"} # {} THEN "partial"
  ELSE IF "changed" \in both THEN "changed"
  ELSE IF "drift" \in both THEN "drift"
  ELSE "ok"

SyncReturns ==
  /\ stage = "sync devices"
  /\ at > Len(Inventory)
  /\ failures' = Uncovered(Unreachable)
  /\ LET ended == SyncStatus(failures') IN
       status' = [status EXCEPT
                    !["sync"] = ended,
                    !["run"] = IF only = "sync" THEN ended
                               ELSE Combine(status["create"], ended)]
  /\ stage' = "done"
  /\ UNCHANGED <<inputs, drift, failedHosts, outcome, at, stacksSeen, via,
                 erred, plan, planned, todo, duplicates, blocked, written,
                 noSession, pending, history>>

(* An exception neither step catches, or Ctrl-C: main returns an error.    *)
Abort ==
  /\ stage # "done"
  /\ stage' = "done"
  /\ status' = [status EXCEPT !["run"] = "error"]
  /\ trouble' = TRUE
  /\ UNCHANGED <<inputs, drift, failedHosts, outcome, locals, noSession,
                 pending, tried, noted, sent>>

Next ==
  \/ CreateCollect
  \/ CreateHost
  \/ CreateReports
  \/ \E d \in Devices : CreateApplies(d)
  \/ CreateReturns
  \/ SyncCollect
  \/ SyncHost
  \/ SyncReturns
  \/ Abort

Spec == Init /\ [][Next]_vars

-----------------------------------------------------------------------------
Done == stage = "done"
Ended == status["run"]

(* "A host the create step could not reach is not tried again by the sync  *)
(* step" (interfaces.py:19), nor is one that refused the login, whom only  *)
(* failed_hosts keeps out: no host whose collection failed in the create   *)
(* step is connected to by the sync step.                                  *)
FailedHostLeftAlone ==
  [][\A h \in tried'["sync"] \ tried["sync"] : outcome[h] \in {"ok", "not run"}]_vars

(* The create step ends well only when each host's own ports were checked, *)
(* on that host or on another of its stack that reports them.              *)
UncheckedIsReported ==
  (stage = "sync collect" /\ status["create"] \in {"ok", "drift", "changed"}) =>
    \A h \in Hosts : via[h] # NoHost /\ h \in Seen(via[h])

(* A difference between a switch and NetBox that no warning told of.       *)
Untold(d) == drift[d] \ noted[d]

(* OK of a whole run is "in sync / nothing to do" (result.py:21) but for    *)
(* what it warned of: no host of the scope went unread, every port the     *)
(* switches report has its interface, and each difference that is left, of *)
(* a type, a transceiver or a trunk, is one this run warned of or noted.   *)
OKHidesNothing ==
  (Done /\ only = "both" /\ Ended = "ok") =>
    /\ dark \cap Hosts = {}
    /\ orphans \cap {StackOf[h] : h \in Hosts} = {}
    /\ \A h \in Hosts : \A d \in Seen(h) : Untold(d) = {}

InScope == UNION {Seen(h) : h \in Hosts}
Untroubled == Done /\ only = "both" /\ ~trouble /\ ~blocked

(* "A new interface is complete after one apply" (docs/ci.md:119): when    *)
(* nothing goes wrong, one --apply leaves no difference on any device but  *)
(* those it warned of, and it is CHANGED exactly when it wrote.            *)
CleanApply ==
  (Untroubled /\ apply) =>
    /\ \A d \in InScope : Untold(d) = {}
    /\ Ended = IF sent THEN "changed" ELSE "ok"

(* Nothing is written behind the status: a plan sends NetBox no write, and *)
(* a run that sent one does not end as OK or DRIFT.  With --apply, DRIFT   *)
(* "shouldn't happen" (docs/ci.md:114).                                    *)
WritesAreReported ==
  /\ sent => apply
  /\ Done /\ apply => Ended # "drift"
  /\ Done /\ sent => Ended \in {"changed", "partial", "error"}

-----------------------------------------------------------------------------
(* Claims of the repository that the code does not keep.                   *)

(* "Both failing is an ERROR; one failing while the other got somewhere is *)
(* PARTIAL" (interfaces.py:106).                                           *)
PartialMeansProgress ==
  (Done /\ Ended = "partial" /\ status["create"] = "error") => Collected # {}

(* OK is "in sync / nothing to do" (result.py:21): no difference is left.  *)
OKMeansInSync ==
  (Done /\ only = "both" /\ Ended = "ok") =>
    \A h \in Hosts : \A d \in Seen(h) : drift[d] = {}

(* PARTIAL is "some hosts succeeded, some failed" (result.py:24): an apply *)
(* that ends CHANGED, on which the pipeline goes on, read every host.      *)
FailureIsNotChanged ==
  (Done /\ apply /\ Ended = "changed") => failures = {}

=============================================================================
