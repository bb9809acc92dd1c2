------------------------- MODULE WiredInterfacesProofs -------------------------
(***************************************************************************)
(* WiredInterfaces proved for every inventory, every division of its       *)
(* devices into stacks and every difference they start with: the           *)
(* properties that its run checks.                                         *)
(*                                                                         *)
(* None of them is inductive.  IInv follows the run from step to step:     *)
(* what is known of the hosts' outcomes, what the create step has covered  *)
(* and planned while it goes through its results, what its status then     *)
(* says of the devices, and what the sync step has made of that.           *)
(***************************************************************************)
EXTENDS WiredInterfaces, FiniteSetTheorems, TLAPS

Creating == stage \in {"create resolve", "create apply"}
Failing == {"connect", "refused"}

(* failed_hosts holds every host whose collection failed, and no other; a  *)
(* host that is powered off is not read.                                   *)
HostsRead ==
  /\ stage = "create collect" => failedHosts = {} /\ noSession = {}
  /\ \A h \in Hosts : outcome[h] \in Failing => h \in failedHosts
  /\ \A h \in Hosts : outcome[h] = "ok" => h \notin dark
  /\ Creating => \A h \in Hosts : /\ outcome[h] # "not run"
                                  /\ outcome[h] = "ok" => h \notin failedHosts

(* What the create step has made of the results up to `at`: `via` names a  *)
(* host that was read, and reports the device.                             *)
Covered ==
  /\ \A d \in Devices : via[d] # NoHost =>
       /\ via[d] \in Collected
       /\ StackOf[via[d]] \in stacksSeen
       /\ d \in Seen(via[d])
       /\ Seen(via[d]) \subseteq planned
  /\ \A d \in Devices \ dark : StackOf[d] \in stacksSeen => via[d] # NoHost
  /\ stacksSeen \cap orphans # {} => blocked
  /\ blocked => \E h \in Hosts : StackOf[h] \in orphans

Told(h) ==
  /\ outcome[h] = "ok" => h \in failures \/ StackOf[h] \in stacksSeen
  /\ outcome[h] \in Failing => h \in failures \/ via[h] \notin {NoHost, h}

Covering ==
  /\ Creating => Covered
  /\ stage = "create resolve" =>
       \A i \in 1..(at - 1) : Inventory[i] \in Collected =>
         Inventory[i] \in failures \/ StackOf[Inventory[i]] \in stacksSeen
  /\ stage = "create apply" => \A h \in Hosts : Told(h)

(* What the create step has planned and written.                           *)
Planning ==
  /\ stage = "create collect" => ~sent
  /\ stage = "create resolve" => todo = {} /\ erred = {} /\ ~written /\ ~sent
  /\ Creating =>
       /\ \A d \in Devices \ planned : plan[d] = {}
       /\ \A d \in planned : plan[d] = {} => Untold(d) \cap CreateKinds = {}
       /\ todo # {} => apply
       /\ written => sent
       /\ sent => apply /\ (written \/ failures # {})
       /\ ~trouble => failures = {}
  /\ stage = "create apply" /\ apply =>
       \A d \in planned :
         IF d \in todo THEN Untold(d) \cap CreateKinds \subseteq plan[d]
         ELSE /\ plan[d] # {} => written \/ failures # {}
              /\ ~trouble => Untold(d) \subseteq {"state"}
  /\ stage = "create resolve" =>
       \A d \in planned : Untold(d) \cap CreateKinds \subseteq plan[d]

(* While nothing goes wrong every host is read.                            *)
Unharmed ==
  /\ ~trouble => failedHosts = {} /\ noSession = {}
  /\ ~trouble /\ (Creating \/ stage = "sync devices") =>
       \A h \in Hosts : outcome[h] = "ok"

Syncing == stage \in {"sync collect", "sync devices"}
SomeOrphan == \E h \in Hosts : StackOf[h] \in orphans

(* What the status of the create step says, when both steps run.  A host   *)
(* that failed is then covered by one of its stack, which the sync step    *)
(* still reads.                                                            *)
OnlyState == \A h \in Hosts : \A d \in Seen(h) : Untold(d) \subseteq {"state"}
Readable(h) ==
  \E g \in Hosts :
    /\ StackOf[g] = StackOf[h]
    /\ IF stage = "sync collect" THEN g \notin failedHosts \cup noSession
       ELSE outcome[g] # "not run"

CreateDone ==
  /\ Syncing => only # "create"
  /\ only = "sync" =>
       ~Creating /\ stage # "create collect" /\ status["create"] = NoStatus
  /\ Syncing /\ only = "both" =>
       /\ status["create"] \in Statuses
       /\ apply => status["create"] # "drift"
       /\ status["create"] = "ok" =>
            /\ dark \cap Hosts = {}
            /\ ~SomeOrphan
            /\ OnlyState
            /\ \A h \in Hosts : Readable(h)
       /\ apply /\ ~trouble => OnlyState
  /\ UncheckedIsReported

(* What the sync step has made of the results up to `at`.                  *)
StateSynced == \A d \in Devices \ dark : StackOf[d] \in stacksSeen => "state" \notin Untold(d)
Noticed == written \/ erred # {}

Synced ==
  /\ stage = "sync collect" /\ sent => status["create"] \in {"changed", "partial", "error"}
  /\ stage = "sync collect" /\ apply /\ ~trouble /\ only = "both" =>
       SomeOrphan \/ status["create"] = IF sent THEN "changed" ELSE "ok"
  /\ stage = "sync devices" =>
       /\ ~Noticed => StateSynced
       /\ apply /\ ~trouble => StateSynced
       /\ \A i \in 1..(at - 1) : Inventory[i] \in Collected =>
            erred # {} \/ StackOf[Inventory[i]] \in stacksSeen
       /\ \A d \in Devices : via[d] # NoHost => StackOf[d] \in stacksSeen
       /\ sent => status["create"] \in {"changed", "partial", "error"} \/ Noticed
       /\ stacksSeen \cap orphans # {} => blocked
       /\ apply /\ ~trouble /\ only = "both" =>
            /\ erred = {}
            /\ \/ SomeOrphan
               \/ /\ status["create"] \in {"ok", "changed"}
                  /\ sent <=> (status["create"] = "changed" \/ written)

(* Promises of the ended run.                                              *)
Promises == WritesAreReported /\ OKHidesNothing /\ CleanApply

(* A result is counted as a duplicate once.                                *)
CountedOnce == stage = "sync devices" => duplicates < at

IInv ==
  /\ TypeOK /\ CountedOnce
  /\ HostsRead /\ Covering /\ Planning /\ Unharmed /\ CreateDone /\ Synced
  /\ Promises

-----------------------------------------------------------------------------
(* The inventory names each of its hosts, and each once.                   *)
LEMMA HostsFacts ==
  /\ Hosts \subseteq Devices
  /\ NoHost \notin Hosts
  /\ Len(Inventory) \in Nat
  /\ \A i \in 1..Len(Inventory) : Inventory[i] \in Hosts
  /\ \A h \in Hosts : \E i \in 1..Len(Inventory) : Inventory[i] = h
  /\ IsFiniteSet(Hosts)
  /\ Cardinality(Hosts) = Len(Inventory)
<1>1. /\ Inventory \in [1..Len(Inventory) -> Devices]
      /\ Len(Inventory) \in Nat
  BY InventoryAssumption
<1>2. Hosts = {Inventory[i] : i \in 1..Len(Inventory)}
  BY <1>1 DEF Hosts, Range
<1>3. Inventory \in Bijection(1..Len(Inventory), Hosts)
  <2>1. Inventory \in [1..Len(Inventory) -> Hosts]
    BY <1>1, <1>2
  <2>2. Inventory \in Injection(1..Len(Inventory), Hosts)
    BY <2>1, InventoryAssumption DEF Injection, IsInjective
  <2>3. Inventory \in Surjection(1..Len(Inventory), Hosts)
    BY <1>2, <2>1 DEF Surjection
  <2> QED
    BY <2>2, <2>3 DEF Bijection
<1>4. IsFiniteSet(1..Len(Inventory)) /\ Cardinality(1..Len(Inventory)) = Len(Inventory)
  <2>1. Len(Inventory) \in Int /\ 1 <= Len(Inventory)
    BY <1>1, InventoryAssumption
  <2>2. Cardinality(1..Len(Inventory)) = Len(Inventory) - 1 + 1
    BY <2>1, FS_Interval
  <2> QED
    BY <2>1, <2>2, FS_Interval
<1>5. IsFiniteSet(Hosts) /\ Cardinality(Hosts) = Len(Inventory)
  BY <1>3, <1>4, FS_Bijection DEF ExistsBijection
<1> QED
  BY <1>1, <1>2, <1>5, NoHostAssumption

(* Seen, by device.                                                        *)
LEMMA SeenFacts ==
  ASSUME NEW h \in Devices
  PROVE  /\ h \in Seen(h)
         /\ Seen(h) \subseteq Devices
         /\ \A d \in Seen(h) : StackOf[d] = StackOf[h]
         /\ \A d \in Devices \ dark : StackOf[d] = StackOf[h] => d \in Seen(h)
BY DEF Seen, Mates

-----------------------------------------------------------------------------
(* Every variable keeps its type; for `duplicates`, because a result is    *)
(* counted once.                                                           *)
LEMMA InitTypeOK == Init => TypeOK /\ CountedOnce
<1> SUFFICES ASSUME Init PROVE TypeOK /\ CountedOnce
  OBVIOUS
<1>1. Cardinality(Hosts) \in Nat /\ 1 \in 1..(Len(Inventory) + 1)
  BY HostsFacts
<1>2. only \in {"both", "create", "sync"}
  BY StepsAssumption DEF Init
<1>3. drift \in [Devices -> SUBSET Kinds]
  BY DriftsAssumption DEF Init
<1>4. dark \in SUBSET Devices /\ orphans \in SUBSET Stacks
  BY DEF Init
<1>5. stage \in Stages /\ stage # "sync devices"
  BY DEF Init, Stages
<1>6. duplicates \in 0..Cardinality(Hosts) /\ at \in 1..(Len(Inventory) + 1)
  <2>1. duplicates = 0 /\ at = 1
    BY DEF Init
  <2> QED
    BY <1>1, <2>1
<1> QED
  BY <1>2, <1>3, <1>4, <1>5, <1>6 DEF Init, TypeOK, CountedOnce, Outcomes, NoStatus

(* A step of the tool starts with nothing seen, planned or failed.         *)
LEMMA FreshLocalsType ==
  ASSUME FreshLocals
  PROVE  /\ at' \in 1..(Len(Inventory) + 1)
         /\ stacksSeen' \in SUBSET Range(StackOf)
         /\ via' \in [Devices -> Hosts \cup {NoHost}]
         /\ failures' \in SUBSET Devices
         /\ erred' \in SUBSET Devices
         /\ plan' \in [Devices -> SUBSET CreateKinds]
         /\ planned' \in SUBSET Devices
         /\ todo' \in SUBSET planned'
         /\ duplicates' \in 0..Cardinality(Hosts)
         /\ blocked' \in BOOLEAN
         /\ written' \in BOOLEAN
         /\ duplicates' < at'
<1>1. Cardinality(Hosts) \in Nat /\ Len(Inventory) \in Nat
  BY HostsFacts
<1>2. at' \in 1..(Len(Inventory) + 1) /\ duplicates' \in 0..Cardinality(Hosts) /\ duplicates' < at'
  BY <1>1 DEF FreshLocals
<1> QED
  BY <1>2 DEF FreshLocals

(* Both steps and their combination give one of the five statuses.         *)
LEMMA StatusTypes ==
  /\ CreateStatus \in Statuses
  /\ \A failed : SyncStatus(failed) \in Statuses
  /\ \A first, second : Combine(first, second) \in Statuses
BY DEF CreateStatus, SyncStatus, Combine, Statuses

(* What is looked at next is the result of a host.                         *)
LEMMA ThisHostFacts ==
  ASSUME TypeOK, at <= Len(Inventory), at' = at + 1
  PROVE  /\ ThisHost \in Hosts
         /\ at \in Nat /\ at' \in 1..(Len(Inventory) + 1)
<1>1. at \in 1..(Len(Inventory) + 1) /\ Len(Inventory) \in Nat
  BY HostsFacts DEF TypeOK
<1>2. at \in 1..Len(Inventory) /\ at \in Nat /\ at' \in 1..(Len(Inventory) + 1)
  BY <1>1
<1> QED
  BY <1>2, HostsFacts DEF ThisHost

(* A count of the hosts passed over stays below the number of hosts met.   *)
LEMMA CountedBelow ==
  ASSUME NEW n \in Nat, NEW i \in Nat, NEW c \in 0..n, i <= n, c < i
  PROVE  c + 1 \in 0..n /\ c < i + 1 /\ c + 1 < i + 1
OBVIOUS

(* The positions looked at, as `at` starts and moves on.                   *)
LEMMA NoneBefore == ASSUME NEW i \in 1..(1 - 1) PROVE FALSE
OBVIOUS

(* The hosts before the next one are those before this one, and this one.  *)
LEMMA OneMoreBefore ==
  ASSUME NEW n \in Nat, NEW i \in 1..((n + 1) - 1)
  PROVE  i \in 1..(n - 1) \/ i = n
OBVIOUS

(* Past the end of the inventory every host has been met.                  *)
LEMMA AllBefore ==
  ASSUME NEW n \in Nat, NEW a \in 1..(n + 1), a > n, NEW i \in 1..n
  PROVE  i \in 1..(a - 1)
OBVIOUS

(* No step takes a variable out of its type; each duplicate is a host met. *)
LEMMA NextTypeOK == TypeOK /\ CountedOnce /\ [Next]_vars => TypeOK' /\ CountedOnce'
<1> SUFFICES ASSUME TypeOK, CountedOnce, [Next]_vars PROVE TypeOK' /\ CountedOnce'
  OBVIOUS
<1> USE DEF inputs, locals, history
<1>1. Hosts \subseteq Devices /\ Len(Inventory) \in Nat /\ Cardinality(Hosts) = Len(Inventory)
  BY HostsFacts
<1>2. CASE CreateCollect
  <2>1. tried' \in [{"create", "sync"} -> SUBSET Hosts]
    BY <1>2 DEF CreateCollect, TypeOK
  <2>2. failedHosts' \in SUBSET Hosts
    BY <1>2 DEF CreateCollect, RunWithRetries, TypeOK
  <2> QED
    BY <1>2, <2>1, <2>2, FreshLocalsType
    DEF CreateCollect, RunWithRetries, TypeOK, CountedOnce, Stages
<1>3. CASE CreateHost
  <2> USE <1>3 DEF CreateHost
  <2>0. ThisHost \in Hosts /\ at' \in 1..(Len(Inventory) + 1) /\ stage' # "sync devices"
    BY ThisHostFacts
  <2>1. CASE CreateSkips
    BY <2>0, <2>1 DEF CreateSkips, TypeOK, CountedOnce
  <2>2. CASE CreateLookupFails
    BY <1>1, <2>0, <2>2 DEF CreateLookupFails, TypeOK, CountedOnce
  <2>3. CASE CreateClassifies
    <3>1. Seen(ThisHost) \subseteq Devices
      BY <1>1, <2>0, SeenFacts
    <3>2. stacksSeen' \in SUBSET Range(StackOf)
      BY <1>1, <2>0, <2>3 DEF CreateClassifies, TypeOK, Range, Devices
    <3>3. /\ plan' \in [Devices -> SUBSET CreateKinds]
          /\ noted' \in [Devices -> SUBSET Warnable]
      <4>1. PICK left \in LeftOut(ThisHost), still \in BOOLEAN :
              /\ plan' = [d \in Devices |-> IF d \in Seen(ThisHost)
                            THEN (drift[d] \cap CreateKinds) \ (IF still THEN {} ELSE left[d])
                            ELSE plan[d]]
              /\ noted' = [d \in Devices |-> IF d \in Seen(ThisHost)
                                             THEN noted[d] \cup left[d] ELSE noted[d]]
        BY <2>3 DEF CreateClassifies
      <4>2. \A d \in Seen(ThisHost) : left[d] \subseteq Warnable
        BY DEF LeftOut, Warnable
      <4> QED
        BY <4>1, <4>2 DEF TypeOK
    <3>4. via' \in [Devices -> Hosts \cup {NoHost}]
      BY <2>0, <2>3 DEF CreateClassifies, TypeOK
    <3>5. blocked' \in BOOLEAN
      BY <2>3 DEF CreateClassifies, TypeOK
    <3> QED
      BY <2>0, <2>3, <3>1, <3>2, <3>3, <3>4, <3>5 DEF CreateClassifies, TypeOK, CountedOnce
  <2> QED
    BY <2>1, <2>2, <2>3
<1>4. CASE CreateReports
  <2>1. Uncovered(Unreachable) \subseteq Devices
    BY <1>1 DEF Uncovered, Unreachable, TypeOK
  <2> QED
    BY <1>4, <2>1 DEF CreateReports, TypeOK, CountedOnce, Stages
<1>5. ASSUME NEW d \in Devices, CreateApplies(d) PROVE TypeOK' /\ CountedOnce'
  <2>1. PICK failing \in SUBSET plan[d] : WritePlan(d, failing)
    BY <1>5 DEF CreateApplies
  <2>2. drift' \in [Devices -> SUBSET Kinds]
    BY <2>1 DEF WritePlan, TypeOK, Kinds
  <2> QED
    BY <1>5, <2>1, <2>2 DEF CreateApplies, WritePlan, TypeOK, CountedOnce
<1>6. CASE CreateReturns
  <2>1. status' \in [{"create", "sync", "run"} -> Statuses \cup {NoStatus}]
    BY <1>6, StatusTypes DEF CreateReturns, TypeOK
  <2> QED
    BY <1>6, <2>1 DEF CreateReturns, TypeOK, CountedOnce, Stages
<1>7. CASE SyncCollect
  <2>1. tried' \in [{"create", "sync"} -> SUBSET Hosts]
    BY <1>7 DEF SyncCollect, TypeOK
  <2>2. failedHosts' \in SUBSET Hosts
    BY <1>7 DEF SyncCollect, RunWithRetries, TypeOK
  <2> QED
    BY <1>7, <2>1, <2>2, FreshLocalsType
    DEF SyncCollect, RunWithRetries, TypeOK, CountedOnce, Stages
<1>8. CASE SyncHost
  <2> USE <1>8 DEF SyncHost
  <2>0. ThisHost \in Hosts /\ at' \in 1..(Len(Inventory) + 1) /\ ThisHost \in Devices
    BY <1>1, ThisHostFacts
  <2>1. \A done : SyncedDrift(done) \in [Devices -> SUBSET Kinds]
    BY DEF SyncedDrift, TypeOK
  <2>2. /\ duplicates + 1 \in 0..Cardinality(Hosts)
        /\ duplicates < at' /\ duplicates + 1 < at'
    <3>1. at' = at + 1 /\ at <= Len(Inventory) /\ duplicates < at
      BY DEF CountedOnce
    <3>2. at \in Nat
      BY <3>1, ThisHostFacts
    <3>3. duplicates \in 0..Len(Inventory)
      BY <1>1 DEF TypeOK
    <3>4. Len(Inventory) \in Nat
      BY HostsFacts
    <3>5. /\ duplicates + 1 \in 0..Len(Inventory)
          /\ duplicates < at + 1 /\ duplicates + 1 < at + 1
      BY <3>1, <3>2, <3>3, <3>4, CountedBelow
    <3> QED
      BY <1>1, <3>1, <3>5
  <2>3. CASE SyncSkips
    BY <2>0, <2>2, <2>3 DEF SyncSkips, TypeOK, CountedOnce
  <2>4. CASE SyncDuplicate
    BY <2>0, <2>2, <2>4 DEF SyncDuplicate, TypeOK, CountedOnce
  <2>5. CASE SyncRaises
    <3>1. PICK done \in SUBSET Stale(ThisHost) :
            /\ drift' = SyncedDrift(done)
            /\ sent' = (sent \/ (apply /\ done # {}))
      BY <2>5 DEF SyncRaises
    <3>2. drift' \in [Devices -> SUBSET Kinds]
      BY <2>1, <3>1
    <3>3. sent' \in BOOLEAN
      BY <3>1 DEF TypeOK
    <3>4. erred' \in SUBSET Devices
      BY <2>0, <2>5 DEF SyncRaises, TypeOK
    <3>5. trouble' = TRUE /\ UNCHANGED <<stacksSeen, via, duplicates, blocked, written, noted>>
      BY <2>5 DEF SyncRaises
    <3> QED
      BY <2>0, <2>2, <3>2, <3>3, <3>4, <3>5 DEF TypeOK, CountedOnce
  <2>6. CASE SyncSucceeds
    <3>1. /\ drift' \in [Devices -> SUBSET Kinds]
          /\ sent' \in BOOLEAN /\ written' \in BOOLEAN /\ trouble' \in BOOLEAN
          /\ erred' \in SUBSET Devices
          /\ noted' \in [Devices -> SUBSET Warnable]
      <4>0. erred' \in {erred, erred \cup {ThisHost}}
        BY <2>6 DEF SyncSucceeds
      <4>1. PICK done \in SUBSET Stale(ThisHost), spared \in SUBSET Stale(ThisHost) :
              /\ drift' = SyncedDrift(done)
              /\ noted' = WarnedOf(spared)
        BY <2>6 DEF SyncSucceeds
      <4>2. drift' \in [Devices -> SUBSET Kinds]
        BY <2>1, <4>1
      <4>3. sent' \in BOOLEAN /\ written' \in BOOLEAN /\ trouble' \in BOOLEAN
        BY <2>6 DEF SyncSucceeds, TypeOK
      <4>4. erred' \in SUBSET Devices
        BY <2>0, <4>0 DEF TypeOK
      <4>5. noted' \in [Devices -> SUBSET Warnable]
        BY <4>1 DEF TypeOK, Warnable, WarnedOf
      <4> QED
        BY <4>2, <4>3, <4>4, <4>5
    <3>2. stacksSeen' \in SUBSET Range(StackOf)
      BY <2>0, <2>6 DEF SyncSucceeds, TypeOK, Range, Devices
    <3>3. /\ via' \in [Devices -> Hosts \cup {NoHost}] /\ blocked' \in BOOLEAN
          /\ duplicates' = duplicates
      BY <2>0, <2>6 DEF SyncSucceeds, TypeOK
    <3> QED
      BY <2>0, <2>2, <3>1, <3>2, <3>3 DEF TypeOK, CountedOnce
  <2> QED
    BY <2>3, <2>4, <2>5, <2>6
<1>9. CASE SyncReturns
  <2>1. failures' \subseteq Devices
    BY <1>1, <1>9 DEF SyncReturns, Uncovered, Unreachable, TypeOK
  <2>2. status' \in [{"create", "sync", "run"} -> Statuses \cup {NoStatus}]
    BY <1>9, StatusTypes DEF SyncReturns, TypeOK
  <2> QED
    BY <1>9, <2>1, <2>2 DEF SyncReturns, TypeOK, CountedOnce, Stages
<1>10. CASE Abort
  <2>1. status' \in [{"create", "sync", "run"} -> Statuses \cup {NoStatus}]
    BY <1>10 DEF Abort, TypeOK, Statuses
  <2> QED
    BY <1>10, <2>1 DEF Abort, TypeOK, CountedOnce, Stages
<1>11. CASE UNCHANGED vars
  BY <1>11 DEF vars, TypeOK, CountedOnce
<1> QED
  BY <1>2, <1>3, <1>4, <1>5, <1>6, <1>7, <1>8, <1>9, <1>10, <1>11 DEF Next

-----------------------------------------------------------------------------
(* The program starts in the invariant.                                    *)
LEMMA InitIInv == Init => IInv
<1> SUFFICES ASSUME Init PROVE IInv
  OBVIOUS
<1>1. /\ TypeOK /\ CountedOnce
      /\ stage \in {"create collect", "sync collect"}
      /\ failedHosts = {} /\ noSession = {} /\ ~sent
      /\ status["create"] = NoStatus
      /\ \A h \in Hosts : outcome[h] = "not run"
      /\ only = "sync" => stage = "sync collect"
      /\ stage = "sync collect" => only = "sync"
  BY InitTypeOK DEF Init
<1>2. HostsRead /\ Covering /\ Planning /\ Unharmed
  BY <1>1 DEF HostsRead, Covering, Planning, Unharmed, Creating, Failing
<1>3. CreateDone /\ Synced
  BY <1>1 DEF CreateDone, Synced, Syncing, Creating, UncheckedIsReported, NoStatus
<1>4. Promises
  BY <1>1 DEF Promises, WritesAreReported, OKHidesNothing, CleanApply, Untroubled, Done
<1> QED
  BY <1>1, <1>2, <1>3, <1>4 DEF IInv

-----------------------------------------------------------------------------
(* Only the two collections touch the outcomes.                            *)
LEMMA NextHostsRead == TypeOK /\ HostsRead /\ [Next]_vars => HostsRead'
<1> SUFFICES ASSUME TypeOK, HostsRead, [Next]_vars PROVE HostsRead'
  OBVIOUS
<1> USE DEF inputs, locals, history
<1>1. CASE CreateCollect
  <2>1. /\ outcome' \in [Hosts -> Outcomes] /\ dark' = dark
        /\ \A h \in Hosts : outcome'[h] # "not run"
        /\ \A h \in dark \cap Hosts : outcome'[h] # "ok"
        /\ failedHosts' = {h \in Hosts : outcome'[h] # "ok"}
        /\ stage' = "create resolve"
    BY <1>1 DEF CreateCollect, RunWithRetries, HostsRead
  <2> QED
    BY <2>1 DEF HostsRead, Failing
<1>2. CASE SyncCollect
  <2>1. /\ dark' = dark
        /\ \A h \in dark \cap Hosts : outcome'[h] # "ok"
        /\ stage' = "sync devices"
    BY <1>2 DEF SyncCollect, RunWithRetries
  <2>2. \A h \in Hosts : outcome'[h] \in Failing => h \in failedHosts'
    BY <1>2 DEF SyncCollect, RunWithRetries, Failing
  <2> QED
    BY <2>1, <2>2 DEF HostsRead, Creating
<1>3. ASSUME UNCHANGED <<failedHosts, outcome, dark, noSession, stage>> PROVE HostsRead'
  BY <1>3 DEF HostsRead, Creating
<1>4. CASE CreateReturns \/ SyncReturns \/ Abort
  <2>1. /\ UNCHANGED <<failedHosts, outcome, dark>>
        /\ stage' \in {"sync collect", "done"}
    BY <1>4 DEF CreateReturns, SyncReturns, Abort
  <2> QED
    BY <2>1 DEF HostsRead, Creating
<1>5. CASE CreateReports
  BY <1>5 DEF CreateReports, HostsRead, Creating
<1>6. ASSUME NEW d \in Devices, CreateApplies(d) PROVE HostsRead'
  BY <1>3, <1>6 DEF CreateApplies
<1>7. CASE CreateHost \/ SyncHost \/ UNCHANGED vars
  BY <1>3, <1>7 DEF CreateHost, SyncHost, vars
<1> QED
  BY <1>1, <1>2, <1>4, <1>5, <1>6, <1>7 DEF Next

-----------------------------------------------------------------------------
(* As long as nothing goes wrong, each step leaves every host read.        *)
LEMMA NextUnharmed == TypeOK /\ HostsRead /\ Unharmed /\ [Next]_vars => Unharmed'
<1> SUFFICES ASSUME TypeOK, HostsRead, Unharmed, [Next]_vars, ~trouble' PROVE Unharmed'
  BY DEF Unharmed
<1> USE DEF inputs, locals, history
<1>1. CASE CreateCollect
  BY <1>1 DEF CreateCollect, RunWithRetries, HostsRead, Unharmed
<1>2. CASE SyncCollect
  <2>1. ~trouble /\ failedHosts = {} /\ noSession = {}
    BY <1>2 DEF SyncCollect, RunWithRetries, Unharmed
  <2> QED
    BY <1>2, <2>1 DEF SyncCollect, RunWithRetries, Unharmed
<1>3. CASE CreateReturns
  <2>1. /\ ~trouble /\ failedHosts' = {} /\ noSession' = {}
        /\ stage' \in {"sync collect", "done"}
    BY <1>3 DEF CreateReturns, Unharmed, Creating
  <2> QED
    BY <2>1 DEF Unharmed, Creating
<1>4. ASSUME ~trouble, UNCHANGED <<failedHosts, noSession, outcome>>,
             \/ stage' = "done"
             \/ stage' = stage
             \/ stage = "create resolve" /\ stage' = "create apply"
      PROVE  Unharmed'
  BY <1>4 DEF Unharmed, Creating
<1>5. CASE CreateHost
  <2>1. ~trouble
    BY <1>5 DEF CreateHost, CreateSkips, CreateLookupFails, CreateClassifies
  <2> QED
    BY <1>4, <1>5, <2>1 DEF CreateHost
<1>6. CASE SyncHost
  <2>1. ~trouble
    BY <1>6 DEF SyncHost, SyncSkips, SyncDuplicate, SyncRaises, SyncSucceeds
  <2> QED
    BY <1>4, <1>6, <2>1 DEF SyncHost
<1>7. ASSUME NEW d \in Devices, CreateApplies(d) PROVE Unharmed'
  <2>1. ~trouble
    BY <1>7 DEF CreateApplies, WritePlan
  <2> QED
    BY <1>4, <1>7, <2>1 DEF CreateApplies
<1>8. CASE CreateReports \/ SyncReturns \/ UNCHANGED vars
  <2>1. /\ ~trouble /\ UNCHANGED <<failedHosts, noSession, outcome>>
        /\ \/ stage' = "done"
           \/ stage' = stage
           \/ stage = "create resolve" /\ stage' = "create apply"
    <3>1. CASE CreateReports
      BY <3>1 DEF CreateReports
    <3>2. CASE SyncReturns
      BY <3>2 DEF SyncReturns
    <3>3. CASE UNCHANGED vars
      BY <3>3 DEF vars
    <3> QED
      BY <1>8, <3>1, <3>2, <3>3
  <2> QED
    BY <1>4, <2>1
<1>9. CASE Abort
  BY <1>9 DEF Abort
<1> QED
  BY <1>1, <1>2, <1>3, <1>5, <1>6, <1>7, <1>8, <1>9 DEF Next

-----------------------------------------------------------------------------
(* Each result the create step takes up is dealt with: skipped for its     *)
(* stack, reported as failed, or covered.                                  *)
LEMMA NextCovering == TypeOK /\ Covering /\ [Next]_vars => Covering'
<1> SUFFICES ASSUME TypeOK, Covering, [Next]_vars, Creating' PROVE Covering'
  BY DEF Covering, Creating
<1> USE DEF inputs, locals, history
<1>1. CASE CreateCollect
  <2>1. /\ via' = [d \in Devices |-> NoHost]
        /\ stacksSeen' = {} /\ blocked' = FALSE
        /\ at' = 1 /\ stage' = "create resolve"
    BY <1>1 DEF CreateCollect, FreshLocals
  <2>2. Covered'
    BY <2>1 DEF Covered
  <2>3. 1..(at' - 1) = {}
    BY <2>1, NoneBefore
  <2> QED
    BY <2>1, <2>2, <2>3 DEF Covering
<1>2. CASE CreateHost
  <2>1. /\ stage = "create resolve" /\ stage' = stage
        /\ at' = at + 1 /\ UNCHANGED <<outcome, dark, orphans>>
        /\ at <= Len(Inventory)
    BY <1>2 DEF CreateHost
  <2>2. ThisHost \in Hosts /\ at \in Nat /\ ThisHost \in Devices
    BY <2>1, ThisHostFacts, HostsFacts
  <2>3. \A i \in 1..(at' - 1) : i \in 1..(at - 1) \/ i = at
    BY <2>1, <2>2, OneMoreBefore
  <2>4. Collected' = Collected /\ \A h : Seen(h)' = Seen(h)
    BY <2>1 DEF Collected, Seen, Mates
  <2>5. Covered
    BY <2>1 DEF Covering, Creating
  <2>6. CASE CreateSkips
    <3>1. UNCHANGED <<via, stacksSeen, planned, blocked, failures>>
      BY <2>6 DEF CreateSkips
    <3>2. Covered'
      BY <2>1, <2>4, <2>5, <3>1 DEF Covered
    <3> QED
      BY <2>1, <2>3, <2>4, <2>6, <3>1, <3>2 DEF Covering, CreateSkips, ThisHost
  <2>7. CASE CreateLookupFails
    <3>1. /\ UNCHANGED <<via, stacksSeen, planned, blocked>>
          /\ failures' = failures \cup {ThisHost}
      BY <2>7 DEF CreateLookupFails
    <3>2. Covered'
      BY <2>1, <2>4, <2>5, <3>1 DEF Covered
    <3> QED
      BY <2>1, <2>3, <2>4, <3>1, <3>2 DEF Covering, ThisHost
  <2>8. CASE CreateClassifies
    <3>1. /\ ThisHost \in Collected
          /\ stacksSeen' = stacksSeen \cup {StackOf[ThisHost]}
          /\ planned' = planned \cup Seen(ThisHost)
          /\ blocked' = (blocked \/ StackOf[ThisHost] \in orphans)
          /\ failures' = failures
      BY <2>8 DEF CreateClassifies
    <3>2. \A d \in Devices :
            \/ via'[d] = via[d] /\ (d \notin Seen(ThisHost) \/ via[d] # NoHost)
            \/ via'[d] = ThisHost /\ d \in Seen(ThisHost)
      BY <2>8 DEF CreateClassifies
    <3>3. ASSUME NEW d \in Devices, via'[d] # NoHost
          PROVE  /\ via'[d] \in Collected
                 /\ StackOf[via'[d]] \in stacksSeen'
                 /\ d \in Seen(via'[d])
                 /\ Seen(via'[d]) \subseteq planned'
      <4>1. CASE via'[d] = via[d]
        BY <2>5, <3>1, <3>3, <4>1 DEF Covered
      <4>2. CASE via'[d] = ThisHost /\ d \in Seen(ThisHost)
        BY <3>1, <4>2
      <4> QED
        BY <3>2, <4>1, <4>2
    <3>4. ASSUME NEW d \in Devices \ dark, StackOf[d] \in stacksSeen'
          PROVE  via'[d] # NoHost
      <4>1. ThisHost # NoHost
        BY <2>2, HostsFacts
      <4>2. CASE StackOf[d] \in stacksSeen
        BY <2>5, <3>2, <4>1, <4>2 DEF Covered
      <4>3. CASE StackOf[d] = StackOf[ThisHost]
        BY <2>2, <3>2, <4>1, <4>3, SeenFacts
      <4> QED
        BY <3>1, <3>4, <4>2, <4>3
    <3>5. /\ stacksSeen' \cap orphans # {} => blocked'
          /\ blocked' => \E h \in Hosts : StackOf[h] \in orphans
      BY <2>2, <2>5, <3>1 DEF Covered
    <3>6. Covered'
      BY <2>1, <2>4, <3>3, <3>4, <3>5 DEF Covered
    <3> QED
      BY <2>1, <2>3, <2>4, <3>1, <3>6 DEF Covering, ThisHost
  <2> QED
    BY <1>2, <2>6, <2>7, <2>8 DEF CreateHost
<1>3. ASSUME Covered, UNCHANGED <<outcome, dark, orphans, via, stacksSeen, planned, blocked>>
      PROVE  Covered'
  <2>1. Collected' = Collected /\ \A h : Seen(h)' = Seen(h)
    BY <1>3 DEF Collected, Seen, Mates
  <2> QED
    BY <1>3, <2>1 DEF Covered
<1>4. CASE CreateReports
  <2>1. Covered'
    BY <1>3, <1>4 DEF CreateReports, Covering, Creating
  <2>2. ASSUME NEW h \in Hosts PROVE Told(h)'
    <3>1. PICK i \in 1..Len(Inventory) : Inventory[i] = h
      BY HostsFacts
    <3>2. i \in 1..(at - 1)
      <4>1. at \in 1..(Len(Inventory) + 1) /\ Len(Inventory) \in Nat /\ at > Len(Inventory)
        BY <1>4, HostsFacts DEF TypeOK, CreateReports
      <4> QED
        BY <4>1
    <3>3. outcome[h] = "ok" => h \in failures \/ StackOf[h] \in stacksSeen
      BY <1>4, <3>1, <3>2 DEF CreateReports, Covering, Collected
    <3>4. outcome[h] \in Failing => h \in failures' \/ via[h] \notin {NoHost, h}
      BY <1>4 DEF CreateReports, Uncovered, Unreachable, Failing
    <3> QED
      BY <1>4, <3>3, <3>4 DEF CreateReports, Told
  <2> QED
    BY <1>4, <2>1, <2>2 DEF CreateReports, Covering
<1>5. ASSUME NEW d \in Devices, CreateApplies(d) PROVE Covering'
  <2>1. failures \subseteq failures'
    BY <1>5 DEF CreateApplies, WritePlan
  <2>2. Covered'
    BY <1>3, <1>5 DEF CreateApplies, Covering, Creating
  <2> QED
    BY <1>5, <2>1, <2>2 DEF CreateApplies, Covering, Told
<1>6. CASE UNCHANGED vars
  <2>1. Covered'
    BY <1>3, <1>6 DEF vars, Covering, Creating
  <2> QED
    BY <1>6, <2>1 DEF vars, Covering, Told, Collected
<1>7. CASE CreateReturns \/ SyncCollect \/ SyncHost \/ SyncReturns \/ Abort
  BY <1>7 DEF CreateReturns, SyncCollect, SyncHost, SyncReturns, Abort, Creating
<1> QED
  BY <1>1, <1>2, <1>4, <1>5, <1>6, <1>7 DEF Next

-----------------------------------------------------------------------------
(* A device's plan is what the create step may change of it, until the     *)
(* plan is applied.                                                        *)
LEMMA NextPlanning ==
  TypeOK /\ HostsRead /\ Unharmed /\ Planning /\ [Next]_vars => Planning'
<1> SUFFICES ASSUME TypeOK, HostsRead, Unharmed, Planning, [Next]_vars,
                    Creating' \/ stage' = "create collect"
             PROVE  Planning'
  BY DEF Planning, Creating
<1> USE DEF inputs, locals, history
<1>1. CASE CreateCollect
  BY <1>1 DEF CreateCollect, FreshLocals, Planning
<1>2. CASE CreateHost
  <2>1. /\ stage = "create resolve" /\ Creating /\ stage' = stage
        /\ UNCHANGED <<apply, drift, todo, erred, written, sent>>
    BY <1>2 DEF CreateHost, Creating
  <2>2. /\ todo = {} /\ erred = {} /\ ~written /\ ~sent
        /\ \A d \in Devices \ planned : plan[d] = {}
        /\ \A d \in planned : Untold(d) \cap CreateKinds \subseteq plan[d]
        /\ ~trouble => failures = {}
    BY <2>1 DEF Planning
  <2>3. CASE CreateSkips
    BY <2>1, <2>2, <2>3 DEF CreateSkips, Planning, Untold
  <2>4. CASE CreateLookupFails
    BY <2>1, <2>2, <2>4 DEF CreateLookupFails, Planning, Untold
  <2>5. CASE CreateClassifies
    <3>1. /\ planned' = planned \cup Seen(ThisHost)
          /\ UNCHANGED <<failures, trouble>>
      BY <2>5 DEF CreateClassifies
    <3>2. \A d \in Devices :
            IF d \in Seen(ThisHost) THEN Untold(d)' \cap CreateKinds \subseteq plan'[d]
            ELSE plan'[d] = plan[d] /\ Untold(d)' = Untold(d)
      <4>1. PICK left \in LeftOut(ThisHost), still \in BOOLEAN :
              /\ plan' = [d \in Devices |-> IF d \in Seen(ThisHost)
                            THEN (drift[d] \cap CreateKinds) \ (IF still THEN {} ELSE left[d])
                            ELSE plan[d]]
              /\ noted' = [d \in Devices |-> IF d \in Seen(ThisHost)
                                             THEN noted[d] \cup left[d] ELSE noted[d]]
        BY <2>5 DEF CreateClassifies
      <4> QED
        BY <2>1, <4>1 DEF Untold
    <3>3. /\ \A d \in Devices \ planned' : plan'[d] = {}
          /\ \A d \in planned' : Untold(d)' \cap CreateKinds \subseteq plan'[d]
      <4>1. planned' \subseteq Devices
        BY <1>2, NextTypeOK, ThisHostFacts, HostsFacts, SeenFacts, <3>1
        DEF TypeOK, CreateHost
      <4> QED
        BY <2>2, <3>1, <3>2, <4>1
    <3> QED
      BY <2>1, <2>2, <3>1, <3>3 DEF Planning
  <2> QED
    BY <1>2, <2>3, <2>4, <2>5 DEF CreateHost
<1>3. CASE CreateReports
  <2>1. /\ stage = "create resolve" /\ Creating /\ stage' = "create apply"
        /\ todo' = IF apply THEN planned ELSE {}
        /\ failures' = failures \cup Uncovered(Unreachable)
        /\ UNCHANGED <<apply, drift, noted, erred, written, sent, plan, planned, trouble>>
        /\ \A d : Untold(d)' = Untold(d)
    BY <1>3 DEF CreateReports, Creating, Untold
  <2>2. ~trouble => failures' = {}
    <3>1. ~trouble => Unreachable = {}
      BY <2>1 DEF Unharmed, Unreachable
    <3> QED
      BY <2>1, <3>1 DEF Planning, Uncovered
  <2> QED
    BY <2>1, <2>2 DEF Planning
<1>4. ASSUME NEW d \in Devices, CreateApplies(d) PROVE Planning'
  <2>1. PICK failing \in SUBSET plan[d] : WritePlan(d, failing)
    BY <1>4 DEF CreateApplies
  <2>2. /\ stage = "create apply" /\ Creating /\ stage' = "create apply" /\ d \in todo
        /\ todo' = todo \ {d} /\ UNCHANGED <<apply, plan, planned, noted>>
    BY <1>4 DEF CreateApplies, Creating
  <2>3. apply /\ d \in planned /\ Untold(d) \cap CreateKinds \subseteq plan[d]
    BY <2>2 DEF Planning, TypeOK
  <2> DEFINE done == plan[d] \ failing
  <2>4. /\ \A e \in Devices : e # d => drift'[e] = drift[e]
        /\ drift'[d] = (drift[d] \ (done \ noted[d])) \cup (IF "port" \in done THEN {"state"} ELSE {})
        /\ written' = (written \/ done # {})
        /\ failures' = IF failing = {} THEN failures ELSE failures \cup {d}
        /\ sent' = (sent \/ plan[d] # {})
        /\ trouble' = (trouble \/ failing # {})
    BY <2>1 DEF WritePlan, TypeOK
  <2> HIDE DEF done
  <2>5. plan[d] = {} => Untold(d)' \cap CreateKinds = {}
    BY <2>2, <2>3, <2>4 DEF Untold, done
  <2>6. plan[d] # {} => written' \/ failures' # {}
    BY <2>4 DEF done
  <2>7. ~trouble' => Untold(d)' \subseteq {"state"}
    <3>1. drift[d] \subseteq Kinds
      BY DEF TypeOK
    <3>2. ~trouble' => done = plan[d]
      BY <2>4 DEF done
    <3> QED
      BY <2>2, <2>3, <2>4, <3>1, <3>2 DEF CreateKinds, Untold
  <2>8. /\ written => written'
        /\ failures # {} => failures' # {}
        /\ ~trouble' => ~trouble /\ failures' = failures
    BY <2>4
  <2>9. planned \subseteq Devices /\ todo \subseteq planned
    BY DEF TypeOK
  <2>10. \A e \in planned : IF e \in todo' THEN Untold(e)' \cap CreateKinds \subseteq plan[e]
                           ELSE /\ plan[e] # {} => written' \/ failures' # {}
                                /\ ~trouble' => Untold(e)' \subseteq {"state"}
    <3> SUFFICES ASSUME NEW e \in planned
                 PROVE  IF e \in todo' THEN Untold(e)' \cap CreateKinds \subseteq plan[e]
                        ELSE /\ plan[e] # {} => written' \/ failures' # {}
                             /\ ~trouble' => Untold(e)' \subseteq {"state"}
      OBVIOUS
    <3>1. CASE e = d
      BY <2>2, <2>6, <2>7, <3>1
    <3>2. CASE e # d
      <4>1. Untold(e)' = Untold(e) /\ (e \in todo' <=> e \in todo)
        BY <2>2, <2>4, <2>9, <3>2 DEF Untold
      <4>2. IF e \in todo THEN Untold(e) \cap CreateKinds \subseteq plan[e]
            ELSE /\ plan[e] # {} => written \/ failures # {}
                 /\ ~trouble => Untold(e) \subseteq {"state"}
        BY <2>2, <2>3 DEF Planning
      <4> QED
        BY <2>8, <4>1, <4>2
    <3> QED
      BY <3>1, <3>2
  <2>11. /\ \A e \in Devices \ planned' : plan'[e] = {}
         /\ \A e \in planned' : plan'[e] = {} => Untold(e)' \cap CreateKinds = {}
    <3>1. \A e \in Devices : e # d => Untold(e)' = Untold(e)
      BY <2>2, <2>4 DEF Untold
    <3> QED
      BY <2>2, <2>5, <2>9, <3>1 DEF Planning
  <2>12. /\ written' => sent'
         /\ sent' => apply' /\ (written' \/ failures' # {})
         /\ ~trouble' => failures' = {}
    <3>1. /\ written => sent
          /\ sent => written \/ failures # {}
          /\ ~trouble => failures = {}
      BY <2>2 DEF Planning
    <3>2. done # {} => plan[d] # {}
      BY DEF done
    <3> QED
      BY <2>2, <2>3, <2>4, <2>6, <2>8, <3>1, <3>2
  <2> QED
    BY <2>2, <2>3, <2>10, <2>11, <2>12 DEF Planning
<1>5. CASE UNCHANGED vars
  BY <1>5 DEF vars, Planning, Creating, Untold
<1>6. CASE CreateReturns \/ SyncCollect \/ SyncHost \/ SyncReturns \/ Abort
  BY <1>6 DEF CreateReturns, SyncCollect, SyncHost, SyncReturns, Abort, Creating
<1> QED
  BY <1>1, <1>2, <1>3, <1>4, <1>5, <1>6 DEF Next

-----------------------------------------------------------------------------
(* When the create step reports no failure, each host's own ports were     *)
(* filed, and so were those of every device its stack reports.             *)
LEMMA AllCovered ==
  ASSUME TypeOK, HostsRead, Covering, stage = "create apply", failures = {},
         NEW h \in Hosts
  PROVE  /\ via[h] # NoHost /\ h \in Seen(via[h])
         /\ via[h] \in Hosts /\ via[h] \notin failedHosts
         /\ outcome[via[h]] = "ok"
         /\ StackOf[via[h]] = StackOf[h]
         /\ StackOf[h] \in stacksSeen
         /\ Seen(h) \subseteq planned
<1>1. Covered /\ Told(h)
  BY DEF Covering, Creating
<1>2. h \in Devices /\ NoHost \notin Hosts
  BY HostsFacts
<1>3. outcome[h] = "ok" \/ outcome[h] \in Failing
  BY DEF HostsRead, Creating, TypeOK, Outcomes, Failing
<1>4. via[h] # NoHost
  <2>1. CASE outcome[h] = "ok"
    BY <1>1, <1>2, <2>1 DEF Told, Covered, HostsRead
  <2>2. CASE outcome[h] \in Failing
    BY <1>1, <2>2 DEF Told
  <2> QED
    BY <1>3, <2>1, <2>2
<1>5. /\ via[h] \in Collected /\ via[h] \in Devices
      /\ StackOf[via[h]] \in stacksSeen
      /\ h \in Seen(via[h])
      /\ Seen(via[h]) \subseteq planned
  BY <1>1, <1>2, <1>4, HostsFacts DEF Covered, Collected
<1>6. StackOf[via[h]] = StackOf[h]
  BY <1>5, SeenFacts
<1>7. ASSUME NEW d \in Seen(h) PROVE d \in planned
  <2>1. CASE d = h
    BY <1>5, <2>1
  <2>2. CASE d # h
    <3>1. d \in Devices \ dark /\ StackOf[d] \in stacksSeen
      BY <1>2, <1>5, <1>6, <2>2 DEF Seen, Mates
    <3> QED
      BY <1>1, <3>1 DEF Covered
  <2> QED
    BY <2>1, <2>2
<1> QED
  BY <1>4, <1>5, <1>6, <1>7 DEF Collected, HostsRead, Creating

(* What the create step's status says when it returns.                     *)
LEMMA CreateStatusSays ==
  ASSUME TypeOK, Planning, stage = "create apply", todo = {}
  PROVE  /\ apply => CreateStatus # "drift"
         /\ CreateStatus \in {"ok", "drift", "changed"} => failures = {} /\ ~blocked
         /\ CreateStatus = "ok" =>
              \A d \in planned : plan[d] = {} /\ Untold(d) \subseteq {"state"}
         /\ sent => CreateStatus \in {"changed", "partial", "error"}
         /\ apply /\ ~trouble /\ ~blocked => CreateStatus = IF sent THEN "changed" ELSE "ok"
<1>1. /\ \A d \in planned : plan[d] = {} => Untold(d) \cap CreateKinds = {}
      /\ written => sent
      /\ sent => apply /\ (written \/ failures # {})
      /\ ~trouble => failures = {}
      /\ apply => \A d \in planned : plan[d] # {} => written \/ failures # {}
  BY DEF Planning, Creating
<1>2. apply => CreateStatus # "drift"
  BY <1>1 DEF CreateStatus
<1>3. CreateStatus \in {"ok", "drift", "changed"} => failures = {} /\ ~blocked
  BY DEF CreateStatus
<1>4. CreateStatus = "ok" => \A d \in planned : plan[d] = {}
  BY DEF CreateStatus
<1>5. ASSUME NEW d \in planned, plan[d] = {} PROVE Untold(d) \subseteq {"state"}
  BY <1>1, <1>5 DEF TypeOK, CreateKinds, Kinds, Untold
<1>6. sent => CreateStatus \in {"changed", "partial", "error"}
  BY <1>1 DEF CreateStatus
<1>7. apply /\ ~trouble /\ ~blocked => CreateStatus = IF sent THEN "changed" ELSE "ok"
  BY <1>1 DEF CreateStatus
<1> QED
  BY <1>2, <1>3, <1>4, <1>5, <1>6, <1>7

-----------------------------------------------------------------------------
(* Once the create step has returned, its status says what it read.        *)
LEMMA NextCreateDone ==
  TypeOK /\ HostsRead /\ Covering /\ Planning /\ Unharmed /\ CreateDone /\ [Next]_vars
    => CreateDone'
<1> SUFFICES ASSUME TypeOK, HostsRead, Covering, Planning, Unharmed, CreateDone, [Next]_vars
             PROVE  CreateDone'
  OBVIOUS
<1> USE DEF inputs, locals, history
<1>1. ASSUME UNCHANGED <<only, status>>, ~Syncing, ~Syncing',
             only = "sync" => stage' = stage \/ stage' = "done"
      PROVE  CreateDone'
  BY <1>1 DEF CreateDone, Syncing, Creating, UncheckedIsReported
<1>2. CASE CreateCollect
  BY <1>2 DEF CreateCollect, CreateDone, Syncing, Creating, UncheckedIsReported
<1>3. CASE CreateHost
  BY <1>1, <1>3 DEF CreateHost, Syncing
<1>4. CASE CreateReports
  BY <1>4 DEF CreateReports, CreateDone, Syncing, Creating, UncheckedIsReported
<1>5. ASSUME NEW d \in Devices, CreateApplies(d) PROVE CreateDone'
  BY <1>1, <1>5 DEF CreateApplies, Syncing
<1>6. CASE CreateReturns
  <2>1. /\ stage = "create apply" /\ todo = {} /\ Creating
        /\ noSession' = {h \in Hosts : outcome[h] = "connect"}
        /\ UNCHANGED <<apply, only, dark, orphans, drift, noted, via, failedHosts, outcome, trouble>>
        /\ stage' = IF only = "create" THEN "done" ELSE "sync collect"
        /\ status'["create"] = CreateStatus
    BY <1>6 DEF CreateReturns, Creating, TypeOK
  <2>2. \A h : Seen(h)' = Seen(h)
    BY <2>1 DEF Seen, Mates
  <2>3. ASSUME failures = {}, NEW h \in Hosts
        PROVE  /\ via[h] # NoHost /\ h \in Seen(via[h])
               /\ Readable(h)' \/ stage' = "done"
               /\ StackOf[h] \in stacksSeen
               /\ Seen(h) \subseteq planned
    BY <2>1, <2>3, AllCovered DEF Readable
  <2>4. ASSUME failures = {}, \A d \in planned : Untold(d) \subseteq {"state"}
        PROVE  OnlyState'
    BY <2>1, <2>2, <2>3, <2>4 DEF OnlyState, Untold
  <2>5. ASSUME CreateStatus = "ok", Syncing'
        PROVE  /\ (dark \cap Hosts = {})'
               /\ ~SomeOrphan'
               /\ OnlyState'
               /\ \A h \in Hosts : Readable(h)'
    <3>1. /\ failures = {} /\ ~blocked
          /\ \A d \in planned : Untold(d) \subseteq {"state"}
      BY <2>1, <2>5, CreateStatusSays
    <3>2. ASSUME NEW h \in Hosts PROVE h \notin dark
      <4>1. h # via[h] => h \notin dark
        BY <2>3, <3>1 DEF Seen
      <4>2. outcome[via[h]] = "ok" /\ via[h] \in Hosts
        BY <2>1, <3>1, AllCovered
      <4> QED
        BY <4>1, <4>2 DEF HostsRead
    <3>3. ~SomeOrphan
      BY <2>1, <2>3, <3>1 DEF SomeOrphan, Covering, Covered
    <3> QED
      BY <2>1, <2>3, <2>4, <2>5, <3>1, <3>2, <3>3 DEF SomeOrphan, Syncing
  <2>6. apply /\ ~trouble => OnlyState'
    <3>1. ASSUME apply, ~trouble
          PROVE  failures = {} /\ \A d \in planned : Untold(d) \subseteq {"state"}
      BY <2>1, <3>1 DEF Planning
    <3> QED
      BY <2>4, <3>1
  <2>7. UncheckedIsReported'
    <3>1. CreateStatus \in {"ok", "drift", "changed"} => failures = {}
      BY <2>1, CreateStatusSays
    <3> QED
      BY <2>1, <2>2, <2>3, <3>1 DEF UncheckedIsReported
  <2>8. only # "sync"
    BY <2>1 DEF CreateDone
  <2>9. CreateStatus \in Statuses /\ (apply => CreateStatus # "drift")
    BY <2>1, CreateStatusSays, StatusTypes
  <2>10. Syncing' => only # "create"
    BY <2>1 DEF Syncing
  <2> QED
    BY <2>1, <2>5, <2>6, <2>7, <2>8, <2>9, <2>10 DEF CreateDone
<1>7. CASE SyncCollect
  <2>1. /\ stage = "sync collect" /\ stage' = "sync devices" /\ Syncing
        /\ UNCHANGED <<apply, only, dark, orphans, drift, noted, status>>
        /\ \A h \in Hosts : h \notin failedHosts \cup noSession => outcome'[h] # "not run"
        /\ ~trouble' => ~trouble
    BY <1>7 DEF SyncCollect, RunWithRetries, Syncing
  <2>2. OnlyState => OnlyState'
    BY <2>1 DEF OnlyState, Untold, Seen, Mates
  <2>3. ASSUME NEW h \in Hosts, Readable(h) PROVE Readable(h)'
    BY <2>1, <2>3 DEF Readable
  <2>4. UncheckedIsReported'
    BY <2>1 DEF UncheckedIsReported
  <2> QED
    BY <2>1, <2>2, <2>3, <2>4 DEF CreateDone, Creating, SomeOrphan
<1>8. CASE SyncHost
  <2>1. /\ stage = "sync devices" /\ stage' = "sync devices" /\ Syncing
        /\ UNCHANGED <<apply, only, dark, orphans, outcome, status>>
    BY <1>8 DEF SyncHost, Syncing
  <2>2. /\ \A d \in Devices : Untold(d)' \subseteq Untold(d)
        /\ ~trouble' => ~trouble
    <3>1. \A done : \A d \in Devices : SyncedDrift(done)[d] \subseteq drift[d]
      BY DEF SyncedDrift
    <3>2. CASE SyncSkips \/ SyncDuplicate
      BY <3>2 DEF SyncSkips, SyncDuplicate, Untold
    <3>3. CASE SyncRaises
      BY <3>1, <3>3 DEF SyncRaises, Untold
    <3>4. CASE SyncSucceeds
      <4>1. PICK done \in SUBSET Stale(ThisHost), spared \in SUBSET Stale(ThisHost),
                 error \in BOOLEAN :
              /\ drift' = SyncedDrift(done)
              /\ trouble' = (trouble \/ error)
              /\ noted' = WarnedOf(spared)
        BY <3>4 DEF SyncSucceeds
      <4> QED
        BY <3>1, <4>1 DEF Untold, WarnedOf
    <3> QED
      BY <1>8, <3>2, <3>3, <3>4 DEF SyncHost
  <2>3. OnlyState => OnlyState'
    <3>1. \A h \in Hosts : Seen(h)' = Seen(h) /\ Seen(h) \subseteq Devices
      BY <2>1, HostsFacts, SeenFacts DEF Seen, Mates
    <3> QED
      BY <2>2, <3>1 DEF OnlyState
  <2>4. ASSUME NEW h \in Hosts, Readable(h) PROVE Readable(h)'
    BY <2>1, <2>4 DEF Readable
  <2>5. UncheckedIsReported'
    BY <2>1 DEF UncheckedIsReported
  <2> QED
    BY <2>1, <2>2, <2>3, <2>4, <2>5 DEF CreateDone, Creating, SomeOrphan
<1>9. CASE SyncReturns \/ Abort
  <2>1. /\ stage' = "done" /\ UNCHANGED only
        /\ status'["create"] = status["create"]
    BY <1>9 DEF SyncReturns, Abort, TypeOK
  <2> QED
    BY <2>1 DEF CreateDone, Syncing, Creating, UncheckedIsReported
<1>10. CASE UNCHANGED vars
  BY <1>10
  DEF vars, CreateDone, Syncing, Creating, UncheckedIsReported, SomeOrphan, OnlyState,
      Untold, Readable, Seen, Mates
<1> QED
  BY <1>2, <1>3, <1>4, <1>5, <1>6, <1>7, <1>8, <1>9, <1>10 DEF Next

-----------------------------------------------------------------------------
(* A device the sync step leaves with a difference in its existing         *)
(* interfaces is on record: as written, or as an error.                    *)
LEMMA NextSynced ==
  TypeOK /\ HostsRead /\ Covering /\ Planning /\ Unharmed /\ CreateDone /\ Synced /\ [Next]_vars
    => Synced'
<1> SUFFICES ASSUME TypeOK, HostsRead, Covering, Planning, Unharmed, CreateDone, Synced,
                    [Next]_vars, Syncing'
             PROVE  Synced'
  BY DEF Synced, Syncing
<1> USE DEF inputs, locals, history
<1>1. CASE CreateReturns
  <2>1. /\ stage = "create apply" /\ todo = {} /\ Creating
        /\ UNCHANGED <<apply, only, orphans, sent, trouble>>
        /\ stage' = "sync collect"
        /\ status'["create"] = CreateStatus
    BY <1>1 DEF CreateReturns, Creating, TypeOK, Syncing
  <2>2. blocked => SomeOrphan
    BY <2>1 DEF Covering, Covered, SomeOrphan
  <2>3. SomeOrphan' <=> SomeOrphan
    BY <2>1 DEF SomeOrphan
  <2> QED
    BY <2>1, <2>2, <2>3, CreateStatusSays DEF Synced
<1>2. CASE SyncCollect
  <2>1. /\ stage = "sync collect" /\ stage' = "sync devices"
        /\ UNCHANGED <<apply, only, orphans, dark, drift, noted, status, sent>>
        /\ stacksSeen' = {} /\ via' = [d \in Devices |-> NoHost]
        /\ erred' = {} /\ written' = FALSE /\ blocked' = FALSE /\ at' = 1
        /\ ~trouble' => ~trouble
    BY <1>2 DEF SyncCollect, RunWithRetries, FreshLocals
  <2>2. 1..(at' - 1) = {}
    BY <2>1, NoneBefore
  <2>3. StateSynced' /\ (SomeOrphan' <=> SomeOrphan)
    BY <2>1 DEF StateSynced, SomeOrphan
  <2>4. apply /\ ~trouble /\ only = "both" =>
          SomeOrphan \/ status["create"] = IF sent THEN "changed" ELSE "ok"
    BY <2>1 DEF Synced
  <2>5. sent => status["create"] \in {"changed", "partial", "error"}
    BY <2>1 DEF Synced
  <2> QED
    BY <2>1, <2>2, <2>3, <2>4, <2>5 DEF Synced
<1>3. CASE SyncHost
  <2>1. /\ stage = "sync devices" /\ stage' = "sync devices" /\ Syncing
        /\ at' = at + 1 /\ at <= Len(Inventory)
        /\ UNCHANGED <<apply, only, dark, orphans, outcome, status>>
    BY <1>3 DEF SyncHost, Syncing
  <2>2. ThisHost \in Hosts /\ ThisHost \in Devices /\ at \in Nat
    BY <2>1, ThisHostFacts, HostsFacts
  <2>3. \A i \in 1..(at' - 1) : i \in 1..(at - 1) \/ i = at
    BY <2>1, <2>2, OneMoreBefore
  <2>4. Collected' = Collected /\ (SomeOrphan' <=> SomeOrphan)
    BY <2>1 DEF Collected, SomeOrphan
  <2>5. /\ ~Noticed => StateSynced
        /\ apply /\ ~trouble => StateSynced
        /\ \A i \in 1..(at - 1) : Inventory[i] \in Collected =>
             erred # {} \/ StackOf[Inventory[i]] \in stacksSeen
        /\ \A d \in Devices : via[d] # NoHost => StackOf[d] \in stacksSeen
        /\ sent => status["create"] \in {"changed", "partial", "error"} \/ Noticed
        /\ stacksSeen \cap orphans # {} => blocked
        /\ apply /\ ~trouble /\ only = "both" =>
             /\ erred = {}
             /\ \/ SomeOrphan
                \/ /\ status["create"] \in {"ok", "changed"}
                   /\ sent <=> (status["create"] = "changed" \/ written)
    BY <2>1 DEF Synced
  <2>6. CASE SyncSkips \/ SyncDuplicate
    <3>1. /\ UNCHANGED <<drift, noted, stacksSeen, via, erred, blocked, written, sent, trouble>>
          /\ ThisHost \in Collected => StackOf[ThisHost] \in stacksSeen
      BY <2>6 DEF SyncSkips, SyncDuplicate
    <3>2. \A i \in 1..(at' - 1) : Inventory[i] \in Collected =>
             erred # {} \/ StackOf[Inventory[i]] \in stacksSeen
      BY <2>3, <2>5, <3>1 DEF ThisHost
    <3>3. (StateSynced' <=> StateSynced) /\ (Noticed' <=> Noticed)
      BY <2>1, <3>1 DEF StateSynced, Noticed, Untold
    <3> QED
      BY <2>1, <2>4, <2>5, <3>1, <3>2, <3>3 DEF Synced
  <2>7. CASE SyncRaises
    <3>1. /\ erred' # {} /\ trouble'
          /\ UNCHANGED <<stacksSeen, via, blocked, written>>
      BY <2>7 DEF SyncRaises
    <3> QED
      BY <2>1, <2>5, <3>1 DEF Synced, Noticed
  <2>8. CASE SyncSucceeds
    <3> DEFINE absent == {d \in Seen(ThisHost) : "port" \in drift[d]} \ pending
    <3>1. PICK done \in SUBSET Stale(ThisHost), spared \in SUBSET Stale(ThisHost),
               partly \in BOOLEAN, error \in BOOLEAN :
            /\ done \cup spared # Stale(ThisHost) => error
            /\ drift' = SyncedDrift(done)
            /\ written' = (written \/ done # {} \/ partly)
            /\ sent' = (sent \/ (apply /\ (done # {} \/ partly \/ error)))
            /\ erred' = IF error \/ absent # {} THEN erred \cup {ThisHost} ELSE erred
            /\ trouble' = (trouble \/ error)
            /\ noted' = WarnedOf(spared)
      BY <2>8 DEF SyncSucceeds
    <3>2. /\ stacksSeen' = stacksSeen \cup {StackOf[ThisHost]}
          /\ blocked' = (blocked \/ StackOf[ThisHost] \in orphans)
          /\ \A d \in Devices : via'[d] # NoHost =>
               via[d] # NoHost \/ StackOf[d] = StackOf[ThisHost]
      BY <2>8 DEF SyncSucceeds, Mates
    <3>3. /\ written => written'
          /\ erred # {} => erred' # {}
          /\ Noticed => Noticed'
          /\ error => erred' # {}
      BY <3>1 DEF Noticed
    <3>4. ASSUME ~error, ~Noticed' \/ apply, StateSynced PROVE StateSynced'
      <4>1. done \cup spared = Stale(ThisHost)
        BY <3>1, <3>4
      <4>2. apply \/ done = {}
        BY <3>1, <3>4 DEF Noticed
      <4>3. ASSUME NEW d \in Devices \ dark, StackOf[d] \in stacksSeen'
            PROVE  "state" \notin Untold(d)'
        <5>1. /\ drift'[d] = IF apply /\ d \in done THEN drift[d] \ {"state"} ELSE drift[d]
              /\ noted'[d] = IF d \in spared THEN noted[d] \cup {"state"} ELSE noted[d]
          BY <3>1 DEF SyncedDrift, WarnedOf
        <5>2. CASE StackOf[d] \in stacksSeen
          BY <3>4, <5>1, <5>2 DEF StateSynced, Untold
        <5>3. CASE StackOf[d] = StackOf[ThisHost]
          <6>1. d \in Stale(ThisHost) \/ "state" \notin drift[d]
            BY <2>2, <5>3, SeenFacts DEF Stale
          <6> QED
            BY <4>1, <4>2, <5>1, <6>1 DEF Untold
        <5> QED
          BY <3>2, <4>3, <5>2, <5>3
      <4> QED
        BY <2>1, <4>3 DEF StateSynced
    <3>5. ~Noticed' => StateSynced'
      BY <2>5, <3>3, <3>4 DEF Noticed
    <3>6. apply /\ ~trouble' => StateSynced'
      BY <2>5, <3>1, <3>4
    <3>7. \A i \in 1..(at' - 1) : Inventory[i] \in Collected =>
             erred' # {} \/ StackOf[Inventory[i]] \in stacksSeen'
      BY <2>3, <2>5, <3>2, <3>3 DEF ThisHost
    <3>8. \A d \in Devices : via'[d] # NoHost => StackOf[d] \in stacksSeen'
      BY <2>5, <3>2
    <3>9. sent' => status["create"] \in {"changed", "partial", "error"} \/ Noticed'
      BY <2>5, <3>1, <3>3 DEF Noticed
    <3>10. stacksSeen' \cap orphans # {} => blocked'
      BY <2>5, <3>2
    <3>11. ASSUME apply, ~trouble', only = "both"
           PROVE  /\ erred' = {}
                  /\ \/ SomeOrphan
                     \/ /\ status["create"] \in {"ok", "changed"}
                        /\ sent' <=> (status["create"] = "changed" \/ written')
      <4>1. ~trouble /\ ~error
        BY <3>1, <3>11
      <4>2. absent = {}
        <5>1. OnlyState
          BY <2>1, <3>11, <4>1 DEF CreateDone
        <5>2. \A d \in Seen(ThisHost) : noted[d] \subseteq Warnable
          BY <2>2, SeenFacts DEF TypeOK
        <5> QED
          BY <2>2, <5>1, <5>2 DEF OnlyState, Untold, Warnable
      <4>3. erred' = erred
        BY <3>1, <4>1, <4>2
      <4> QED
        BY <2>5, <3>1, <3>11, <4>1, <4>3
    <3> HIDE DEF absent
    <3> QED
      BY <2>1, <2>4, <3>5, <3>6, <3>7, <3>8, <3>9, <3>10, <3>11 DEF Synced
  <2> QED
    BY <1>3, <2>6, <2>7, <2>8 DEF SyncHost
<1>4. CASE UNCHANGED vars
  BY <1>4 DEF vars, Synced, StateSynced, Noticed, SomeOrphan, Collected, Untold
<1>5. CASE CreateCollect \/ CreateHost \/ CreateReports \/ SyncReturns \/ Abort
  <2>1. ~Syncing'
    BY <1>5 DEF CreateCollect, CreateHost, CreateReports, SyncReturns, Abort, Syncing
  <2> QED
    BY <2>1
<1>6. ASSUME NEW d \in Devices, CreateApplies(d) PROVE FALSE
  BY <1>6 DEF CreateApplies, Syncing
<1> QED
  BY <1>1, <1>2, <1>3, <1>4, <1>5, <1>6 DEF Next

-----------------------------------------------------------------------------
(* What the sync step's status says when it returns.                       *)
LEMMA SyncStatusSays ==
  ASSUME NEW failed
  PROVE  /\ apply => SyncStatus(failed) # "drift"
         /\ apply /\ Noticed => SyncStatus(failed) \in {"changed", "partial", "error"}
         /\ SyncStatus(failed) = "ok" => failed = {} /\ ~Noticed /\ ~blocked
         /\ apply /\ failed = {} /\ erred = {} /\ ~blocked =>
              SyncStatus(failed) = IF written THEN "changed" ELSE "ok"
BY DEF SyncStatus, Noticed

(* _status of interfaces.py.                                               *)
LEMMA CombineSays ==
  ASSUME NEW first \in Statuses, NEW second \in Statuses
  PROVE  /\ Combine(first, second) = "ok" => first = "ok" /\ second = "ok"
         /\ Combine(first, second) = "drift" => "drift" \in {first, second}
         /\ {first, second} \cap {"changed", "partial", "error"} # {} =>
              Combine(first, second) \in {"changed", "partial", "error"}
         /\ first \in {"ok", "changed"} /\ second \in {"ok", "changed"} =>
              Combine(first, second) = IF "changed" \in {first, second} THEN "changed" ELSE "ok"
BY DEF Combine, Statuses

(* When the sync step reports no failure, the stack of each host it read,  *)
(* or could not read, was synced.                                          *)
LEMMA AllSynced ==
  ASSUME TypeOK, Synced, stage = "sync devices", at > Len(Inventory),
         Uncovered(Unreachable) = {}, erred = {},
         NEW h \in Hosts, outcome[h] # "not run"
  PROVE  StackOf[h] \in stacksSeen
<1>1. PICK i \in 1..Len(Inventory) : Inventory[i] = h
  BY HostsFacts
<1>2. i \in 1..(at - 1)
  <2>1. /\ at \in 1..(Len(Inventory) + 1) /\ at > Len(Inventory)
        /\ Len(Inventory) \in Nat
    BY HostsFacts DEF TypeOK
  <2> QED
    BY <1>1, <2>1, AllBefore
<1>3. CASE outcome[h] = "ok"
  BY <1>1, <1>2, <1>3 DEF Synced, Collected
<1>4. CASE outcome[h] # "ok"
  <2>1. h \in Unreachable /\ h \in Devices
    BY <1>4, HostsFacts DEF Unreachable, TypeOK, Outcomes
  <2>2. via[h] # NoHost
    BY <2>1 DEF Uncovered
  <2> QED
    BY <2>1, <2>2 DEF Synced
<1> QED
  BY <1>3, <1>4

-----------------------------------------------------------------------------
(* Nothing is written behind the status, whichever step ends the run.      *)
LEMMA NextWritesAreReported ==
  TypeOK /\ Planning /\ CreateDone /\ Synced /\ WritesAreReported /\ [Next]_vars
    => WritesAreReported'
<1> SUFFICES ASSUME TypeOK, Planning, CreateDone, Synced, WritesAreReported, [Next]_vars
             PROVE  WritesAreReported'
  OBVIOUS
<1> USE DEF inputs, locals, history
<1>1. ASSUME UNCHANGED <<apply, sent>>, ~Done' PROVE WritesAreReported'
  BY <1>1 DEF WritesAreReported
<1>2. CASE CreateCollect \/ CreateHost \/ CreateReports \/ SyncCollect
  BY <1>1, <1>2 DEF CreateCollect, CreateHost, CreateReports, SyncCollect, Done
<1>3. ASSUME NEW d \in Devices, CreateApplies(d) PROVE WritesAreReported'
  <2>1. stage' = "create apply" /\ apply' = apply /\ apply
    BY <1>3 DEF CreateApplies, Planning, Creating
  <2> QED
    BY <2>1 DEF WritesAreReported, Done
<1>4. CASE CreateReturns
  <2>1. /\ UNCHANGED <<apply, sent, only>> /\ stage = "create apply" /\ todo = {}
        /\ Done' => Ended' = CreateStatus
    BY <1>4 DEF CreateReturns, TypeOK, Done, Ended
  <2> QED
    BY <2>1, CreateStatusSays DEF WritesAreReported
<1>5. CASE SyncHost
  <2>1. UNCHANGED <<apply, stage>> /\ stage = "sync devices"
    BY <1>5 DEF SyncHost
  <2>2. sent' => sent \/ apply
    <3>1. CASE SyncSkips \/ SyncDuplicate
      BY <3>1 DEF SyncSkips, SyncDuplicate
    <3>2. CASE SyncRaises
      BY <3>2 DEF SyncRaises
    <3>3. CASE SyncSucceeds
      BY <3>3 DEF SyncSucceeds
    <3> QED
      BY <1>5, <3>1, <3>2, <3>3 DEF SyncHost
  <2> QED
    BY <2>1, <2>2 DEF WritesAreReported, Done
<1>6. CASE SyncReturns
  <2> DEFINE ended == SyncStatus(Uncovered(Unreachable))
  <2>1. /\ UNCHANGED <<apply, sent, only>> /\ stage = "sync devices" /\ Syncing
        /\ Ended' = IF only = "sync" THEN ended ELSE Combine(status["create"], ended)
    BY <1>6 DEF SyncReturns, TypeOK, Ended, Syncing
  <2>2. /\ apply => ended # "drift"
        /\ apply /\ Noticed => ended \in {"changed", "partial", "error"}
        /\ ended \in Statuses
    BY SyncStatusSays, StatusTypes
  <2>3. sent => status["create"] \in {"changed", "partial", "error"} \/ Noticed
    BY <2>1 DEF Synced
  <2>4. sent => apply
    BY DEF WritesAreReported
  <2> HIDE DEF ended
  <2>5. CASE only = "sync"
    <3>1. Ended' = ended /\ status["create"] = NoStatus
      BY <2>1, <2>5 DEF CreateDone
    <3> QED
      BY <2>1, <2>2, <2>3, <2>4, <3>1 DEF WritesAreReported, NoStatus
  <2>6. CASE only = "both"
    <3>1. /\ Ended' = Combine(status["create"], ended)
          /\ status["create"] \in Statuses
          /\ apply => status["create"] # "drift"
      BY <2>1, <2>6 DEF CreateDone
    <3>2. apply => Ended' # "drift"
      BY <2>2, <3>1, CombineSays
    <3>3. sent => Ended' \in {"changed", "partial", "error"}
      <4>1. sent => {status["create"], ended} \cap {"changed", "partial", "error"} # {}
        BY <2>2, <2>3, <2>4
      <4> QED
        BY <2>2, <3>1, <4>1, CombineSays
    <3> QED
      BY <2>1, <2>4, <3>2, <3>3 DEF WritesAreReported
  <2> QED
    BY <2>1, <2>5, <2>6 DEF CreateDone, TypeOK
<1>7. CASE Abort
  <2>1. UNCHANGED <<apply, sent>> /\ Ended' = "error"
    BY <1>7 DEF Abort, TypeOK, Ended
  <2> QED
    BY <2>1 DEF WritesAreReported
<1>8. CASE UNCHANGED vars
  BY <1>8 DEF vars, WritesAreReported, Done, Ended
<1> QED
  BY <1>2, <1>3, <1>4, <1>5, <1>6, <1>7, <1>8 DEF Next

(* A run of both steps ends when the sync step returns, or is aborted.     *)
LEMMA EndOfBoth ==
  ASSUME TypeOK, CreateDone, [Next]_vars, Done', ~Done, only' = "both", Ended' # "error"
  PROVE  /\ SyncReturns /\ stage = "sync devices" /\ Syncing
         /\ only = "both" /\ at > Len(Inventory)
         /\ UNCHANGED <<apply, dark, orphans, drift, noted, outcome, blocked, sent, trouble>>
         /\ Ended' = Combine(status["create"], SyncStatus(Uncovered(Unreachable)))
         /\ status["create"] \in Statuses
         /\ SyncStatus(Uncovered(Unreachable)) \in Statuses
<1> USE DEF inputs, locals, history
<1>1. ~Abort
  BY DEF Abort, TypeOK, Ended
<1>2. ~CreateReturns
  BY DEF CreateReturns, Done
<1>3. ~CreateCollect /\ ~CreateReports /\ ~SyncCollect
  BY DEF CreateCollect, CreateReports, SyncCollect, Done
<1>4. ~CreateHost /\ ~SyncHost /\ ~UNCHANGED vars
  BY DEF CreateHost, SyncHost, vars, Done
<1>5. \A d \in Devices : ~CreateApplies(d)
  BY DEF CreateApplies, Done
<1>6. SyncReturns
  BY <1>1, <1>2, <1>3, <1>4, <1>5 DEF Next
<1>7. /\ stage = "sync devices" /\ Syncing /\ only = "both" /\ at > Len(Inventory)
      /\ UNCHANGED <<apply, dark, orphans, drift, noted, outcome, blocked, sent, trouble>>
      /\ Ended' = Combine(status["create"], SyncStatus(Uncovered(Unreachable)))
  BY <1>6 DEF SyncReturns, TypeOK, Ended, Syncing
<1> QED
  BY <1>6, <1>7, StatusTypes DEF CreateDone

(* An OK of both steps leaves only differences it warned of.               *)
LEMMA NextOKHidesNothing ==
  TypeOK /\ CreateDone /\ Synced /\ OKHidesNothing /\ [Next]_vars => OKHidesNothing'
<1> SUFFICES ASSUME TypeOK, CreateDone, Synced, OKHidesNothing, [Next]_vars,
                    Done', only' = "both", Ended' = "ok"
             PROVE  /\ (dark \cap Hosts)' = {}
                    /\ (orphans \cap {StackOf[h] : h \in Hosts})' = {}
                    /\ \A h \in Hosts : \A d \in Seen(h)' : Untold(d)' = {}
  BY DEF OKHidesNothing
<1>1. CASE Done
  <2>1. UNCHANGED vars
    BY <1>1
    DEF Next, Done, CreateCollect, CreateHost, CreateReports, CreateApplies, CreateReturns,
        SyncCollect, SyncHost, SyncReturns, Abort
  <2>2. UNCHANGED <<dark, orphans, drift, noted, only, status>>
    BY <2>1 DEF vars, inputs, history
  <2> QED
    BY <1>1, <2>2 DEF OKHidesNothing, Untold, Ended, Seen, Mates
<1>2. CASE ~Done
  <2> DEFINE failed == Uncovered(Unreachable)
  <2>1. /\ stage = "sync devices" /\ Syncing /\ only = "both" /\ at > Len(Inventory)
        /\ UNCHANGED <<dark, orphans, drift, noted>>
        /\ Combine(status["create"], SyncStatus(failed)) = "ok"
        /\ status["create"] \in Statuses
        /\ SyncStatus(failed) \in Statuses
    BY <1>2, EndOfBoth
  <2>2. status["create"] = "ok" /\ SyncStatus(failed) = "ok"
    BY <2>1, CombineSays
  <2>3. /\ dark \cap Hosts = {}
        /\ ~SomeOrphan
        /\ OnlyState
        /\ \A h \in Hosts : Readable(h)
    BY <2>1, <2>2 DEF CreateDone
  <2>4. failed = {} /\ ~Noticed
    BY <2>2, SyncStatusSays
  <2>5. StateSynced /\ erred = {}
    BY <2>1, <2>4 DEF Synced, Noticed
  <2>6. ASSUME NEW h \in Hosts, NEW d \in Seen(h) PROVE Untold(d) = {}
    <3>1. PICK g \in Hosts : StackOf[g] = StackOf[h] /\ outcome[g] # "not run"
      BY <2>1, <2>3 DEF Readable
    <3>2. StackOf[h] \in stacksSeen
      BY <2>1, <2>4, <2>5, <3>1, AllSynced
    <3>3. h \in Devices /\ d \in Devices /\ StackOf[d] = StackOf[h] /\ d \notin dark
      BY <2>3, HostsFacts DEF Seen, Mates
    <3>4. "state" \notin Untold(d)
      BY <2>5, <3>2, <3>3 DEF StateSynced
    <3> QED
      BY <2>3, <3>4 DEF OnlyState
  <2>7. (\A h \in Hosts : Seen(h)' = Seen(h)) /\ (\A d : Untold(d)' = Untold(d))
    BY <2>1 DEF Seen, Mates, Untold
  <2> QED
    BY <2>1, <2>3, <2>6, <2>7 DEF SomeOrphan
<1> QED
  BY <1>1, <1>2

(* A run of both steps in which nothing fails leaves no other difference.  *)
LEMMA NextCleanApply ==
  TypeOK /\ HostsRead /\ Unharmed /\ CreateDone /\ Synced /\ CleanApply /\ [Next]_vars
    => CleanApply'
<1> SUFFICES ASSUME TypeOK, HostsRead, Unharmed, CreateDone, Synced, CleanApply, [Next]_vars,
                    Untroubled', apply'
             PROVE  /\ \A d \in InScope' : Untold(d)' = {}
                    /\ Ended' = IF sent' THEN "changed" ELSE "ok"
  BY DEF CleanApply
<1>1. CASE Done
  <2>1. UNCHANGED vars
    BY <1>1
    DEF Next, Done, CreateCollect, CreateHost, CreateReports, CreateApplies, CreateReturns,
        SyncCollect, SyncHost, SyncReturns, Abort
  <2>2. UNCHANGED <<stage, dark, apply, drift, noted, only, status, sent, trouble, blocked>>
    BY <2>1 DEF vars, inputs, locals, history
  <2> QED
    BY <1>1, <2>2 DEF CleanApply, Untold, Untroubled, Done, Ended, InScope, Seen, Mates
<1>2. CASE ~Done
  <2> DEFINE failed == Uncovered(Unreachable)
  <2>1. SyncReturns
    BY <1>2
    DEF Next, vars, inputs, locals, history, Untroubled, Done, CreateCollect, CreateHost,
        CreateReports, CreateApplies, CreateReturns, SyncCollect, SyncHost, Abort
  <2>2. /\ stage = "sync devices" /\ Syncing /\ only = "both" /\ at > Len(Inventory)
        /\ ~trouble /\ ~blocked /\ apply
        /\ UNCHANGED <<dark, drift, noted, sent>>
        /\ Ended' = Combine(status["create"], SyncStatus(failed))
    BY <2>1
    DEF SyncReturns, Untroubled, TypeOK, Ended, Syncing, inputs, locals, history
  <2>3. (\A h \in Hosts : outcome[h] = "ok") /\ noSession = {}
    BY <2>2 DEF Unharmed
  <2>4. failed = {}
    BY <2>3 DEF Uncovered, Unreachable
  <2>5. /\ StateSynced /\ erred = {} /\ OnlyState
        /\ stacksSeen \cap orphans = {}
        /\ \/ SomeOrphan
           \/ /\ status["create"] \in {"ok", "changed"}
              /\ sent <=> (status["create"] = "changed" \/ written)
    BY <2>2 DEF Synced, CreateDone
  <2>6. \A h \in Hosts : StackOf[h] \in stacksSeen
    BY <2>2, <2>3, <2>4, <2>5, AllSynced
  <2>7. ~SomeOrphan
    BY <2>5, <2>6 DEF SomeOrphan
  <2>8. ASSUME NEW h \in Hosts, NEW d \in Seen(h) PROVE Untold(d) = {}
    <3>1. h \in Devices /\ d \in Devices /\ StackOf[d] = StackOf[h] /\ d \notin dark
      BY <2>3, HostsFacts DEF Seen, Mates, HostsRead
    <3>2. "state" \notin Untold(d)
      BY <2>5, <2>6, <3>1 DEF StateSynced
    <3> QED
      BY <2>5, <3>2 DEF OnlyState
  <2>9. InScope' = InScope /\ (\A d : Untold(d)' = Untold(d))
    BY <2>2 DEF InScope, Seen, Mates, Untold
  <2>10. SyncStatus(failed) = IF written THEN "changed" ELSE "ok"
    BY <2>2, <2>4, <2>5, SyncStatusSays
  <2>11. Ended' = IF sent THEN "changed" ELSE "ok"
    <3>1. PICK first, second : first = status["create"] /\ second = SyncStatus(failed)
      OBVIOUS
    <3>2. first \in {"ok", "changed"} /\ second = IF written THEN "changed" ELSE "ok"
      BY <2>5, <2>7, <2>10, <3>1
    <3>3. Combine(first, second) = IF "changed" \in {first, second} THEN "changed" ELSE "ok"
      BY <3>2, CombineSays DEF Statuses
    <3>4. sent <=> "changed" \in {first, second}
      BY <2>5, <2>7, <3>1, <3>2
    <3> QED
      BY <2>2, <3>1, <3>3, <3>4
  <2> QED
    BY <2>2, <2>8, <2>9, <2>11 DEF InScope
<1> QED
  BY <1>1, <1>2

-----------------------------------------------------------------------------
(* Each step preserves the invariant.                                      *)
LEMMA Inductive == IInv /\ [Next]_vars => IInv'
<1> SUFFICES ASSUME IInv, [Next]_vars PROVE IInv'
  OBVIOUS
<1>1. TypeOK' /\ CountedOnce'
  BY NextTypeOK DEF IInv
<1>2. HostsRead' /\ Unharmed'
  BY NextHostsRead, NextUnharmed DEF IInv
<1>3. Covering' /\ Planning'
  BY NextCovering, NextPlanning DEF IInv
<1>4. CreateDone' /\ Synced'
  BY NextCreateDone, NextSynced DEF IInv
<1>5. Promises'
  BY NextWritesAreReported, NextOKHidesNothing, NextCleanApply DEF IInv, Promises
<1> QED
  BY <1>1, <1>2, <1>3, <1>4, <1>5 DEF IInv

(* The invariant holds in every state of every behaviour.                  *)
THEOREM Invariance == Spec => []IInv
BY InitIInv, Inductive, PTL DEF Spec

(* Every variable keeps its type; `at` and `duplicates` stay within the    *)
(* inventory.                                                              *)
THEOREM TypeCorrect == Spec => []TypeOK
<1>1. IInv => TypeOK
  BY DEF IInv
<1> QED
  BY <1>1, Invariance, PTL

(* A plan writes nothing, and no run that wrote ends as OK or DRIFT.       *)
THEOREM WritesReported == Spec => []WritesAreReported
<1>1. IInv => WritesAreReported
  BY DEF IInv, Promises
<1> QED
  BY <1>1, Invariance, PTL

(* The create step ends well only when each host's own ports were read.    *)
THEOREM UncheckedReported == Spec => []UncheckedIsReported
<1>1. IInv => UncheckedIsReported
  BY DEF IInv, CreateDone
<1> QED
  BY <1>1, Invariance, PTL

(* After an OK of both steps NetBox agrees with every switch of the scope,  *)
(* but for what the run warned of or noted.                                *)
THEOREM OKHidesNoDifference == Spec => []OKHidesNothing
<1>1. IInv => OKHidesNothing
  BY DEF IInv, Promises
<1> QED
  BY <1>1, Invariance, PTL

(* One --apply in which nothing fails leaves no difference but those it     *)
(* warned of, and is CHANGED exactly when it wrote.                        *)
THEOREM CleanApplyIsComplete == Spec => []CleanApply
<1>1. IInv => CleanApply
  BY DEF IInv, Promises
<1> QED
  BY <1>1, Invariance, PTL

(* The sync step opens no session to a host whose collection failed in the *)
(* create step.                                                            *)
THEOREM FailedLeftAlone == Spec => FailedHostLeftAlone
<1>1. IInv /\ [Next]_vars =>
        [\A h \in tried'["sync"] \ tried["sync"] : outcome[h] \in {"ok", "not run"}]_vars
  <2> SUFFICES ASSUME IInv, Next,
                      NEW h \in tried'["sync"] \ tried["sync"]
               PROVE  outcome[h] \in {"ok", "not run"}
    OBVIOUS
  <2> USE DEF inputs, locals, history
  <2>1. CASE SyncCollect
    <3>1. h \in Hosts /\ h \notin failedHosts
      BY <2>1 DEF SyncCollect, IInv, TypeOK
    <3> QED
      BY <3>1 DEF IInv, HostsRead, TypeOK, Outcomes, Failing
  <2>2. CASE CreateCollect
    BY <2>2 DEF CreateCollect, IInv, TypeOK
  <2>3. ASSUME NEW d \in Devices, CreateApplies(d) PROVE FALSE
    BY <2>3 DEF CreateApplies
  <2>4. CASE CreateHost \/ CreateReports \/ CreateReturns \/ SyncHost \/ SyncReturns \/ Abort
    BY <2>4 DEF CreateHost, CreateReports, CreateReturns, SyncHost, SyncReturns, Abort
  <2> QED
    BY <2>1, <2>2, <2>3, <2>4 DEF Next
<1> QED
  BY <1>1, Invariance, PTL DEF Spec, FailedHostLeftAlone
=============================================================================
