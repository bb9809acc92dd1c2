---------------------------- MODULE AttemptContract ----------------------------
(***************************************************************************)
(* What bunnyauto/retry.py promises its callers about every host, with the *)
(* passes, the worker threads and the sessions left out: a host is tried   *)
(* once, again only while it fails to connect, at most 1 + Retries times,  *)
(* and the run returns one outcome per host, that of its last attempt.     *)
(*                                                                         *)
(* ConnectRetry implements this module; WiredInterfaces composes two runs  *)
(* of it.                                                                  *)
(***************************************************************************)
EXTENDS Naturals

CONSTANTS
  Hosts,      (* the Nornir inventory of one run                           *)
  Retries     (* extra passes over the hosts that failed to connect, a Nat *)

(* How an attempt on a host ended, as far as the callers tell apart:       *)
(* "connect" is is_connect_failure, "rejected" an authentication or host   *)
(* key refusal, "other" any failure a second try is not made for.          *)
Outcomes == {"ok", "connect", "rejected", "other"}
NoOutcome == "none"

VARIABLES
  runOn,      (* the hosts the first pass covers                           *)
  attempts,   (* attempts completed on each host                           *)
  outcome,    (* outcome of the last one                                   *)
  returned    (* the results were handed to the caller                     *)

vars == <<runOn, attempts, outcome, returned>>

TypeOK ==
  /\ runOn \in SUBSET Hosts
  /\ attempts \in [Hosts -> 0..(Retries + 1)]
  /\ outcome \in [Hosts -> Outcomes \cup {NoOutcome}]
  /\ returned \in BOOLEAN

Init ==
  /\ runOn \in SUBSET Hosts
  /\ attempts = [h \in Hosts |-> 0]
  /\ outcome = [h \in Hosts |-> NoOutcome]
  /\ returned = FALSE

(* A host is owed an attempt: its first, or one more because it could not  *)
(* be connected to and the retries are not spent.                          *)
Owed(h) ==
  /\ h \in runOn
  /\ \/ attempts[h] = 0
     \/ outcome[h] = "connect" /\ attempts[h] <= Retries

Attempt(h, o) ==
  /\ ~returned
  /\ Owed(h)
  /\ attempts' = [attempts EXCEPT ![h] = @ + 1]
  /\ outcome' = [outcome EXCEPT ![h] = o]
  /\ UNCHANGED <<runOn, returned>>

Return ==
  /\ ~returned
  /\ \A h \in Hosts : ~Owed(h)
  /\ returned' = TRUE
  /\ UNCHANGED <<runOn, attempts, outcome>>

Next ==
  \/ \E h \in Hosts, o \in Outcomes : Attempt(h, o)
  \/ Return

Spec == Init /\ [][Next]_vars

=============================================================================
