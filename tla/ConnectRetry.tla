----------------------------- MODULE ConnectRetry -----------------------------
(***************************************************************************)
(* run_with_retries of bunnyauto/retry.py: a task is run on every host of  *)
(* a Nornir inventory by a pool of worker threads, then again, pass after  *)
(* pass, on the hosts whose SSH session never came up.                     *)
(*                                                                         *)
(* Nornir's shared state is part of the model: data.failed_hosts, which    *)
(* every filtered view of one Nornir object shares and which decides whom  *)
(* a pass covers, and each host's open Netmiko session, which outlives the *)
(* pass.  Both may be left over from an earlier run on the same object, so *)
(* Init allows any of their values.  The order in which the pool takes the *)
(* hosts of a pass, and the delay between two passes, are left out.        *)
(***************************************************************************)
EXTENDS Integers, FiniteSets

CONSTANTS
  Hosts,            (* hosts of the inventory the task runs on             *)
  Workers,          (* num_workers of the Nornir configuration             *)
  ConnectRetries,   (* settings.connect_retries, before max(0, ...)        *)
  MaxRefusals       (* how many refused logins of a host are explored; a   *)
                    (* task has a login for each of its commands, at most  *)

ASSUME HostsAssumption == IsFiniteSet(Hosts)
ASSUME WorkersAssumption == Workers \in Nat \ {0}
ASSUME ConnectRetriesAssumption == ConnectRetries \in Int
ASSUME MaxRefusalsAssumption == MaxRefusals \in Nat

Retries == IF ConnectRetries > 0 THEN ConnectRetries ELSE 0

-----------------------------------------------------------------------------
(* A MultiResult is abstracted to the kinds of exception found in it; it   *)
(* has failed exactly when there is one.  "transient" stands for _TRANSIENT *)
(* less _PERMANENT, "permanent" for _PERMANENT, "other" for the rest.      *)
Kinds == {"transient", "permanent", "other"}
Results == SUBSET Kinds
NotRun == {"not run"}            \* the host has no entry in the results

Failed(result) == result # {} /\ result # NotRun

(* Mutants of IsConnectFailure: a refused login retried like any network   *)
(* error; the open session not looked at.                                  *)
IsConnectFailureAnyError(result, open) ==
  Failed(result) /\ result \cap {"transient", "permanent"} # {} /\ ~open

IsConnectFailureAnySession(result, open) ==
  Failed(result) /\ "permanent" \notin result /\ "transient" \in result

(* is_connect_failure: a network error worth another try, and no session.  *)
IsConnectFailure(result, open) ==
  /\ Failed(result)
  /\ "permanent" \notin result
  /\ "transient" \in result
  /\ ~open

-----------------------------------------------------------------------------
VARIABLES
  phase,         (* "pass", "between" two passes, or "returned"            *)
  pass,          (* 0 for the first pass, then the retry's number          *)
  queue,         (* hosts of this pass no worker has taken yet             *)
  running,       (* hosts a worker is busy with                            *)
  raised,        (* exceptions of each host's attempt in progress          *)
  session,       (* host.connections holds an open Netmiko session         *)
  passResults,   (* AggregatedResult of the pass in progress               *)
  results,       (* what run_with_retries will return                      *)
  failedHosts,   (* targets.data.failed_hosts                              *)
  bars,          (* hosts with a live progress bar                         *)
  label,         (* the last line printed for each host                    *)
  runOn,         (* history: hosts the first pass covers                   *)
  attempts,      (* history: attempts begun on each host                   *)
  sentIn,        (* history: attempts in which a command went out          *)
  refusals       (* history: logins the device refused                     *)

poolVars == <<queue, running, bars>>
historyVars == <<runOn, attempts, sentIn, refusals>>
vars == <<phase, pass, queue, running, raised, session, passResults, results,
          failedHosts, bars, label, runOn, attempts, sentIn, refusals>>

Labels == {"none", "done", "failed", "will retry"}
AttemptNumbers == 1..(Retries + 1)

TypeOK ==
  /\ phase \in {"pass", "between", "returned"}
  /\ pass \in 0..Retries
  /\ queue \in SUBSET Hosts
  /\ running \in SUBSET Hosts
  /\ raised \in [Hosts -> Results]
  /\ session \in [Hosts -> BOOLEAN]
  /\ passResults \in [Hosts -> Results \cup {NotRun}]
  /\ results \in [Hosts -> Results \cup {NotRun}]
  /\ failedHosts \in SUBSET Hosts
  /\ bars \in SUBSET Hosts
  /\ label \in [Hosts -> Labels]
  /\ runOn \in SUBSET Hosts
  /\ attempts \in [Hosts -> 0..(Retries + 1)]
  /\ sentIn \in [Hosts -> SUBSET AttemptNumbers]
  /\ refusals \in [Hosts -> 0..MaxRefusals]

(* The hosts whose connection failed, by the results so far: _unreachable. *)
Pending == {h \in Hosts : IsConnectFailure(results[h], session[h])}

Init ==
  /\ phase = "pass"
  /\ pass = 0
  /\ failedHosts \in SUBSET Hosts
  /\ queue = Hosts \ failedHosts        \* Nornir.run with on_failed=False
  /\ runOn = queue
  /\ running = {}
  /\ raised = [h \in Hosts |-> {}]
  /\ session \in [Hosts -> BOOLEAN]
  /\ passResults = [h \in Hosts |-> NotRun]
  /\ results = [h \in Hosts |-> NotRun]
  /\ bars = {}
  /\ label = [h \in Hosts |-> "none"]
  /\ attempts = [h \in Hosts |-> 0]
  /\ sentIn = [h \in Hosts |-> {}]
  /\ refusals = [h \in Hosts |-> 0]

-----------------------------------------------------------------------------
(* A free worker takes a host of the pass and opens its progress bar.      *)
StartHost(h) ==
  /\ phase = "pass"
  /\ h \in queue
  /\ Cardinality(running) < Workers
  /\ queue' = queue \ {h}
  /\ running' = running \cup {h}
  /\ bars' = bars \cup {h}
  /\ attempts' = [attempts EXCEPT ![h] = @ + 1]
  /\ UNCHANGED <<phase, pass, raised, session, passResults, results,
                 failedHosts, label, runOn, sentIn, refusals>>

(* Opening the session fails.  The task ends here or goes on to its next   *)
(* command (run_first_supported), which opens the connection again,        *)
(* whatever the error was.                                                 *)
ConnectFails(h, kind) ==
  /\ h \in running
  /\ ~session[h]
  /\ kind = "permanent" => refusals[h] < MaxRefusals
  /\ raised' = [raised EXCEPT ![h] = @ \cup {kind}]
  /\ refusals' = [refusals EXCEPT ![h] = IF kind = "permanent" THEN @ + 1 ELSE @]
  /\ UNCHANGED <<phase, pass, session, passResults, results, failedHosts,
                 label, poolVars, runOn, attempts, sentIn>>

(* Nornir stores a session only once it is fully open.                     *)
ConnectOpens(h) ==
  /\ h \in running
  /\ ~session[h]
  /\ session' = [session EXCEPT ![h] = TRUE]
  /\ UNCHANGED <<phase, pass, raised, passResults, results, failedHosts,
                 label, poolVars, historyVars>>

(* A command goes out on the open session; it and what the task makes of   *)
(* its output succeed (errors = {}) or fail.                               *)
SendCommand(h, errors) ==
  /\ h \in running
  /\ session[h]
  /\ raised' = [raised EXCEPT ![h] = @ \cup errors]
  /\ sentIn' = [sentIn EXCEPT ![h] = @ \cup {attempts[h]}]
  /\ UNCHANGED <<phase, pass, session, passResults, results, failedHosts,
                 label, poolVars, runOn, attempts, refusals>>

(* Mutant of LabelOf: the last pass announces a retry too.                 *)
LabelOfAlwaysRetry(h) ==
  IF ~Failed(raised[h]) THEN "done"
  ELSE IF IsConnectFailure(raised[h], session[h]) THEN "will retry" ELSE "failed"

(* The line HostProgressProcessor prints; will_retry is attempt < retries. *)
LabelOf(h) ==
  IF ~Failed(raised[h]) THEN "done"
  ELSE IF pass < Retries /\ IsConnectFailure(raised[h], session[h])
       THEN "will retry" ELSE "failed"

(* The task ends on the host, after a command or a failure to connect: the *)
(* result is recorded, the bar removed.                                    *)
FinishHost(h) ==
  /\ h \in running
  /\ raised[h] # {} \/ attempts[h] \in sentIn[h]
  /\ running' = running \ {h}
  /\ passResults' = [passResults EXCEPT ![h] = raised[h]]
  /\ label' = [label EXCEPT ![h] = LabelOf(h)]
  /\ raised' = [raised EXCEPT ![h] = {}]
  /\ bars' = bars \ {h}
  /\ UNCHANGED <<phase, pass, queue, session, results, failedHosts, historyVars>>

(* Mutants of EndPass: a host that worked on a retry is not recovered; the *)
(* first outcome of a host is kept instead of its last.                    *)
EndPassNoRecovery ==
  /\ phase = "pass" /\ queue = {} /\ running = {}
  /\ results' = [h \in Hosts |-> IF passResults[h] = NotRun
                                 THEN results[h] ELSE passResults[h]]
  /\ failedHosts' = failedHosts \cup {h \in Hosts : Failed(passResults[h])}
  /\ passResults' = [h \in Hosts |-> NotRun]
  /\ phase' = "between"
  /\ UNCHANGED <<pass, raised, session, label, poolVars, historyVars>>

EndPassFirstOutcome ==
  /\ phase = "pass" /\ queue = {} /\ running = {}
  /\ results' = [h \in Hosts |-> IF results[h] = NotRun
                                 THEN passResults[h] ELSE results[h]]
  /\ failedHosts' = (failedHosts \cup {h \in Hosts : Failed(passResults[h])})
                      \ {h \in Hosts : pass > 0 /\ passResults[h] = {}}
  /\ passResults' = [h \in Hosts |-> NotRun]
  /\ phase' = "between"
  /\ UNCHANGED <<pass, raised, session, label, poolVars, historyVars>>

(* Every worker is done.  Nornir adds the failed hosts of the pass to      *)
(* failed_hosts; a retry then writes each outcome over the earlier one and *)
(* recovers the hosts that now worked.                                     *)
EndPass ==
  /\ phase = "pass"
  /\ queue = {}
  /\ running = {}
  /\ results' = [h \in Hosts |-> IF passResults[h] = NotRun
                                 THEN results[h] ELSE passResults[h]]
  /\ failedHosts' = (failedHosts \cup {h \in Hosts : Failed(passResults[h])})
                      \ {h \in Hosts : pass > 0 /\ passResults[h] = {}}
  /\ passResults' = [h \in Hosts |-> NotRun]
  /\ phase' = "between"
  /\ UNCHANGED <<pass, raised, session, label, poolVars, historyVars>>

(* Mutant of RetryPass: one pass too many.                                 *)
RetryPassOneMore ==
  /\ phase = "between"
  /\ pass <= Retries
  /\ Pending # {}
  /\ pass' = pass + 1
  /\ queue' = Pending
  /\ phase' = "pass"
  /\ UNCHANGED <<running, raised, session, passResults, results, failedHosts,
                 bars, label, historyVars>>

(* Mutant of Return: it waits for every host to connect.                   *)
ReturnWhenAllConnect ==
  /\ phase = "between"
  /\ Pending = {}
  /\ phase' = "returned"
  /\ UNCHANGED <<pass, raised, session, passResults, results, failedHosts,
                 label, poolVars, historyVars>>

(* One more pass, over the hosts that failed to connect and no others; it  *)
(* runs with on_failed=True, for those hosts are in failed_hosts.          *)
RetryPass ==
  /\ phase = "between"
  /\ pass < Retries
  /\ Pending # {}
  /\ pass' = pass + 1
  /\ queue' = Pending
  /\ phase' = "pass"
  /\ UNCHANGED <<running, raised, session, passResults, results, failedHosts,
                 bars, label, historyVars>>

Return ==
  /\ phase = "between"
  /\ pass = Retries \/ Pending = {}
  /\ phase' = "returned"
  /\ UNCHANGED <<pass, raised, session, passResults, results, failedHosts,
                 label, poolVars, historyVars>>

HostStep(h) ==
  \/ \E kind \in Kinds : ConnectFails(h, kind)
  \/ ConnectOpens(h)
  \/ \E errors \in {{}, {"transient"}, {"other"}} : SendCommand(h, errors)
  \/ FinishHost(h)

Next ==
  \/ \E h \in Hosts : StartHost(h) \/ HostStep(h)
  \/ EndPass
  \/ RetryPass
  \/ Return

(* The main thread and the pool keep running, and a task ends: Netmiko's   *)
(* timeouts end every connect and every read, and a task has finitely many *)
(* commands.                                                               *)
Fairness ==
  /\ \A h \in Hosts : WF_vars(StartHost(h)) /\ WF_vars(FinishHost(h))
  /\ \A h \in Hosts : WF_vars(HostStep(h))
  /\ WF_vars(EndPass) /\ WF_vars(RetryPass) /\ WF_vars(Return)

Spec == Init /\ [][Next]_vars
FairSpec == Spec /\ Fairness

-----------------------------------------------------------------------------
(* retry.py keeps an authentication failure out of the retries (retry.py,  *)
(* lines 19-20): no attempt begins on a host that has refused a login of   *)
(* this run, though the attempt that was refused tried other commands too. *)
NoRetryAfterRefusal ==
  [][\A h \in Hosts : attempts'[h] # attempts[h] => refusals[h] = 0]_vars

(* The reason given there, that "repeating a wrong password risks locking  *)
(* the account", asks for more, which the code does not keep: that a host  *)
(* refuses no more than one login.  Within one attempt a task logs in      *)
(* again for its next command (health/collect.py:152).                     *)
LoginRefusedOnce == \A h \in Hosts : refusals[h] <= 1

(* A command that went out may have taken effect (send-command in          *)
(* configuration mode): no host is sent commands in two attempts.          *)
CommandsInOneAttempt ==
  \A h \in Hosts : \A m, n \in sentIn[h] : m = n

(* Nornir skips the hosts of failed_hosts, so what the next run on the     *)
(* same object covers depends on it: when no pass is in progress a host of *)
(* this run is in it exactly when the result being returned has failed,    *)
(* and a host with no result is one that was already in it.                *)
FailedHostsMatchResults ==
  phase # "pass" =>
    \A h \in Hosts : h \in failedHosts <=> results[h] # {}

(* progress.py bounds the live region of the terminal by num_workers: a    *)
(* host has a bar only while a worker is on it.                            *)
BarsBounded == bars = running /\ Cardinality(bars) <= Workers

(* "failed to connect - will retry" is only printed of a host that is      *)
(* tried again.                                                            *)
WillRetryIsKept ==
  \A h \in Hosts : label[h] = "will retry" ~> h \in running

(* run_with_retries returns, whatever the devices do.                      *)
Returns == <>(phase = "returned")

-----------------------------------------------------------------------------
(* How the contract of AttemptContract sees this state: an attempt counts  *)
(* when its result is recorded, and a host of the current retry pass keeps *)
(* the outcome that put it there until then.                               *)
OutcomeOf(result, open) ==
  IF result = NotRun THEN "none"
  ELSE IF ~Failed(result) THEN "ok"
  ELSE IF IsConnectFailure(result, open) THEN "connect"
  ELSE IF "permanent" \in result THEN "rejected"
  ELSE "other"

CompletedAttempts ==
  [h \in Hosts |-> IF h \in running THEN attempts[h] - 1 ELSE attempts[h]]

LastOutcome ==
  [h \in Hosts |->
     IF passResults[h] # NotRun THEN OutcomeOf(passResults[h], session[h])
     ELSE IF pass > 0 /\ h \in queue \cup running THEN "connect"
     ELSE OutcomeOf(results[h], session[h])]

Contract == INSTANCE AttemptContract
              WITH attempts <- CompletedAttempts,
                   outcome <- LastOutcome,
                   returned <- (phase = "returned")

(* Each host gets the attempts the contract grants, no more and no fewer,  *)
(* and what is returned for it is the outcome of its last one.             *)
KeepsContract == Contract!Spec
=============================================================================
