-------------------------- MODULE ConnectRetryProofs --------------------------
(***************************************************************************)
(* ConnectRetry proved for every inventory, every number of workers and    *)
(* every connect_retries: the safety invariants its runs check, and that   *)
(* it implements AttemptContract.                                          *)
(*                                                                         *)
(* None of the properties is inductive.  IInv says, pass by pass, what is  *)
(* known of a host by where it stands: waiting in the queue, on a worker,  *)
(* finished in this pass, or left out of it.                               *)
(***************************************************************************)
EXTENDS ConnectRetry, FiniteSetTheorems, TLAPS

(* A host stands in one place at a time, and only while a pass runs.       *)
Places ==
  /\ queue \cap running = {}
  /\ \A h \in queue \cup running : passResults[h] = NotRun
  /\ phase # "pass" => /\ queue = {} /\ running = {}
                       /\ \A h \in Hosts : passResults[h] = NotRun

(* The hosts this pass covers, wherever they stand by now.                 *)
InPass(h) == h \in queue \/ h \in running \/ passResults[h] # NotRun

(* A host that a pass covers was covered by every earlier one, so the      *)
(* number of the pass counts its attempts; a host left out has no failed   *)
(* connection to try again.                                                *)
Counting ==
  /\ \A h \in queue : attempts[h] = pass
  /\ \A h \in running : attempts[h] = pass + 1
  /\ \A h \in Hosts : passResults[h] # NotRun => attempts[h] = pass + 1
  /\ \A h \in Hosts : attempts[h] <= pass + 1
  /\ phase = "pass" => \A h \in Hosts : ~InPass(h) => h \notin Pending
  /\ phase # "pass" => \A h \in Pending : attempts[h] = pass + 1

(* The first pass covers runOn, and nothing has a result before it ends.   *)
FirstPass ==
  /\ \A h \in Hosts : h \in runOn <=> attempts[h] > 0 \/ (pass = 0 /\ h \in queue)
  /\ phase = "pass" /\ pass = 0 => \A h \in Hosts : results[h] = NotRun
  /\ \A h \in Hosts : h \notin runOn => results[h] = NotRun /\ ~InPass(h)

(* Commands went out only where a session is open, and a host with an open *)
(* session is not tried again.                                             *)
Commands ==
  /\ \A h \in Hosts : sentIn[h] # {} => session[h]
  /\ \A h \in queue : sentIn[h] = {}
  /\ \A h \in running : sentIn[h] \subseteq {attempts[h]}
  /\ CommandsInOneAttempt

(* What is known of a host so far: the attempt in progress, or else the    *)
(* outcome of this pass, or else of an earlier one.                        *)
ResultSoFar(h) ==
  IF h \in running THEN raised[h]
  ELSE IF passResults[h] # NotRun THEN passResults[h] ELSE results[h]

(* A refusal shows in the result that the host's next attempt would need.  *)
Refusals ==
  /\ \A h \in queue : refusals[h] = 0
  /\ \A h \in Hosts : refusals[h] # 0 => "permanent" \in ResultSoFar(h)

(* failed_hosts before, during and after a pass.                           *)
FailedSet ==
  /\ phase = "pass" /\ pass = 0 =>
       \A h \in Hosts : h \in failedHosts <=> ~InPass(h)
  /\ phase # "pass" \/ pass > 0 =>
       \A h \in Hosts : h \in failedHosts <=> results[h] # {}

IInv == TypeOK /\ Places /\ Counting /\ FirstPass /\ Commands /\ Refusals /\ FailedSet

(* The number of retries is a natural number whatever is configured: a     *)
(* negative value counts as none (retry.py, max(0, ...)).                  *)
LEMMA RetriesNat == Retries \in Nat
BY ConnectRetriesAssumption DEF Retries

-----------------------------------------------------------------------------
(* Every variable keeps its type: the pass number stays within the         *)
(* retries, and no host is attempted more than 1 + Retries times.          *)
LEMMA InitTypeOK == Init => TypeOK
BY RetriesNat, MaxRefusalsAssumption DEF Init, TypeOK, Results, Labels

(* No step takes a variable out of its type.                               *)
LEMMA NextTypeOK == TypeOK /\ Counting /\ Places /\ [Next]_vars => TypeOK'
<1> SUFFICES ASSUME TypeOK, Counting, Places, [Next]_vars PROVE TypeOK'
  OBVIOUS
<1> USE RetriesNat
<1>1. ASSUME NEW h \in Hosts, StartHost(h) PROVE TypeOK'
  <2>1. attempts[h] = pass
    BY <1>1 DEF StartHost, Counting
  <2>2. attempts' \in [Hosts -> 0..(Retries + 1)]
    BY <1>1, <2>1 DEF StartHost, TypeOK
  <2> QED
    BY <1>1, <2>2 DEF StartHost, TypeOK
<1>2. ASSUME NEW h \in Hosts, NEW kind \in Kinds, ConnectFails(h, kind) PROVE TypeOK'
  <2>1. refusals' \in [Hosts -> 0..MaxRefusals]
    <3>1. CASE kind = "permanent"
      BY <1>2, <3>1, MaxRefusalsAssumption DEF ConnectFails, TypeOK
    <3>2. CASE kind # "permanent"
      BY <1>2, <3>2 DEF ConnectFails, TypeOK
    <3> QED
      BY <3>1, <3>2
  <2>2. raised' \in [Hosts -> Results]
    BY <1>2 DEF ConnectFails, TypeOK, Results
  <2> QED
    BY <1>2, <2>1, <2>2 DEF ConnectFails, TypeOK, poolVars
<1>3. ASSUME NEW h \in Hosts, ConnectOpens(h) PROVE TypeOK'
  BY <1>3 DEF ConnectOpens, TypeOK, poolVars, historyVars
<1>4. ASSUME NEW h \in Hosts, NEW errors \in {{}, {"transient"}, {"other"}},
             SendCommand(h, errors)
      PROVE  TypeOK'
  <2>1. attempts[h] \in AttemptNumbers
    BY <1>4 DEF SendCommand, Counting, TypeOK, AttemptNumbers
  <2>2. sentIn' \in [Hosts -> SUBSET AttemptNumbers]
    BY <1>4, <2>1 DEF SendCommand, TypeOK
  <2>3. errors \in Results
    BY DEF Results, Kinds
  <2>4. raised' \in [Hosts -> Results]
    BY <1>4, <2>3 DEF SendCommand, TypeOK, Results
  <2> QED
    BY <1>4, <2>2, <2>4 DEF SendCommand, TypeOK, poolVars
<1>5. ASSUME NEW h \in Hosts, FinishHost(h) PROVE TypeOK'
  <2>1. label' \in [Hosts -> Labels]
    BY <1>5 DEF FinishHost, TypeOK, Labels, LabelOf
  <2> QED
    BY <1>5, <2>1 DEF FinishHost, TypeOK, Results, historyVars
<1>6. CASE EndPass
  BY <1>6 DEF EndPass, TypeOK, poolVars, historyVars
<1>7. CASE RetryPass
  BY <1>7 DEF RetryPass, TypeOK, historyVars, Pending
<1>8. CASE Return
  BY <1>8 DEF Return, TypeOK, poolVars, historyVars
<1>9. CASE UNCHANGED vars
  BY <1>9 DEF vars, TypeOK
<1> QED
  BY <1>1, <1>2, <1>3, <1>4, <1>5, <1>6, <1>7, <1>8, <1>9 DEF Next, HostStep
(* A host leaves the queue for a worker and the worker for a result.       *)
LEMMA NextPlaces == IInv /\ [Next]_vars => Places'
<1> SUFFICES ASSUME IInv, [Next]_vars PROVE Places'
  OBVIOUS
<1> USE RetriesNat DEF IInv, TypeOK
<1>1. ASSUME NEW h \in Hosts, StartHost(h) PROVE Places'
  BY <1>1 DEF StartHost, Places
<1>2. ASSUME NEW h \in Hosts, NEW kind \in Kinds, ConnectFails(h, kind) PROVE Places'
  BY <1>2 DEF ConnectFails, poolVars, historyVars, Places
<1>3. ASSUME NEW h \in Hosts, ConnectOpens(h) PROVE Places'
  BY <1>3 DEF ConnectOpens, poolVars, historyVars, Places
<1>4. ASSUME NEW h \in Hosts, NEW errors \in {{}, {"transient"}, {"other"}},
             SendCommand(h, errors)
      PROVE  Places'
  BY <1>4 DEF SendCommand, poolVars, Places
<1>5. ASSUME NEW h \in Hosts, FinishHost(h) PROVE Places'
  BY <1>5 DEF FinishHost, Places
<1>6. CASE EndPass
  BY <1>6 DEF EndPass, poolVars, historyVars, Places
<1>7. CASE RetryPass
  BY <1>7 DEF RetryPass, historyVars, Places, Pending
<1>8. CASE Return
  BY <1>8 DEF Return, poolVars, historyVars, Places
<1>9. CASE UNCHANGED vars
  BY <1>9 DEF vars, Places
<1> QED
  BY <1>1, <1>2, <1>3, <1>4, <1>5, <1>6, <1>7, <1>8, <1>9 DEF Next, HostStep

(* Attempts keep counting passes.                                          *)
LEMMA NextCounting == IInv /\ [Next]_vars => Counting'
<1> SUFFICES ASSUME IInv, [Next]_vars PROVE Counting'
  OBVIOUS
<1> USE RetriesNat DEF IInv, TypeOK
<1>1. ASSUME NEW h \in Hosts, StartHost(h) PROVE Counting'
  <2>1. attempts' = [attempts EXCEPT ![h] = pass + 1]
    BY <1>1 DEF StartHost, Counting
  <2>2. \A g \in Hosts : InPass(g)' <=> InPass(g)
    BY <1>1 DEF StartHost, InPass
  <2>3. Pending' = Pending /\ phase' = "pass" /\ phase = "pass" /\ pass' = pass
    BY <1>1 DEF StartHost, Pending
  <2>4. h \notin running /\ passResults' = passResults
    BY <1>1 DEF StartHost, Places
  <2>5. queue' = queue \ {h} /\ running' = running \cup {h}
    BY <1>1 DEF StartHost
  <2>6. \A g \in Hosts : passResults'[g] # NotRun => attempts'[g] = pass' + 1
    BY <2>1, <2>3, <2>4 DEF Counting
  <2>7. \A g \in Hosts : attempts'[g] <= pass' + 1
    BY <2>1, <2>3 DEF Counting
  <2>8. /\ \A g \in queue' : attempts'[g] = pass'
        /\ \A g \in running' : attempts'[g] = pass' + 1
    BY <2>1, <2>3, <2>4, <2>5 DEF Counting, Places
  <2> QED
    BY <2>2, <2>3, <2>6, <2>7, <2>8 DEF Counting
<1>2. ASSUME NEW h \in Hosts, NEW kind \in Kinds, ConnectFails(h, kind) PROVE Counting'
  BY <1>2 DEF ConnectFails, poolVars, historyVars, Counting, Pending, InPass
<1>3. ASSUME NEW h \in Hosts, ConnectOpens(h) PROVE Counting'
  BY <1>3 DEF ConnectOpens, poolVars, historyVars, Counting, Pending, InPass, Places, IsConnectFailure
<1>4. ASSUME NEW h \in Hosts, NEW errors \in {{}, {"transient"}, {"other"}},
             SendCommand(h, errors)
      PROVE  Counting'
  BY <1>4 DEF SendCommand, poolVars, Counting, Pending, InPass
<1>5. ASSUME NEW h \in Hosts, FinishHost(h) PROVE Counting'
  <2>1. attempts' = attempts /\ queue' = queue /\ pass' = pass /\ phase' = phase
    BY <1>5 DEF FinishHost, historyVars
  <2>2. running' = running \ {h} /\ passResults' = [passResults EXCEPT ![h] = raised[h]]
    BY <1>5 DEF FinishHost
  <2>3. Pending' = Pending
    BY <1>5 DEF FinishHost, Pending
  <2>4. raised[h] # NotRun
    BY DEF Results, Kinds, NotRun
  <2>5. \A g \in Hosts : InPass(g) => InPass(g)'
    BY <2>1, <2>2, <2>4 DEF InPass
  <2>6. attempts[h] = pass + 1
    BY <1>5 DEF FinishHost, Counting
  <2>7. \A g \in Hosts : passResults'[g] # NotRun => attempts'[g] = pass' + 1
    BY <2>1, <2>2, <2>6 DEF Counting
  <2>8. phase = "pass"
    BY <1>5 DEF FinishHost, Places
  <2> QED
    BY <2>1, <2>2, <2>3, <2>5, <2>7, <2>8 DEF Counting
<1>6. CASE EndPass
  BY <1>6 DEF EndPass, poolVars, historyVars, Counting, Pending, InPass, Places
<1>7. CASE RetryPass
  <2>1. /\ queue' = Pending /\ pass' = pass + 1 /\ phase' = "pass"
        /\ UNCHANGED <<running, attempts, passResults>> /\ Pending' = Pending
    BY <1>7 DEF RetryPass, historyVars, Pending
  <2>2. running = {} /\ \A g \in Hosts : passResults[g] = NotRun
    BY <1>7 DEF RetryPass, Places
  <2>3. \A g \in Pending : attempts[g] = pass + 1
    BY <1>7 DEF RetryPass, Counting
  <2>4. \A g \in Hosts : attempts'[g] <= pass' + 1
    BY <2>1 DEF Counting
  <2>5. \A g \in Hosts : ~InPass(g)' => g \notin Pending'
    BY <2>1 DEF InPass
  <2> QED
    BY <2>1, <2>2, <2>3, <2>4, <2>5 DEF Counting
<1>8. CASE Return
  BY <1>8 DEF Return, poolVars, historyVars, Counting, Pending, InPass
<1>9. CASE UNCHANGED vars
  BY <1>9 DEF vars, Counting, Pending, InPass
<1> QED
  BY <1>1, <1>2, <1>3, <1>4, <1>5, <1>6, <1>7, <1>8, <1>9 DEF Next, HostStep

(* Hosts outside the first pass stay untouched.                            *)
LEMMA NextFirstPass == IInv /\ [Next]_vars => FirstPass'
<1> SUFFICES ASSUME IInv, [Next]_vars PROVE FirstPass'
  OBVIOUS
<1> USE RetriesNat DEF IInv, TypeOK
<1>1. ASSUME NEW h \in Hosts, StartHost(h) PROVE FirstPass'
  <2>1. /\ attempts' = [attempts EXCEPT ![h] = @ + 1] /\ queue' = queue \ {h}
        /\ UNCHANGED <<pass, phase, results, runOn>>
    BY <1>1 DEF StartHost
  <2>2. attempts[h] = pass /\ h \in queue
    BY <1>1 DEF StartHost, Counting
  <2>3. \A g \in Hosts : InPass(g)' <=> InPass(g)
    BY <1>1 DEF StartHost, InPass
  <2>4. h \in runOn
    BY <2>2 DEF FirstPass
  <2>5. \A g \in Hosts : g \in runOn' <=> attempts'[g] > 0 \/ (pass' = 0 /\ g \in queue')
    BY <2>1, <2>2, <2>4 DEF FirstPass
  <2> QED
    BY <2>1, <2>3, <2>5 DEF FirstPass
<1>2. ASSUME NEW h \in Hosts, NEW kind \in Kinds, ConnectFails(h, kind) PROVE FirstPass'
  BY <1>2 DEF ConnectFails, poolVars, historyVars, FirstPass, InPass
<1>3. ASSUME NEW h \in Hosts, ConnectOpens(h) PROVE FirstPass'
  BY <1>3 DEF ConnectOpens, poolVars, historyVars, FirstPass, InPass
<1>4. ASSUME NEW h \in Hosts, NEW errors \in {{}, {"transient"}, {"other"}},
             SendCommand(h, errors)
      PROVE  FirstPass'
  BY <1>4 DEF SendCommand, poolVars, FirstPass, InPass
<1>5. ASSUME NEW h \in Hosts, FinishHost(h) PROVE FirstPass'
  BY <1>5 DEF FinishHost, historyVars, FirstPass, InPass, Places
<1>6. CASE EndPass
  BY <1>6 DEF EndPass, poolVars, historyVars, FirstPass, InPass
<1>7. CASE RetryPass
  <2>1. /\ queue' = Pending /\ pass' = pass + 1 /\ phase' = "pass"
        /\ UNCHANGED <<running, attempts, passResults, results, runOn>>
    BY <1>7 DEF RetryPass, historyVars
  <2>2. queue = {} /\ running = {} /\ \A g \in Hosts : passResults[g] = NotRun
    BY <1>7 DEF RetryPass, Places
  <2>3. \A g \in Pending : attempts[g] > 0 /\ results[g] # NotRun
    BY <1>7 DEF RetryPass, Counting, Pending, IsConnectFailure, Failed
  <2>4. pass' # 0
    BY <2>1
  <2>5. \A g \in Hosts : g \in runOn' <=> attempts'[g] > 0 \/ (pass' = 0 /\ g \in queue')
    BY <2>1, <2>2, <2>4 DEF FirstPass
  <2>6. \A g \in Hosts : g \notin runOn' => results'[g] = NotRun /\ ~InPass(g)'
    BY <2>1, <2>2, <2>3 DEF FirstPass, InPass
  <2> QED
    BY <2>4, <2>5, <2>6 DEF FirstPass
<1>8. CASE Return
  BY <1>8 DEF Return, poolVars, historyVars, FirstPass, InPass
<1>9. CASE UNCHANGED vars
  BY <1>9 DEF vars, FirstPass, InPass
<1> QED
  BY <1>1, <1>2, <1>3, <1>4, <1>5, <1>6, <1>7, <1>8, <1>9 DEF Next, HostStep

(* A host that was sent a command is never queued again.                   *)
LEMMA NextCommands == IInv /\ [Next]_vars => Commands'
<1> SUFFICES ASSUME IInv, [Next]_vars PROVE Commands'
  OBVIOUS
<1> USE RetriesNat DEF IInv, TypeOK
<1>1. ASSUME NEW h \in Hosts, StartHost(h) PROVE Commands'
  <2>1. /\ h \in queue /\ queue' = queue \ {h} /\ running' = running \cup {h}
        /\ attempts' = [attempts EXCEPT ![h] = @ + 1] /\ UNCHANGED <<sentIn, session>>
    BY <1>1 DEF StartHost
  <2>2. sentIn[h] = {} /\ h \notin running
    BY <2>1 DEF Commands, Places
  <2>3. \A g \in running' : sentIn'[g] \subseteq {attempts'[g]}
    BY <2>1, <2>2 DEF Commands
  <2> QED
    BY <2>1, <2>3 DEF Commands, CommandsInOneAttempt
<1>2. ASSUME NEW h \in Hosts, NEW kind \in Kinds, ConnectFails(h, kind) PROVE Commands'
  BY <1>2 DEF ConnectFails, poolVars, historyVars, Commands, CommandsInOneAttempt
<1>3. ASSUME NEW h \in Hosts, ConnectOpens(h) PROVE Commands'
  BY <1>3 DEF ConnectOpens, poolVars, historyVars, Commands, CommandsInOneAttempt
<1>4. ASSUME NEW h \in Hosts, NEW errors \in {{}, {"transient"}, {"other"}},
             SendCommand(h, errors)
      PROVE  Commands'
  <2>1. /\ h \in running /\ session[h] /\ UNCHANGED <<queue, running, attempts, session>>
        /\ sentIn' = [sentIn EXCEPT ![h] = @ \cup {attempts[h]}]
    BY <1>4 DEF SendCommand, poolVars
  <2>2. h \notin queue
    BY <2>1 DEF Places
  <2>3. sentIn'[h] = {attempts[h]}
    BY <2>1 DEF Commands
  <2>4. \A g \in Hosts : g # h => sentIn'[g] = sentIn[g]
    BY <2>1
  <2>5. CommandsInOneAttempt'
    BY <2>3, <2>4 DEF Commands, CommandsInOneAttempt
  <2> QED
    BY <2>1, <2>2, <2>3, <2>4, <2>5 DEF Commands
<1>5. ASSUME NEW h \in Hosts, FinishHost(h) PROVE Commands'
  BY <1>5 DEF FinishHost, historyVars, Commands, CommandsInOneAttempt
<1>6. CASE EndPass
  BY <1>6 DEF EndPass, poolVars, historyVars, Commands, CommandsInOneAttempt
<1>7. CASE RetryPass
  <2>1. \A h \in Pending : sentIn[h] = {}
    BY DEF Commands, Pending, IsConnectFailure
  <2>2. running = {}
    BY <1>7 DEF RetryPass, Places
  <2> QED
    BY <1>7, <2>1, <2>2 DEF RetryPass, historyVars, Commands, CommandsInOneAttempt
<1>8. CASE Return
  BY <1>8 DEF Return, poolVars, historyVars, Commands, CommandsInOneAttempt
<1>9. CASE UNCHANGED vars
  BY <1>9 DEF vars, Commands, CommandsInOneAttempt
<1> QED
  BY <1>1, <1>2, <1>3, <1>4, <1>5, <1>6, <1>7, <1>8, <1>9 DEF Next, HostStep

(* A host that refused the login is never queued again.                    *)
LEMMA NextRefusals == IInv /\ [Next]_vars => Refusals'
<1> SUFFICES ASSUME IInv, [Next]_vars PROVE Refusals'
  OBVIOUS
<1> USE RetriesNat DEF IInv, TypeOK
<1>1. ASSUME NEW h \in Hosts, StartHost(h) PROVE Refusals'
  <2>1. /\ h \in queue /\ queue' = queue \ {h} /\ running' = running \cup {h}
        /\ UNCHANGED <<raised, passResults, results, refusals>>
    BY <1>1 DEF StartHost
  <2>2. refusals[h] = 0
    BY <2>1 DEF Refusals
  <2>3. \A g \in Hosts : g # h => ResultSoFar(g)' = ResultSoFar(g)
    BY <2>1 DEF ResultSoFar
  <2> QED
    BY <2>1, <2>2, <2>3 DEF Refusals
<1>2. ASSUME NEW h \in Hosts, NEW kind \in Kinds, ConnectFails(h, kind) PROVE Refusals'
  <2>1. /\ h \in running /\ UNCHANGED <<queue, running, passResults, results>>
        /\ raised' = [raised EXCEPT ![h] = @ \cup {kind}]
        /\ refusals' = [refusals EXCEPT ![h] = IF kind = "permanent" THEN @ + 1 ELSE @]
    BY <1>2 DEF ConnectFails, poolVars
  <2>2. h \notin queue
    BY <2>1 DEF Places
  <2>3. refusals'[h] # 0 => "permanent" \in raised'[h]
    BY <2>1 DEF Refusals, ResultSoFar
  <2>4. \A g \in Hosts : g # h => /\ ResultSoFar(g)' = ResultSoFar(g)
                                  /\ refusals'[g] = refusals[g]
    BY <2>1 DEF ResultSoFar
  <2>5. ResultSoFar(h)' = raised'[h]
    BY <2>1 DEF ResultSoFar
  <2> QED
    BY <2>1, <2>2, <2>3, <2>4, <2>5 DEF Refusals
<1>3. ASSUME NEW h \in Hosts, ConnectOpens(h) PROVE Refusals'
  BY <1>3 DEF ConnectOpens, poolVars, historyVars, Refusals, ResultSoFar
<1>4. ASSUME NEW h \in Hosts, NEW errors \in {{}, {"transient"}, {"other"}},
             SendCommand(h, errors)
      PROVE  Refusals'
  <2>1. /\ h \in running /\ UNCHANGED <<queue, running, passResults, results, refusals>>
        /\ raised' = [raised EXCEPT ![h] = @ \cup errors]
    BY <1>4 DEF SendCommand, poolVars
  <2>2. \A g \in Hosts : "permanent" \in ResultSoFar(g) => "permanent" \in ResultSoFar(g)'
    BY <2>1 DEF ResultSoFar
  <2> QED
    BY <2>1, <2>2 DEF Refusals
<1>5. ASSUME NEW h \in Hosts, FinishHost(h) PROVE Refusals'
  <2>1. /\ h \in running /\ running' = running \ {h} /\ UNCHANGED <<queue, results, refusals>>
        /\ passResults' = [passResults EXCEPT ![h] = raised[h]]
        /\ raised' = [raised EXCEPT ![h] = {}]
    BY <1>5 DEF FinishHost, historyVars
  <2>2. raised[h] # NotRun
    BY DEF Results, Kinds, NotRun
  <2>3. \A g \in Hosts : ResultSoFar(g)' = ResultSoFar(g)
    BY <2>1, <2>2 DEF ResultSoFar
  <2> QED
    BY <2>1, <2>3 DEF Refusals
<1>6. CASE EndPass
  <2>1. /\ running = {} /\ running' = {} /\ UNCHANGED <<queue, refusals>>
        /\ results' = [h \in Hosts |-> IF passResults[h] = NotRun
                                       THEN results[h] ELSE passResults[h]]
        /\ passResults' = [h \in Hosts |-> NotRun]
    BY <1>6 DEF EndPass, poolVars, historyVars
  <2>2. \A g \in Hosts : ResultSoFar(g)' = ResultSoFar(g)
    BY <2>1 DEF ResultSoFar
  <2> QED
    BY <2>1, <2>2 DEF Refusals
<1>7. CASE RetryPass
  <2>1. queue' = Pending /\ UNCHANGED <<running, raised, passResults, results, refusals>>
    BY <1>7 DEF RetryPass, historyVars
  <2>2. running = {} /\ \A h \in Hosts : passResults[h] = NotRun
    BY <1>7 DEF RetryPass, Places
  <2>3. \A h \in Pending : "permanent" \notin ResultSoFar(h)
    BY <2>2 DEF Pending, IsConnectFailure, ResultSoFar
  <2>4. \A g \in Hosts : ResultSoFar(g)' = ResultSoFar(g)
    BY <2>1 DEF ResultSoFar
  <2>5. \A h \in Pending : refusals[h] = 0
    BY <2>3 DEF Refusals, Pending
  <2> QED
    BY <2>1, <2>4, <2>5 DEF Refusals
<1>8. CASE Return
  BY <1>8 DEF Return, poolVars, historyVars, Refusals, ResultSoFar
<1>9. CASE UNCHANGED vars
  BY <1>9 DEF vars, Refusals, ResultSoFar
<1> QED
  BY <1>1, <1>2, <1>3, <1>4, <1>5, <1>6, <1>7, <1>8, <1>9 DEF Next, HostStep

(* Nornir's failed_hosts follows the results.                              *)
LEMMA NextFailedSet == IInv /\ [Next]_vars => FailedSet'
<1> SUFFICES ASSUME IInv, [Next]_vars PROVE FailedSet'
  OBVIOUS
<1> USE RetriesNat DEF IInv, TypeOK
<1>1. ASSUME NEW h \in Hosts, StartHost(h) PROVE FailedSet'
  BY <1>1 DEF StartHost, FailedSet, InPass, Places
<1>2. ASSUME NEW h \in Hosts, NEW kind \in Kinds, ConnectFails(h, kind) PROVE FailedSet'
  BY <1>2 DEF ConnectFails, poolVars, historyVars, FailedSet, InPass
<1>3. ASSUME NEW h \in Hosts, ConnectOpens(h) PROVE FailedSet'
  BY <1>3 DEF ConnectOpens, poolVars, historyVars, FailedSet, InPass
<1>4. ASSUME NEW h \in Hosts, NEW errors \in {{}, {"transient"}, {"other"}},
             SendCommand(h, errors)
      PROVE  FailedSet'
  BY <1>4 DEF SendCommand, poolVars, FailedSet, InPass
<1>5. ASSUME NEW h \in Hosts, FinishHost(h) PROVE FailedSet'
  <2>1. raised[h] # NotRun
    BY DEF Results, Kinds, NotRun
  <2>2. \A g \in Hosts : InPass(g)' <=> InPass(g)
    BY <1>5, <2>1 DEF FinishHost, InPass
  <2> QED
    BY <1>5, <2>2 DEF FinishHost, FailedSet
<1>6. CASE EndPass
  <2>1. /\ phase = "pass" /\ phase' = "between" /\ pass' = pass
        /\ \A h \in Hosts : InPass(h) <=> passResults[h] # NotRun
    BY <1>6 DEF EndPass, poolVars, InPass
  <2>2. \A h \in Hosts :
          /\ results'[h] = IF passResults[h] = NotRun THEN results[h] ELSE passResults[h]
          /\ h \in failedHosts' <=> /\ h \in failedHosts \/ Failed(passResults[h])
                                   /\ ~(pass > 0 /\ passResults[h] = {})
    BY <1>6 DEF EndPass
  <2>3. NotRun # {}
    BY DEF NotRun
  <2>4. ASSUME NEW h \in Hosts PROVE h \in failedHosts' <=> results'[h] # {}
    <3>1. CASE passResults[h] = NotRun
      BY <2>1, <2>2, <2>3, <3>1 DEF FailedSet, FirstPass, Failed
    <3>2. CASE passResults[h] = {}
      BY <2>1, <2>2, <2>3, <3>2 DEF FailedSet, Failed
    <3>3. CASE Failed(passResults[h])
      BY <2>1, <2>2, <3>3 DEF Failed
    <3> QED
      BY <3>1, <3>2, <3>3 DEF Failed
  <2> QED
    BY <2>1, <2>4 DEF FailedSet
<1>7. CASE RetryPass
  BY <1>7 DEF RetryPass, historyVars, FailedSet
<1>8. CASE Return
  BY <1>8 DEF Return, poolVars, historyVars, FailedSet
<1>9. CASE UNCHANGED vars
  BY <1>9 DEF vars, FailedSet, InPass
<1> QED
  BY <1>1, <1>2, <1>3, <1>4, <1>5, <1>6, <1>7, <1>8, <1>9 DEF Next, HostStep

-----------------------------------------------------------------------------
(* The strengthening is inductive, and implies what the runs check.        *)
LEMMA InitIInv == Init => IInv
<1> SUFFICES ASSUME Init PROVE IInv
  OBVIOUS
<1> USE RetriesNat
<1>1. TypeOK
  BY InitTypeOK
<1>2. Places
  BY DEF Init, Places
<1>3. \A h \in Hosts : results[h] = NotRun /\ passResults[h] = NotRun /\ attempts[h] = 0
  BY DEF Init
<1>4. NotRun # {}
  BY DEF NotRun
<1>5. Counting
  BY <1>3 DEF Init, Counting, InPass, Pending, IsConnectFailure, Failed
<1>6. FirstPass
  BY <1>3 DEF Init, FirstPass, InPass
<1>7. Commands /\ Refusals
  BY DEF Init, Commands, CommandsInOneAttempt, Refusals
<1>8. FailedSet
  BY <1>3 DEF Init, FailedSet, InPass
<1> QED
  BY <1>1, <1>2, <1>5, <1>6, <1>7, <1>8 DEF IInv

(* Each step preserves each part of the invariant.                         *)
LEMMA NextIInv == IInv /\ [Next]_vars => IInv'
BY NextTypeOK, NextPlaces, NextCounting, NextFirstPass, NextCommands,
   NextRefusals, NextFailedSet DEF IInv

(* The invariant holds in every state of every behaviour.                  *)
LEMMA Inductive == Spec => []IInv
BY InitIInv, NextIInv, PTL DEF Spec

(* Every variable keeps its type in every reachable state; in particular   *)
(* run_with_retries makes at most 1 + max(0, connect_retries) attempts on  *)
(* a host.                                                                 *)
THEOREM TypeCorrect == Spec => []TypeOK
<1>1. IInv => TypeOK
  BY DEF IInv
<1> QED
  BY <1>1, Inductive, PTL

(* However many retries are configured, and whatever else its attempt      *)
(* tried, a host that has refused a login is not attempted again.          *)
THEOREM NeverRetriedAfterRefusal == Spec => NoRetryAfterRefusal
<1>1. ASSUME IInv, [Next]_vars
      PROVE  [\A h \in Hosts : attempts'[h] # attempts[h] => refusals[h] = 0]_vars
  <2>1. ASSUME NEW g \in Hosts, StartHost(g), NEW h \in Hosts, attempts'[h] # attempts[h]
        PROVE  refusals[h] = 0
    <3>1. h = g
      BY <1>1, <2>1 DEF StartHost, IInv, TypeOK
    <3> QED
      BY <1>1, <2>1, <3>1 DEF StartHost, IInv, Refusals
  <2>2. ASSUME UNCHANGED attempts, NEW h \in Hosts, attempts'[h] # attempts[h]
        PROVE  refusals[h] = 0
    BY <2>2
  <2> QED
    BY <1>1, <2>1, <2>2 DEF Next, HostStep, ConnectFails, ConnectOpens, SendCommand,
       FinishHost, EndPass, RetryPass, Return, historyVars, vars
<1> QED
  BY <1>1, Inductive, PTL DEF Spec, NoRetryAfterRefusal

(* No host is sent commands in two attempts of one run.                    *)
THEOREM NeverCommandedTwice == Spec => []CommandsInOneAttempt
<1>1. IInv => CommandsInOneAttempt
  BY DEF IInv, Commands
<1> QED
  BY <1>1, Inductive, PTL

(* Between passes and after the last one, failed_hosts says of every host  *)
(* what its result says.                                                   *)
THEOREM FailedHostsFollowResults == Spec => []FailedHostsMatchResults
<1>1. IInv => FailedHostsMatchResults
  BY DEF IInv, FailedSet, FailedHostsMatchResults
<1> QED
  BY <1>1, Inductive, PTL

(* The pool never has more than Workers hosts under way, nor the terminal  *)
(* more bars.                                                              *)
THEOREM PoolBounded == Spec => []BarsBounded
<1>1. Init => BarsBounded
  BY WorkersAssumption, FS_EmptySet DEF Init, BarsBounded
<1>2. IInv /\ BarsBounded /\ [Next]_vars => BarsBounded'
  <2> SUFFICES ASSUME IInv, BarsBounded, [Next]_vars PROVE BarsBounded'
    OBVIOUS
  <2>1. IsFiniteSet(running)
    BY HostsAssumption, FS_Subset DEF IInv, TypeOK
  <2>2. Cardinality(running) \in Nat
    BY <2>1, FS_CardinalityType
  <2>3. ASSUME NEW h \in Hosts, StartHost(h) PROVE BarsBounded'
    <3>1. Cardinality(running \cup {h}) <= Cardinality(running) + 1
      BY <2>1, <2>2, FS_AddElement
    <3>2. Cardinality(running \cup {h}) \in Nat
      BY <2>1, FS_AddElement, FS_CardinalityType
    <3> QED
      BY <2>2, <2>3, <3>1, <3>2, WorkersAssumption DEF StartHost, BarsBounded
  <2>4. ASSUME NEW h \in Hosts, FinishHost(h) PROVE BarsBounded'
    <3>1. Cardinality(running \ {h}) <= Cardinality(running)
      BY <2>1, FS_Subset
    <3>2. Cardinality(running \ {h}) \in Nat
      BY <2>1, FS_Subset, FS_CardinalityType
    <3> QED
      BY <2>2, <2>4, <3>1, <3>2, WorkersAssumption DEF FinishHost, BarsBounded
  <2>5. ASSUME UNCHANGED <<bars, running>> PROVE BarsBounded'
    BY <2>5 DEF BarsBounded
  <2> QED
    BY <2>3, <2>4, <2>5 DEF Next, HostStep, ConnectFails, ConnectOpens, SendCommand,
       EndPass, RetryPass, Return, poolVars, vars
<1> QED
  BY <1>1, <1>2, Inductive, PTL DEF Spec

-----------------------------------------------------------------------------
(* The refinement.  Only two kinds of step show at the contract's level: a *)
(* host's task ending, and the return.                                     *)
LEMMA ContractInit == Init => Contract!Init
<1> SUFFICES ASSUME Init PROVE Contract!Init
  OBVIOUS
<1>1. CompletedAttempts = [h \in Hosts |-> 0]
  BY DEF Init, CompletedAttempts
<1>2. LastOutcome = [h \in Hosts |-> "none"]
  BY DEF Init, LastOutcome, OutcomeOf
<1> QED
  BY <1>1, <1>2 DEF Init, Contract!Init, Contract!NoOutcome

ContractState == <<runOn, CompletedAttempts, LastOutcome, phase = "returned">>

(* Starting a host, connecting and sending commands do not show.           *)
LEMMA WorkIsInvisible ==
  ASSUME IInv, NEW h \in Hosts,
         \/ StartHost(h)
         \/ \E kind \in Kinds : ConnectFails(h, kind)
         \/ ConnectOpens(h)
         \/ \E errors \in {{}, {"transient"}, {"other"}} : SendCommand(h, errors)
  PROVE  UNCHANGED ContractState
<1> USE DEF ContractState
<1>1. CASE StartHost(h)
  <2>1. /\ attempts' = [attempts EXCEPT ![h] = @ + 1] /\ running' = running \cup {h}
        /\ queue' \cup running' = queue \cup running /\ h \notin running
        /\ UNCHANGED <<phase, pass, session, passResults, results, runOn>>
    BY <1>1 DEF StartHost, IInv, Places
  <2>2. CompletedAttempts' = CompletedAttempts
    BY <2>1 DEF CompletedAttempts, IInv, TypeOK
  <2>3. LastOutcome' = LastOutcome
    BY <2>1 DEF LastOutcome
  <2> QED
    BY <2>1, <2>2, <2>3
<1>2. CASE ConnectOpens(h)
  <2>1. /\ session' = [session EXCEPT ![h] = TRUE] /\ h \in running
        /\ UNCHANGED <<phase, pass, queue, running, passResults, results, runOn, attempts>>
    BY <1>2 DEF ConnectOpens, poolVars, historyVars
  <2>2. passResults[h] = NotRun /\ phase = "pass"
    BY <2>1 DEF IInv, Places
  <2>3. pass = 0 => results[h] = NotRun
    BY <2>2 DEF IInv, FirstPass
  <2>4. pass \in Nat
    BY RetriesNat DEF IInv, TypeOK
  <2>5. ASSUME NEW g \in Hosts PROVE LastOutcome'[g] = LastOutcome[g]
    <3>1. CASE g = h
      BY <2>1, <2>2, <2>3, <2>4, <3>1 DEF LastOutcome, OutcomeOf, IsConnectFailure, Failed
    <3>2. CASE g # h
      <4>1. session'[g] = session[g]
        BY <2>1, <3>2 DEF IInv, TypeOK
      <4> QED
        BY <2>1, <4>1 DEF LastOutcome, OutcomeOf, IsConnectFailure, Failed
    <3> QED
      BY <3>1, <3>2
  <2>6. LastOutcome' = LastOutcome
    BY <2>5 DEF LastOutcome
  <2>7. CompletedAttempts' = CompletedAttempts
    BY <2>1 DEF CompletedAttempts
  <2> QED
    BY <2>1, <2>6, <2>7
<1>3. CASE UNCHANGED <<phase, pass, queue, running, session, passResults, results,
                       runOn, attempts>>
  BY <1>3 DEF CompletedAttempts, LastOutcome
<1> QED
  BY <1>1, <1>2, <1>3 DEF ConnectFails, SendCommand, poolVars, historyVars

(* A task that ends is one attempt of the contract, owed to its host.      *)
LEMMA FinishIsAttempt ==
  ASSUME IInv, NEW h \in Hosts, FinishHost(h)
  PROVE  Contract!Next
<1> DEFINE o == OutcomeOf(raised[h], session[h])
<1>1. /\ h \in running /\ running' = running \ {h}
      /\ passResults' = [passResults EXCEPT ![h] = raised[h]]
      /\ UNCHANGED <<phase, pass, queue, session, results, runOn, attempts>>
  BY DEF FinishHost, historyVars
<1>2. /\ phase = "pass" /\ passResults[h] = NotRun /\ h \notin queue
      /\ attempts[h] = pass + 1 /\ pass \in Nat /\ pass <= Retries
  BY <1>1, RetriesNat DEF IInv, Places, Counting, TypeOK
<1>3. raised[h] # NotRun
  BY DEF IInv, TypeOK, Results, Kinds, NotRun
<1>4. o \in Contract!Outcomes
  BY <1>3 DEF OutcomeOf, Contract!Outcomes
<1>5. CompletedAttempts[h] = pass /\ (pass > 0 => LastOutcome[h] = "connect")
  BY <1>1, <1>2 DEF CompletedAttempts, LastOutcome
<1>6. h \in runOn
  BY <1>2 DEF IInv, FirstPass
<1>7. Contract!Owed(h)
  BY <1>2, <1>5, <1>6 DEF Contract!Owed
<1>8. CompletedAttempts' = [CompletedAttempts EXCEPT ![h] = @ + 1]
  <2>1. CompletedAttempts'[h] = CompletedAttempts[h] + 1
    BY <1>1, <1>2 DEF CompletedAttempts
  <2>2. \A g \in Hosts : g # h => CompletedAttempts'[g] = CompletedAttempts[g]
    BY <1>1 DEF CompletedAttempts
  <2> QED
    BY <2>1, <2>2 DEF CompletedAttempts
<1>9. LastOutcome' = [LastOutcome EXCEPT ![h] = o]
  <2>1. LastOutcome'[h] = o
    BY <1>1, <1>3 DEF LastOutcome, IInv, TypeOK
  <2>2. \A g \in Hosts : g # h => LastOutcome'[g] = LastOutcome[g]
    BY <1>1 DEF LastOutcome, IInv, TypeOK
  <2> QED
    BY <2>1, <2>2 DEF LastOutcome
<1>10. Contract!Attempt(h, o)
  BY <1>1, <1>2, <1>7, <1>8, <1>9 DEF Contract!Attempt
<1> QED
  BY <1>4, <1>10 DEF Contract!Next

(* Collecting the results of a pass does not show: they show already.      *)
LEMMA EndPassIsInvisible ==
  ASSUME IInv, EndPass
  PROVE  UNCHANGED ContractState
<1>1. /\ queue = {} /\ running = {} /\ phase = "pass" /\ phase' = "between"
      /\ UNCHANGED <<pass, session, queue, running, runOn, attempts>>
      /\ results' = [h \in Hosts |-> IF passResults[h] = NotRun
                                     THEN results[h] ELSE passResults[h]]
      /\ passResults' = [h \in Hosts |-> NotRun]
  BY DEF EndPass, poolVars, historyVars
<1>2. LastOutcome' = LastOutcome
  <2>1. ASSUME NEW h \in Hosts PROVE LastOutcome'[h] = LastOutcome[h]
    BY <1>1 DEF LastOutcome
  <2> QED
    BY <2>1 DEF LastOutcome
<1>3. CompletedAttempts' = CompletedAttempts
  BY <1>1 DEF CompletedAttempts
<1> QED
  BY <1>1, <1>2, <1>3 DEF ContractState

(* Nor does choosing the hosts of the next pass.                           *)
LEMMA RetryPassIsInvisible ==
  ASSUME IInv, RetryPass
  PROVE  UNCHANGED ContractState
<1>1. /\ phase = "between" /\ phase' = "pass" /\ queue' = Pending /\ pass' = pass + 1
      /\ UNCHANGED <<session, running, passResults, results, runOn, attempts>>
  BY DEF RetryPass, historyVars
<1>2. queue = {} /\ running = {} /\ \A h \in Hosts : passResults[h] = NotRun
  BY <1>1 DEF IInv, Places
<1>3. pass \in Nat
  BY RetriesNat DEF IInv, TypeOK
<1>4. LastOutcome' = LastOutcome
  <2>1. ASSUME NEW h \in Hosts PROVE LastOutcome'[h] = LastOutcome[h]
    BY <1>1, <1>2, <1>3 DEF LastOutcome, OutcomeOf, Pending, IsConnectFailure, Failed
  <2> QED
    BY <2>1 DEF LastOutcome
<1>5. CompletedAttempts' = CompletedAttempts
  BY <1>1 DEF CompletedAttempts
<1> QED
  BY <1>1, <1>4, <1>5 DEF ContractState

(* run_with_retries returns only when no host is owed an attempt.          *)
LEMMA ReturnIsReturn ==
  ASSUME IInv, Return
  PROVE  Contract!Next
<1>1. /\ phase = "between" /\ phase' = "returned" /\ (pass = Retries \/ Pending = {})
      /\ UNCHANGED <<pass, queue, session, running, passResults, results, runOn, attempts>>
  BY DEF Return, poolVars, historyVars
<1>2. queue = {} /\ running = {} /\ \A h \in Hosts : passResults[h] = NotRun
  BY <1>1 DEF IInv, Places
<1>3. CompletedAttempts' = CompletedAttempts /\ LastOutcome' = LastOutcome
  BY <1>1 DEF CompletedAttempts, LastOutcome
<1>4. ASSUME NEW h \in Hosts, Contract!Owed(h) PROVE FALSE
  <2>1. h \in runOn /\ CompletedAttempts[h] = attempts[h]
    BY <1>2, <1>4 DEF Contract!Owed, CompletedAttempts
  <2>2. attempts[h] > 0 /\ attempts[h] \in Nat
    BY <1>2, <2>1, RetriesNat DEF IInv, FirstPass, TypeOK
  <2>3. LastOutcome[h] = "connect" /\ attempts[h] <= Retries
    BY <1>4, <2>1, <2>2 DEF Contract!Owed
  <2>4. h \in Pending
    BY <1>2, <2>3 DEF LastOutcome, OutcomeOf, Pending
  <2>5. attempts[h] = pass + 1
    BY <1>1, <2>4 DEF IInv, Counting
  <2> QED
    BY <1>1, <2>3, <2>4, <2>5, RetriesNat
<1> QED
  BY <1>1, <1>3, <1>4 DEF Contract!Next, Contract!Return

(* For every inventory and every number of retries, run_with_retries gives *)
(* each host the attempts the contract grants and returns the outcome of   *)
(* the last one.                                                           *)
THEOREM Refinement == Spec => KeepsContract
<1>1. IInv /\ [Next]_vars => [Contract!Next]_(Contract!vars)
  <2> SUFFICES ASSUME IInv, [Next]_vars PROVE Contract!Next \/ UNCHANGED Contract!vars
    OBVIOUS
  <2>0. UNCHANGED ContractState => UNCHANGED Contract!vars
    BY DEF ContractState, Contract!vars
  <2>1. CASE \E h \in Hosts : StartHost(h) \/ HostStep(h)
    BY <2>0, <2>1, WorkIsInvisible, FinishIsAttempt DEF HostStep
  <2>2. CASE EndPass
    BY <2>0, <2>2, EndPassIsInvisible
  <2>3. CASE RetryPass
    BY <2>0, <2>3, RetryPassIsInvisible
  <2>4. CASE Return
    BY <2>4, ReturnIsReturn
  <2>5. CASE UNCHANGED vars
    BY <2>5 DEF vars, Contract!vars, CompletedAttempts, LastOutcome
  <2> QED
    BY <2>1, <2>2, <2>3, <2>4, <2>5 DEF Next
<1> QED
  BY <1>1, ContractInit, Inductive, PTL DEF Spec, KeepsContract, Contract!Spec
=============================================================================
