---------------------------- MODULE CleanupProofs ---------------------------
(***************************************************************************)
(* What the nightly prune guarantees for every pool, every number of       *)
(* retries and every set of tokens: overlapping runs delete disjoint sets  *)
(* of expired tokens, and late acknowledgement keeps a task through a      *)
(* crash of the worker.  That expired tokens go at last is checked by TLC. *)
(***************************************************************************)
EXTENDS Cleanup, TLAPS

\* A process that is at work has a message.
WorkInv == \A p \in Process : stage[p] # "idle" => running[p] \in Message

CInv == TypeOK /\ WorkInv /\ RunsPruneApart

LEMMA CInvInit == Init => CInv
BY DEF Init, CInv, TypeOK, WorkInv, RunsPruneApart, Stages

\* A DELETE starts when no other run holds expired rows, so the sets stay apart;
\* nobody else removes a row that a run holds.
LEMMA CInvStep == CInv /\ [Next]_vars => CInv'
<1> SUFFICES ASSUME CInv, [Next]_vars PROVE CInv'
  OBVIOUS
<1> USE CleanupAssumption DEF CInv, TypeOK, WorkInv, RunsPruneApart, Stages, Expired
<1>1. ASSUME NEW n \in Night, Beat(n) PROVE CInv'
  <2>1. <<n, 0>> \in Message BY DEF Message
  <2> QED BY <1>1, <2>1 DEF Beat
<1>2. ASSUME NEW p \in Process, NEW m \in Message, Take(p, m) PROVE CInv'
  BY <1>2 DEF Take, Goto
<1>3. ASSUME NEW p \in Process, Connect(p) PROVE CInv'
  BY <1>3 DEF Connect, Goto
<1>4. ASSUME NEW p \in Process, ConnectStale(p) PROVE CInv'
  BY <1>4 DEF ConnectStale, Goto
<1>5. ASSUME NEW p \in Process, Delete(p) PROVE CInv'
  <2> USE <1>5 DEF Delete, Goto
  <2>1. TypeOK' /\ WorkInv'
    OBVIOUS
  <2>2. \A q \in Process \ {p} : doomed[q] = {}
    OBVIOUS
  <2>3. RunsPruneApart'
    BY <2>2
  <2> QED BY <2>1, <2>3
<1>6. ASSUME NEW p \in Process, Commit(p) PROVE CInv'
  <2> USE <1>6 DEF Commit, Goto
  <2>1. TypeOK' /\ WorkInv'
    OBVIOUS
  <2>2. RunsPruneApart'
    OBVIOUS
  <2> QED BY <2>1, <2>2
<1>7. ASSUME NEW p \in Process, Fail(p) PROVE CInv'
  BY <1>7 DEF Fail
<1>8. ASSUME NEW p \in Process, Retry(p) PROVE CInv'
  <2> DEFINE n == running[p][1]
             k == running[p][2]
  <2>1. n \in Night /\ k \in 0 .. MaxRetries
    BY <1>8 DEF Retry, Goto, Message
  <2>2. k < MaxRetries => <<n, k + 1>> \in Message
    BY <2>1 DEF Message
  <2> QED BY <1>8, <2>2 DEF Retry, Goto
<1>9. ASSUME NEW p \in Process, Ack(p) PROVE CInv'
  BY <1>9 DEF Ack, Goto
<1>10. ASSUME NEW p \in Process, KillProcess(p) PROVE CInv'
  BY <1>10 DEF KillProcess
<1>11. ASSUME CrashWorker PROVE CInv'
  BY <1>11 DEF CrashWorker, Busy
<1>12. ASSUME NEW t \in Token, Issue(t) \/ Expire(t) \/ Revoke(t) PROVE CInv'
  BY <1>12 DEF Issue, Expire, Revoke
<1>13. CASE UNCHANGED vars
  BY <1>13 DEF vars
<1> QED
  BY <1>1, <1>2, <1>3, <1>4, <1>5, <1>6, <1>7, <1>8, <1>9, <1>10, <1>11, <1>12, <1>13
  DEF Next, Run

\* The inductive invariant of the prune holds in every reachable state.
THEOREM CleanupInvariant == Spec => []CInv
BY CInvInit, CInvStep, PTL DEF Spec

-----------------------------------------------------------------------------
\* Type correctness; no retry goes beyond max_retries.
THEOREM CleanupTypeOK == Spec => []TypeOK
<1>1. CInv => TypeOK
  BY DEF CInv
<1> QED
  BY <1>1, CleanupInvariant, PTL

\* However many runs of the task overlap, no two delete the same row, and none
\* deletes a row that is not expired.
THEOREM CleanupRunsPruneApart == Spec => []RunsPruneApart
<1>1. CInv => RunsPruneApart
  BY DEF CInv
<1> QED
  BY <1>1, CleanupInvariant, PTL

\* All messages that the broker still has.
Held == queue \union {running[p] : p \in Busy}

\* Acknowledging and a process's death apart, no step takes a message from the
\* broker: a retry is published before the old message is acknowledged, and the
\* worker's crash puts back what was running.
LEMMA HeldKept ==
  ASSUME CInv, [Next]_vars, \A p \in Busy : ~Ack(p) /\ ~KillProcess(p)
  PROVE  Held \subseteq Held'
<1> USE DEF Held, Busy, CInv, TypeOK, Stages
<1>1. ASSUME NEW n \in Night, Beat(n) PROVE Held \subseteq Held'
  BY <1>1 DEF Beat
<1>2. ASSUME NEW p \in Process, NEW m \in Message, Take(p, m) PROVE Held \subseteq Held'
  <2>1. running'[p] = m /\ stage'[p] = "connect"
    BY <1>2 DEF Take, Goto
  <2>2. \A q \in Busy : q \in Busy' /\ running'[q] = running[q]
    BY <1>2 DEF Take, Goto
  <2> QED BY <1>2, <2>1, <2>2 DEF Take
<1>3. ASSUME NEW p \in Process, Run(p) PROVE Held \subseteq Held'
  <2>1. p \in Busy
    BY <1>3 DEF Run, Connect, ConnectStale, Delete, Commit, Fail, Retry, Ack, Goto
  <2>2. Busy' = Busy /\ running' = running
    BY <1>3, <2>1 DEF Run, Connect, ConnectStale, Delete, Commit, Fail, Retry, Goto
  <2>3. queue \subseteq queue'
    BY <1>3, <2>1 DEF Run, Connect, ConnectStale, Delete, Commit, Fail, Retry
  <2> QED BY <2>2, <2>3
<1>4. ASSUME NEW p \in Process, KillProcess(p) PROVE Held \subseteq Held'
  BY <1>4 DEF KillProcess
<1>5. ASSUME CrashWorker PROVE Held \subseteq Held'
  BY <1>5 DEF CrashWorker
<1>6. ASSUME NEW t \in Token, Issue(t) \/ Expire(t) \/ Revoke(t)
      PROVE  Held \subseteq Held'
  BY <1>6 DEF Issue, Expire, Revoke
<1>7. CASE UNCHANGED vars
  BY <1>7 DEF vars
<1> QED
  BY <1>1, <1>2, <1>3, <1>4, <1>5, <1>6, <1>7 DEF Next

\* task_acks_late: a night's task is never lost by a crash of the worker.
THEOREM TasksSurviveWorkerCrash == Spec => TaskSurvivesWorkerCrash
<1> DEFINE Step ==
      \A n \in Night : UnderWay(n) /\ ~UnderWay(n)' =>
        \E p \in Busy : running[p][1] = n /\ (Ack(p) \/ KillProcess(p))
<1>1. ASSUME CInv, [Next]_vars PROVE [Step]_vars
  <2> SUFFICES ASSUME NEW n \in Night, UnderWay(n), ~UnderWay(n)'
               PROVE  \E p \in Busy : running[p][1] = n /\ (Ack(p) \/ KillProcess(p))
    OBVIOUS
  <2>1. PICK m \in Held : m[1] = n /\ m \notin Held'
    BY DEF UnderWay, Held
  <2>2. PICK p \in Busy : Ack(p) \/ KillProcess(p)
    BY <1>1, <2>1, HeldKept
  <2>3. queue' = queue /\ Busy' = Busy \ {p}
    BY <1>1, <2>2 DEF Ack, KillProcess, Goto, Busy, CInv, TypeOK, Stages
  <2>4. \A q \in Busy \ {p} : running'[q] = running[q]
    BY <1>1, <2>2 DEF Ack, KillProcess, Busy, CInv, TypeOK
  <2>5. m = running[p]
    BY <2>1, <2>3, <2>4 DEF Held
  <2> QED BY <2>1, <2>2, <2>5
<1> QED
  BY <1>1, CleanupInvariant, PTL DEF Spec, TaskSurvivesWorkerCrash

-----------------------------------------------------------------------------
(* What can remove a token *)

\* A row leaves the table by a commit of a run, which takes expired rows only,
\* or by a logout.
LEMMA RowsLeave ==
  ASSUME CInv, [Next]_vars, NEW t \in Token, token[t] # "none", token'[t] = "none"
  PROVE  \/ Revoke(t)
         \/ \E p \in Process : Commit(p) /\ t \in doomed[p] /\ token[t] = "expired"
<1> USE DEF CInv, TypeOK
<1>1. ASSUME NEW p \in Process, Commit(p)
      PROVE  t \in doomed[p] /\ token[t] = "expired"
  BY <1>1 DEF Commit, RunsPruneApart, Expired
<1>2. ASSUME NEW u \in Token, Issue(u) \/ Expire(u) \/ Revoke(u)
      PROVE  Revoke(t)
  BY <1>2 DEF Issue, Expire, Revoke
<1>3. CASE token' = token
  BY <1>3
<1> QED
  BY <1>1, <1>2, <1>3
  DEF Next, Run, Beat, Take, Connect, ConnectStale, Delete, Fail, Retry, Ack, KillProcess,
      CrashWorker, vars

\* The nightly prune logs nobody out: a token that has not expired leaves the
\* table by a logout only, however runs are repeated, and however long ago the
\* DELETE of a run has looked at it.
THEOREM PruneLogsNobodyOut ==
  Spec => [][\A t \in Token : token[t] = "live" /\ token'[t] = "none" => Revoke(t)]_vars
<1> DEFINE Step == \A t \in Token : token[t] = "live" /\ token'[t] = "none" => Revoke(t)
<1>1. CInv /\ [Next]_vars => [Step]_vars
  BY RowsLeave
<1> QED
  BY <1>1, CleanupInvariant, PTL DEF Spec

\* With a worker that does not consume the queue to which the task goes, as in
\* docker-compose.yml, no run ever starts: expired tokens stay until a logout.
THEOREM UnconsumedNeverPruned ==
  ASSUME Route \notin Consumed
  PROVE  Spec => [][\A t \in Token : token[t] = "expired" /\ token'[t] = "none"
                                      => Revoke(t)]_vars
<1> DEFINE Step == \A t \in Token : token[t] = "expired" /\ token'[t] = "none" => Revoke(t)
           Idle == stage = [p \in Process |-> "idle"]
<1>1. Init => Idle
  BY DEF Init
<1>2. ASSUME Idle, [Next]_vars PROVE Idle'
  <2>1. stage' = stage
    BY <1>2
    DEF Next, Run, Goto, Beat, Take, Connect, ConnectStale, Delete, Commit, Fail, Retry,
        Ack, KillProcess, CrashWorker, Busy, Issue, Expire, Revoke, vars
  <2> QED BY <1>2, <2>1
<1>3. CInv /\ Idle /\ [Next]_vars => [Step]_vars
  BY RowsLeave DEF Commit, Goto
<1> QED
  BY <1>1, <1>2, <1>3, CleanupInvariant, PTL DEF Spec

=============================================================================
