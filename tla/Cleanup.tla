------------------------------- MODULE Cleanup ------------------------------
(***************************************************************************)
(* The nightly prune of expired refresh tokens: Celery beat publishes a    *)
(* message, a process of the worker's pool runs                            *)
(* prune_expired_refresh_tokens (tasks/cleanup.py) under the settings of   *)
(* tasks/celery_app.py: late acknowledgement, up to max_retries retries.   *)
(* Here are the broker, the pool and their failures; how the DELETE meets  *)
(* the requests that use the same rows is in module Sessions.              *)
(*                                                                         *)
(* Every run has an event loop of its own (asyncio.run), but the engine    *)
(* and its pool live as long as the process: a connection that an earlier  *)
(* run has put back belongs to a loop that is closed, and using it may     *)
(* raise.  That is a choice here.                                          *)
(***************************************************************************)
EXTENDS Naturals

CONSTANTS Token,       \* refresh_tokens rows
          Process,     \* processes of the worker's pool
          Night,       \* bound: nightly tasks that are under way at once
          Consumed,    \* the queues that the worker consumes (-Q)
          MaxRetries,
          None

ASSUME CleanupAssumption == MaxRetries \in Nat

VARIABLES
  token,    \* token[t]: "none" if there is no row, "live" or "expired"
  queue,    \* messages that wait in the broker: a night's task and its retries
  running,  \* the message that a process runs, not yet acknowledged
  stage,    \* what the process does next
  doomed,   \* the rows its uncommitted DELETE has taken
  pooled    \* processes with a connection in their engine's pool

vars == <<token, queue, running, stage, doomed, pooled>>

\* A retry has the id of the task and one more in request.retries.
Message == Night \X (0 .. MaxRetries)
Stages == {"idle", "connect", "delete", "commit", "failed", "ack"}

\* task_routes names payroll, documents, ocr and notifications tasks only; there
\* is no task_default_queue, so the prune goes to Celery's own default.
Route == "celery"

Init ==
  /\ token = [t \in Token |-> "none"]
  /\ queue = {} /\ pooled = {}
  /\ running = [p \in Process |-> None]
  /\ stage = [p \in Process |-> "idle"]
  /\ doomed = [p \in Process |-> {}]

Expired == {t \in Token : token[t] = "expired"}

Goto(p, from, to) == stage[p] = from /\ stage' = [stage EXCEPT ![p] = to]

Busy == {p \in Process : stage[p] # "idle"}

\* The broker still has a message of this night's task.
UnderWay(n) == n \in {m[1] : m \in queue \union {running[p] : p \in Busy}}

-----------------------------------------------------------------------------
(* Beat and the broker *)

\* 2 a.m.
Beat(n) ==
  /\ ~UnderWay(n)
  /\ queue' = queue \union {<<n, 0>>}
  /\ UNCHANGED <<token, running, stage, doomed, pooled>>

\* A message is run when its countdown is over; the broker keeps a copy.
Take(p, m) ==
  /\ Route \in Consumed
  /\ m \in queue
  /\ Goto(p, "idle", "connect")
  /\ queue' = queue \ {m}
  /\ running' = [running EXCEPT ![p] = m]
  /\ UNCHANGED <<token, doomed, pooled>>

-----------------------------------------------------------------------------
(* prune_expired_refresh_tokens *)

\* A connection made for this run, or an old one that happens to work.
Connect(p) ==
  /\ Goto(p, "connect", "delete")
  /\ UNCHANGED <<token, queue, running, doomed, pooled>>

\* The old connection belongs to a closed loop: pool_pre_ping raises, and the
\* pool drops it.
ConnectStale(p) ==
  /\ p \in pooled
  /\ Goto(p, "connect", "failed")
  /\ pooled' = pooled \ {p}
  /\ UNCHANGED <<token, queue, running, doomed>>

\* Mutation: the DELETE has no WHERE.
DeleteAll(p) ==
  /\ Goto(p, "delete", "commit")
  /\ \A q \in Process \ {p} : doomed[q] \intersect Expired = {}
  /\ doomed' = [doomed EXCEPT ![p] = {t \in Token : token[t] # "none"}]
  /\ UNCHANGED <<token, queue, running, pooled>>

\* One DELETE; it waits for the rows that another run is deleting.
Delete(p) ==
  /\ Goto(p, "delete", "commit")
  /\ \A q \in Process \ {p} : doomed[q] \intersect Expired = {}
  /\ doomed' = [doomed EXCEPT ![p] = Expired]
  /\ UNCHANGED <<token, queue, running, pooled>>

\* Mutation: the session is closed without a commit.
CommitForgotten(p) ==
  /\ Goto(p, "commit", "ack")
  /\ doomed' = [doomed EXCEPT ![p] = {}]
  /\ pooled' = pooled \union {p}
  /\ UNCHANGED <<token, queue, running>>

Commit(p) ==
  /\ Goto(p, "commit", "ack")
  /\ token' = [t \in Token |-> IF t \in doomed[p] THEN "none" ELSE token[t]]
  /\ doomed' = [doomed EXCEPT ![p] = {}]
  /\ pooled' = pooled \union {p}
  /\ UNCHANGED <<queue, running>>

\* The database is away, or a statement fails: the transaction is rolled back,
\* and the connection, if there was one, is put back or dropped.
Fail(p) ==
  /\ stage[p] \in {"connect", "delete", "commit"}
  /\ stage' = [stage EXCEPT ![p] = "failed"]
  /\ doomed' = [doomed EXCEPT ![p] = {}]
  /\ \/ pooled' = pooled \ {p}
     \/ stage[p] # "connect" /\ pooled' = pooled \union {p}
  /\ UNCHANGED <<token, queue, running>>

\* Mutation: every failure is retried.
RetryUnlimited(p) ==
  LET n == running[p][1]
      k == running[p][2]
  IN
  /\ Goto(p, "failed", "ack")
  /\ queue' = queue \union {<<n, k + 1>>}
  /\ UNCHANGED <<token, running, doomed, pooled>>

\* self.retry publishes the message again, with one retry more, or gives up; the
\* old message is acknowledged after that.
Retry(p) ==
  LET n == running[p][1]
      k == running[p][2]
  IN
  /\ Goto(p, "failed", "ack")
  /\ queue' = IF k < MaxRetries THEN queue \union {<<n, k + 1>>} ELSE queue
  /\ UNCHANGED <<token, running, doomed, pooled>>

Ack(p) ==
  /\ Goto(p, "ack", "idle")
  /\ running' = [running EXCEPT ![p] = None]
  /\ UNCHANGED <<token, queue, doomed, pooled>>

-----------------------------------------------------------------------------
(* Failures, and the rest of the platform *)

\* The pool's process dies (out of memory, a signal).  The worker reports a
\* WorkerLostError and acknowledges the message, because
\* task_reject_on_worker_lost is not set; a new process takes the place.
KillProcess(p) ==
  /\ stage[p] # "idle"
  /\ stage' = [stage EXCEPT ![p] = "idle"]
  /\ running' = [running EXCEPT ![p] = None]
  /\ doomed' = [doomed EXCEPT ![p] = {}]
  /\ pooled' = pooled \ {p}
  /\ UNCHANGED <<token, queue>>

\* Mutation: what was running is not restored.
CrashWorkerForgets ==
  /\ Busy # {}
  /\ running' = [p \in Process |-> None]
  /\ stage' = [p \in Process |-> "idle"]
  /\ doomed' = [p \in Process |-> {}]
  /\ pooled' = {}
  /\ UNCHANGED <<token, queue>>

\* The whole worker dies; the broker delivers again what is not acknowledged.
CrashWorker ==
  /\ Busy # {}
  /\ queue' = queue \union {running[p] : p \in Busy}
  /\ running' = [p \in Process |-> None]
  /\ stage' = [p \in Process |-> "idle"]
  /\ doomed' = [p \in Process |-> {}]
  /\ pooled' = {}
  /\ UNCHANGED token

\* Login and refresh add tokens, logout deletes them, and time passes.
Issue(t) ==
  /\ token[t] = "none"
  /\ token' = [token EXCEPT ![t] = "live"]
  /\ UNCHANGED <<queue, running, stage, doomed, pooled>>

Expire(t) ==
  /\ token[t] = "live"
  /\ token' = [token EXCEPT ![t] = "expired"]
  /\ UNCHANGED <<queue, running, stage, doomed, pooled>>

Revoke(t) ==
  /\ token[t] # "none"
  /\ \A p \in Process : t \notin doomed[p]
  /\ token' = [token EXCEPT ![t] = "none"]
  /\ UNCHANGED <<queue, running, stage, doomed, pooled>>

-----------------------------------------------------------------------------
Run(p) == Connect(p) \/ ConnectStale(p) \/ Delete(p) \/ Commit(p) \/ Fail(p)
            \/ Retry(p) \/ Ack(p)

Next ==
  \/ \E n \in Night : Beat(n)
  \/ \E p \in Process : Run(p) \/ KillProcess(p) \/ \E m \in Message : Take(p, m)
  \/ CrashWorker
  \/ \E t \in Token : Issue(t) \/ Expire(t) \/ Revoke(t)

\* Beat ticks, the worker takes messages, and each statement ends one way or the
\* other (WF).  The database is not away at every attempt: of those that get a
\* new connection, that issue the DELETE, that commit, one succeeds at last (SF).
\* Nobody need log out, and nothing need crash or fail.
Fairness ==
  /\ WF_vars(\E n \in Night : Beat(n))
  /\ WF_vars(\E p \in Process, m \in Message : Take(p, m))
  /\ \A p \in Process : WF_vars(Run(p))
  /\ SF_vars(\E p \in Process \ pooled : Connect(p))
  /\ SF_vars(\E p \in Process : Delete(p))
  /\ SF_vars(\E p \in Process : Commit(p))

Spec == Init /\ [][Next]_vars
FairSpec == Spec /\ Fairness

-----------------------------------------------------------------------------
(* Properties *)

TypeOK ==
  /\ token \in [Token -> {"none", "live", "expired"}]
  /\ queue \subseteq Message
  /\ running \in [Process -> Message \union {None}]
  /\ stage \in [Process -> Stages]
  /\ doomed \in [Process -> SUBSET Token]
  /\ pooled \subseteq Process

\* A token in a DELETE that has not committed is expired and in no other DELETE:
\* two runs of the task, a redelivery beside the original, share no row, and what
\* a run commits is still what it selected.
RunsPruneApart ==
  \A p \in Process : doomed[p] # {} =>
    /\ stage[p] = "commit"
    /\ doomed[p] \subseteq Expired
    /\ \A q \in Process \ {p} : doomed[p] \intersect doomed[q] = {}

\* celery_app.py: "re-queue on worker crash".  A night's task leaves the broker
\* only when a process acknowledges it or is itself killed, not because the
\* worker dies at some point of a run.
TaskSurvivesWorkerCrash ==
  [][\A n \in Night : UnderWay(n) /\ ~UnderWay(n)' =>
       \E p \in Busy : running[p][1] = n /\ (Ack(p) \/ KillProcess(p))]_vars

\* cleanup.py: "Remove expired refresh tokens. Runs nightly via Beat."  However
\* runs fail, are retried, repeated or lost, an expired token is deleted at last.
ExpiredPruned ==
  \A t \in Token : token[t] = "expired" ~> token[t] = "none"

=============================================================================
