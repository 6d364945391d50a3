----------------------------- MODULE BacktestWorker -----------------------------
(***************************************************************************)
(* Workers consuming the queue message of one run: BacktestWorker._handle  *)
(* with its heartbeat thread, the OrchestratorJobHandler it calls, and the *)
(* queue.  Every access to the run and its attempts is an action of        *)
(* RunAttempts, so this specification implements RunAttempts!Spec.         *)
(*                                                                         *)
(* A worker moves through                                                  *)
(*   idle -> received -> claimed -> replay -> publish -> report -> finish  *)
(* and ends with a queue effect (delete, return, deadletter), each its own *)
(* step because the process may stop between any two of them.  The message *)
(* body, the replay itself and the result are abstract: what a run leaves  *)
(* behind depends on how the replay ends, and every end is possible.       *)
(*                                                                         *)
(* BACKTEST_MAX_RECEIVE_COUNT configures both the workers and recovery, so *)
(* MaxAttempts is also max_receive_count; lease_duration is the visibility *)
(* timeout, so Lease is both.                                              *)
(***************************************************************************)
EXTENDS RunAttempts, FiniteSets

CONSTANTS
    Workers,
    MaxCrashes  \* bound: process deaths explored

\* MaxClaims is no bound on the workers: each permitted delivery may claim.
ASSUME WorkersAssumption ==
    /\ IsFiniteSet(Workers) /\ MaxCrashes \in Nat
    /\ MaxAttempts <= MaxClaims

VARIABLES
    wk,       \* what each worker is doing
    msg,      \* the run's message in the source queue
    dlq,      \* a copy is in the dead-letter queue
    crashes   \* process deaths so far

wvars == <<wk, msg, dlq, crashes>>
allVars == <<run, attempts, entered, recovery, age, wk, msg, dlq, crashes>>
--------------------------------------------------------------------------------
PC == {"idle", "received", "claimed", "replay", "publish", "report", "finish",
       "delete", "return", "deadletter"}

\* The cancellation signal: none, the owner's request, WORKER_HEARTBEAT_UNAVAILABLE.
Signal == {"none", "cancel", "lost"}

\* JobOutcome; FAILED and UNAVAILABLE are PERMANENT_FAILUREs with different events.
Outcome == {"none", "SUCCEEDED", "CANCELLED", "FAILED", "UNAVAILABLE", "RETRY"}

\* rc: ApproximateReceiveCount of the delivery in hand.  att: the claimed attempt.
Worker == [pc : PC, rc : 0..(MaxAttempts + 1), att : Nat, sig : Signal, out : Outcome]
Idle == [pc |-> "idle", rc |-> 0, att |-> 0, sig |-> "none", out |-> "none"]

\* timer: ticks until the message is visible.  holder: who has the newest receipt.
Message == [there : BOOLEAN, timer : 0..Lease, count : 0..(MaxAttempts + 1),
            holder : Workers \cup {"nobody"}]

Move(w, pc) == wk' = [wk EXCEPT ![w].pc = pc]
End(w) == wk' = [wk EXCEPT ![w] = Idle]

\* The handler has its outcome; the heartbeat thread is stopped and joined.
Decide(w, out) == wk' = [wk EXCEPT ![w].pc = "finish", ![w].out = out, ![w].sig = "none"]
ReportAs(w, out) == wk' = [wk EXCEPT ![w].pc = "report", ![w].out = out]

Queue == <<msg, dlq, crashes>>
--------------------------------------------------------------------------------
WInit ==
    /\ Init
    /\ wk = [w \in Workers |-> Idle]
    /\ msg = [there |-> TRUE, timer |-> 0, count |-> 0, holder |-> "nobody"]
    /\ dlq = FALSE
    /\ crashes = 0

Clock ==
    /\ Tick
    /\ msg' = [msg EXCEPT !.timer = IF @ = 0 THEN 0 ELSE @ - 1]
    /\ UNCHANGED <<wk, dlq, crashes>>

\* The count stays at the first value above the limit.
Receive(w) ==
    /\ wk[w].pc = "idle" /\ msg.there /\ msg.timer = 0
    /\ LET rc == IF msg.count > MaxAttempts THEN msg.count ELSE msg.count + 1
       IN /\ msg' = [msg EXCEPT !.timer = Lease, !.count = rc, !.holder = w]
          /\ wk' = [wk EXCEPT ![w].pc = "received", ![w].rc = rc]
    /\ UNCHANGED <<run, attempts, entered, recovery, age, dlq, crashes>>

\* Defective variants: an execution in progress is acknowledged; a failed one is forgotten.
DisposeInProgress(w, existing) == Move(w, IF existing = "FAILED" THEN "deadletter" ELSE "delete")
DisposeForgets(w, existing) ==
    IF existing \in {"SUCCEEDED", "CANCELLED"} THEN Move(w, "delete") ELSE End(w)

\* The queue effect for a delivery that is not to be executed.
Dispose(w, existing) ==
    CASE existing \in {"SUCCEEDED", "CANCELLED"} -> Move(w, "delete")
      [] existing = "FAILED"                     -> Move(w, "deadletter")
      [] OTHER                                   -> End(w)

OverLimit(w) ==
    /\ wk[w].pc = "received" /\ wk[w].rc > MaxAttempts
    /\ RecordRunFailure
    /\ Dispose(w, RunFailureAnswer)
    /\ UNCHANGED Queue

\* Defective variant: the receive count is not looked at.
ClaimUnlimited(w) ==
    /\ wk[w].pc = "received"
    /\ ClaimRunAttempt
    /\ wk' = [wk EXCEPT ![w].pc = "claimed", ![w].att = Len(attempts) + 1]
    /\ UNCHANGED Queue

Claim(w) ==
    /\ wk[w].pc = "received" /\ wk[w].rc <= MaxAttempts
    /\ ClaimRunAttempt
    /\ wk' = [wk EXCEPT ![w].pc = "claimed", ![w].att = Len(attempts) + 1]
    /\ UNCHANGED Queue

\* What claim answers when it acquires nothing: the newest attempt's status, or
\* the run's if there is no attempt.
ExistingStatus ==
    IF attempts # <<>> THEN Latest.status
    ELSE CASE run.status = "COMPLETED"                  -> "SUCCEEDED"
           [] run.status = "CANCELLED"                  -> "CANCELLED"
           [] run.status \in {"FAILED", "UNAVAILABLE"}  -> "FAILED"
           [] OTHER                                     -> "IN_PROGRESS"

OnDuplicate(w) ==
    /\ wk[w].pc = "received" /\ wk[w].rc <= MaxAttempts
    /\ Unlocked /\ ~Claimable
    /\ Dispose(w, ExistingStatus)
    /\ UNCHANGED <<vars, Queue>>
--------------------------------------------------------------------------------
(* Result events.  The endpoint applies a legal transition, accepts the    *)
(* status the run already has, and refuses the rest.  The call may fail    *)
(* although the event was applied, and then the handler raises.            *)

EventAccepted(status) ==
    \/ IngestResult(status)
    \/ Unlocked /\ run.status = status /\ UNCHANGED vars

EventFails(status) == IngestResult(status) \/ UNCHANGED vars

EventOf(out) == IF out = "SUCCEEDED" THEN "COMPLETED" ELSE out
--------------------------------------------------------------------------------
(* OrchestratorJobHandler.__call__                                         *)

\* An unparsable envelope reports nothing; an unsatisfiable job reports, and a
\* failure to report it is swallowed.
BindFails(w) ==
    /\ wk[w].pc = "claimed"
    /\ EventFails("UNAVAILABLE") \/ EventFails("FAILED")
    /\ Decide(w, "FAILED")
    /\ UNCHANGED Queue

\* Only the first delivery announces RUNNING.
Start(w) ==
    /\ wk[w].pc = "claimed"
    /\ \/ wk[w].rc = 1 /\ EventAccepted("RUNNING")
       \/ wk[w].rc # 1 /\ UNCHANGED vars
    /\ Move(w, "replay")
    /\ UNCHANGED Queue

HandlerRaises(w) ==
    /\ wk[w].pc = "claimed"
    /\ IF wk[w].rc = 1 THEN EventFails("RUNNING") ELSE UNCHANGED vars
    /\ Decide(w, "RETRY")
    /\ UNCHANGED Queue

\* The replay ends at a checkpoint that sees the signal, or by itself.
Replay(w) ==
    /\ wk[w].pc = "replay"
    /\ \/ wk[w].sig = "cancel" /\ ReportAs(w, "CANCELLED")
       \/ wk[w].sig = "lost" /\ ReportAs(w, "FAILED")
       \/ ReportAs(w, "FAILED")
       \/ ReportAs(w, "UNAVAILABLE")
       \/ Decide(w, "RETRY")
       \/ Move(w, "publish")
    /\ UNCHANGED <<vars, Queue>>

\* Defective variant: a lost answer is taken for a commit.
PublishAssumed(w) ==
    /\ wk[w].pc = "publish"
    /\ Publish(wk[w].att) \/ UNCHANGED vars
    /\ ReportAs(w, "SUCCEEDED")
    /\ UNCHANGED Queue

\* Publication commits, is told it was cancelled, or fails.  A commit whose answer is
\* lost is found COMPLETED, or the failed look makes it retryable.
PublishResult(w) ==
    /\ wk[w].pc = "publish"
    /\ \/ Publish(wk[w].att) /\ (ReportAs(w, "SUCCEEDED") \/ Decide(w, "RETRY"))
       \/ PublishCancelled(wk[w].att) /\ (ReportAs(w, "CANCELLED") \/ Decide(w, "RETRY"))
       \/ UNCHANGED vars /\ (ReportAs(w, "FAILED") \/ Decide(w, "RETRY"))
       \/ UNCHANGED vars /\ run.status = "COMPLETED" /\ ReportAs(w, "SUCCEEDED")
    /\ UNCHANGED Queue

Report(w) ==
    /\ wk[w].pc = "report"
    /\ \/ EventAccepted(EventOf(wk[w].out)) /\ Decide(w, wk[w].out)
       \/ EventFails(EventOf(wk[w].out)) /\ Decide(w, "RETRY")
    /\ UNCHANGED Queue

\* A beat renews the lease, then the visibility if its receipt is still good, and
\* learns of a cancellation; three failures signal a lost heartbeat and end it.
Beat(w) ==
    /\ wk[w].pc \in {"claimed", "replay", "publish", "report"} /\ wk[w].sig # "lost"
    /\ \/ /\ HeartbeatRunAttempt(wk[w].att)
          /\ wk' = [wk EXCEPT ![w].sig = IF run.cancel THEN "cancel" ELSE @]
          /\ msg' \in {msg} \cup IF msg.holder = w THEN {[msg EXCEPT !.timer = Lease]} ELSE {}
       \/ wk' = [wk EXCEPT ![w].sig = "lost"] /\ UNCHANGED <<vars, msg>>
    /\ UNCHANGED <<dlq, crashes>>

\* A fenced statement of w has read the clock and waits.
Wait(w) ==
    /\ wk[w].att # 0
    /\ Enter(wk[w].att)
    /\ UNCHANGED wvars
--------------------------------------------------------------------------------
(* BacktestWorker._handle, after the handler.                              *)

\* The status finish closes the attempt with; RETRY below the limit releases it.
Final(w) ==
    CASE wk[w].out \in {"SUCCEEDED", "CANCELLED"} -> wk[w].out
      [] wk[w].out = "RETRY" /\ wk[w].rc < MaxAttempts -> "RELEASED"
      [] OTHER -> "FAILED"

Settle(w) ==
    /\ wk[w].pc = "finish"
    /\ \/ Final(w) = "RELEASED" /\ Release(wk[w].att) /\ Move(w, "return")
       \/ /\ Final(w) # "RELEASED" /\ Finish(wk[w].att, Final(w))
          /\ Move(w, IF Final(w) = "FAILED" THEN "deadletter" ELSE "delete")
    /\ UNCHANGED Queue

\* StaleAttemptClaim, or the database is away: the delivery is left unacknowledged.
SettleRaises(w) ==
    /\ wk[w].pc = "finish"
    /\ End(w)
    /\ UNCHANGED <<vars, Queue>>
--------------------------------------------------------------------------------
(* Queue effects.  A stale receipt may or may not still work.              *)

Delete(w) ==
    /\ wk[w].pc = "delete"
    /\ \/ msg' = [msg EXCEPT !.there = FALSE, !.timer = 0, !.holder = "nobody"]
       \/ msg.holder # w /\ UNCHANGED msg
    /\ End(w)
    /\ UNCHANGED <<vars, dlq, crashes>>

ReturnToQueue(w) ==
    /\ wk[w].pc = "return"
    /\ \/ msg.there /\ msg' = [msg EXCEPT !.timer = 0]
       \/ msg.holder # w /\ UNCHANGED msg
    /\ End(w)
    /\ UNCHANGED <<vars, dlq, crashes>>

DeadLetter(w) ==
    /\ wk[w].pc = "deadletter"
    /\ dlq' = TRUE
    /\ Move(w, "delete")
    /\ UNCHANGED <<vars, msg, crashes>>

Crash(w) ==
    /\ wk[w].pc # "idle" /\ crashes < MaxCrashes
    /\ End(w)
    /\ crashes' = crashes + 1
    /\ UNCHANGED <<vars, msg, dlq>>
--------------------------------------------------------------------------------
Recover ==
    /\ RecoverSelect \/ RecoverCandidate \/ RecoverRollback
    /\ UNCHANGED wvars

Owner ==
    /\ RequestCancellation \/ RequestDeletion
    /\ UNCHANGED wvars

\* A step of the worker's own thread.
Step(w) ==
    \/ OverLimit(w) \/ Claim(w) \/ OnDuplicate(w)
    \/ BindFails(w) \/ Start(w) \/ HandlerRaises(w) \/ Replay(w)
    \/ PublishResult(w) \/ Report(w)
    \/ Settle(w) \/ SettleRaises(w)
    \/ Delete(w) \/ ReturnToQueue(w) \/ DeadLetter(w)

WNext ==
    \/ Clock
    \/ \E w \in Workers : Receive(w) \/ Step(w) \/ Beat(w) \/ Wait(w) \/ Crash(w)
    \/ Recover
    \/ Owner

WSpec == WInit /\ [][WNext]_allVars

\* Time passes; an idle worker polls; a worker that waits for the run row gets it (row
\* locks queue up, and a replay ends because its coordinator limits it); the recovery
\* loop keeps running and its passes do not all fail; not every receipt is stale by the
\* time its delete arrives.  Heartbeats, crashes and the owner are under no obligation.
Fairness ==
    /\ WF_allVars(Clock)
    /\ WF_allVars(\E w \in Workers : Receive(w))
    /\ \A w \in Workers : SF_allVars(Step(w)) /\ SF_allVars(Delete(w) /\ ~msg'.there)
    /\ WF_allVars(RecoverSelect /\ UNCHANGED wvars)
    /\ SF_allVars(RecoverCandidate /\ UNCHANGED wvars)

FairSpec == WSpec /\ Fairness
--------------------------------------------------------------------------------
(* Properties.                                                             *)

\* The types of the workers, the message and the queues.
WTypeOK ==
    /\ TypeOK
    /\ wk \in [Workers -> Worker]
    /\ msg \in Message
    /\ dlq \in BOOLEAN
    /\ crashes \in 0..MaxCrashes

\* The run row and the queue never disagree (OrchestratorJobHandler): once the message
\* has left the queue nothing will execute the run again, so the run is terminal, or it
\* was dead-lettered with a cancellation pending that recovery will carry out.
QueueAgreesWithRun ==
    ~msg.there \/ dlq => run.status \in Terminal \/ (dlq /\ run.cancel)

\* A worker about to acknowledge a success, or to report one, has a published result:
\* a stale worker may find its successor's publication, never announce its own.
SuccessIsPublished ==
    \A w \in Workers : wk[w].out = "SUCCEEDED" => run.status = "COMPLETED"

\* No two workers hold the claim of the same attempt, and a worker whose attempt is
\* still open holds the newest: the execution key is a cross-process CAS.
ClaimIsExclusive ==
    \A v, w \in Workers :
        wk[w].att # 0 =>
            /\ wk[w].att \in DOMAIN attempts
            /\ v # w => wk[v].att # wk[w].att
            /\ attempts[wk[w].att].status = "RUNNING" => wk[w].att = Len(attempts)

\* Every durable step of every worker is a step of RunAttempts, with at most one claim
\* per permitted delivery (MaxClaims): the assumptions RunAttempts makes of its callers
\* hold of the workers.
ImplementsRunAttempts == Spec

\* Every run reaches a terminal status, whatever crashes, lost heartbeats, refused
\* events and stale receipts happen on the way.
RunSettles == <>(run.status \in Terminal)

\* And its message leaves the queue for good: no delivery loops forever.
MessageLeaves == <>[](~msg.there /\ \A w \in Workers : wk[w].pc = "idle")

\* A cancelled run is acknowledged, never dead-lettered (DEVELOPMENT.md, the table of
\* queue effects).  The code does not ensure it.
CancelledNotDeadLettered ==
    [][dlq' /\ ~dlq => run.status # "CANCELLED"]_allVars

\* The late completion of an expired worker is fenced: once its attempt has a successor,
\* its finish or release does not decide the run (PersistenceExecutionKeyStore).  The
\* code does not ensure it.
LateCompletionFenced ==
    [][\A w \in Workers :
          wk[w].pc = "finish" /\ wk'[w].pc # "finish" /\ wk[w].att < Len(attempts)
            => run' = run]_allVars
================================================================================
