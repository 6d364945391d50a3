------------------------------ MODULE RunAttempts ------------------------------
(***************************************************************************)
(* The durable state of one backtest run: its row of backtest.runs, its    *)
(* rows of backtest.run_attempts, and every transaction that changes them: *)
(* the fenced SQL functions, the execution-key store built on them, the    *)
(* terminal publication, stale-run recovery, the owner's cancellation and  *)
(* deletion requests and the ingestion of result events.                   *)
(*                                                                         *)
(* A transaction that locks the run row FOR UPDATE is one action.  Two     *)
(* things are not atomic in the code and are not atomic here: a fenced     *)
(* statement reads clock_timestamp() when it enters and uses that reading  *)
(* after it has waited for its row lock (variable entered), and a recovery *)
(* pass reads the attempt, then acts on what it read, with only the run    *)
(* row locked in between (variable recovery).                              *)
(*                                                                         *)
(* Claim tokens and attempt ids are fresh uuids, so an attempt's number    *)
(* stands for both: holding attempt i's claim means knowing i.  The run is *)
(* alone in its lane, so while it is QUEUED it is the head of the queue.   *)
(***************************************************************************)
EXTENDS Integers, Sequences

CONSTANTS
    Lease,            \* ticks a claim lasts (lease_duration = visibility timeout)
    DispatchTimeout,  \* ticks a queue head may wait (QueueLanePolicy.dispatch_timeout)
    MaxAttempts,      \* StaleRunRecovery's max_attempts
    MaxClaims         \* bound: attempts explored per run

ASSUME ConstantsAssumption ==
    /\ Lease \in Nat \ {0}
    /\ DispatchTimeout \in Nat
    /\ MaxAttempts \in Nat \ {0}
    /\ MaxClaims \in Nat

VARIABLES
    run,       \* the row of backtest.runs
    attempts,  \* the rows of backtest.run_attempts, by attempt_number
    entered,   \* attempts with a fenced statement in flight that read a live lease
    recovery,  \* the recovery pass: does it hold the run, and what did it read
    age        \* ticks since the run last made progress, up to DispatchTimeout

vars == <<run, attempts, entered, recovery, age>>
--------------------------------------------------------------------------------
Terminal == {"COMPLETED", "FAILED", "CANCELLED", "UNAVAILABLE"}

RUN_STATUS_TRANSITIONS ==
    [s \in {"QUEUED", "RUNNING"} \cup Terminal |->
        CASE s = "QUEUED"  -> {"RUNNING", "FAILED", "CANCELLED", "UNAVAILABLE"}
          [] s = "RUNNING" -> Terminal
          [] OTHER         -> {}]

RunStatus == DOMAIN RUN_STATUS_TRANSITIONS
\* The statuses an attempt takes; nothing makes one PENDING or SKIPPED.
WorkStatus == {"RUNNING", "SUCCEEDED", "FAILED", "CANCELLED"}

\* terminal_reason_code, as far as a later claim tells the codes apart.  REPORTED is any
\* code a worker reports; the run is terminal in the same commit, whatever it says.
Reason == {"NONE", "SUCCEEDED", "LEASE_EXPIRED", "RETRY_RELEASED",
           "MAX_ATTEMPTS_EXHAUSTED", "CANCELLED_BY_REQUEST", "REPORTED"}

\* cancel, del, hidden: cancellation_requested_at, deletion_requested_at and
\* deleted_at are set.
Run == [status : RunStatus, cancel : BOOLEAN, del : BOOLEAN, hidden : BOOLEAN]

\* lease: ticks until claim_expires_at, 0 once it has passed or the row is closed.
Attempt == [status : WorkStatus, reason : Reason, lease : 0..Lease]

Recovery == [busy : BOOLEAN, running : BOOLEAN]
--------------------------------------------------------------------------------
Latest == attempts[Len(attempts)]
LatestRunning == attempts # <<>> /\ Latest.status = "RUNNING"
LatestLive == LatestRunning /\ Latest.lease > 0
Published == \E i \in DOMAIN attempts : attempts[i].status = "SUCCEEDED"

\* Defective variant: recover_once selects without FOR UPDATE.
UnlockedAlways == TRUE

\* The run row is free: no recovery pass holds it FOR UPDATE.
Unlocked == ~recovery.busy

\* RunRepository._transition to a terminal target, and mark_cancelled.
MarkTerminal(target) ==
    [run EXCEPT !.status = target,
                !.cancel = @ \/ target = "CANCELLED",
                !.hidden = @ \/ run.del]

ClosedRow(status, reason) == [status |-> status, reason |-> reason, lease |-> 0]

\* The WHERE clause of the fenced updates: still RUNNING, and unexpired at the
\* moment the statement read the clock.
Fresh(i) ==
    /\ attempts[i].status = "RUNNING"
    /\ attempts[i].lease > 0 \/ i \in entered
--------------------------------------------------------------------------------
Init ==
    /\ run = [status |-> "QUEUED", cancel |-> FALSE, del |-> FALSE, hidden |-> FALSE]
    /\ attempts = <<>>
    /\ entered = {}
    /\ recovery = [busy |-> FALSE, running |-> FALSE]
    /\ age = 0

Aged(row) == [row EXCEPT !.lease = IF @ = 0 THEN 0 ELSE @ - 1]

Tick ==
    /\ attempts' = [i \in DOMAIN attempts |-> Aged(attempts[i])]
    /\ age' = IF age < DispatchTimeout THEN age + 1 ELSE age
    /\ UNCHANGED <<run, entered, recovery>>

\* A heartbeat or close of attempt i has read v_now and waits for its row.
Enter(i) ==
    /\ attempts[i].status = "RUNNING" /\ attempts[i].lease > 0
    /\ entered' = entered \cup {i}
    /\ UNCHANGED <<run, attempts, recovery, age>>
--------------------------------------------------------------------------------
(* The fenced functions and PersistenceExecutionKeyStore.                  *)

Claimable ==
    /\ run.status \notin Terminal /\ ~run.cancel
    /\ attempts # <<>> =>
          \/ Latest.status = "FAILED" /\ Latest.reason \in {"LEASE_EXPIRED", "RETRY_RELEASED"}
          \/ Latest.status = "RUNNING" /\ Latest.lease = 0

\* Defective variant: the predecessor is left open.
SupersededOpen == attempts

\* The expired predecessor is closed before its successor is inserted.
Superseded ==
    IF LatestRunning
    THEN [attempts EXCEPT ![Len(attempts)] = ClosedRow("FAILED", "LEASE_EXPIRED")]
    ELSE attempts

\* The lease counts from v_now, read before the wait for the run row: what is left
\* of it when the claim commits is anything up to Lease.
ClaimRunAttempt ==
    /\ Unlocked /\ Claimable
    /\ \E left \in 0..Lease :
          attempts' = Append(Superseded, [status |-> "RUNNING", reason |-> "NONE", lease |-> left])
    /\ run' = [run EXCEPT !.status = "RUNNING"]
    /\ entered' = entered \ {Len(attempts)}
    /\ age' = 0
    /\ UNCHANGED recovery

\* Defective variant: the lease is extended from its old end.
HeartbeatFromExpiry(i) ==
    /\ Fresh(i)
    /\ attempts' = [attempts EXCEPT ![i].lease = @ + Lease]
    /\ entered' = entered \ {i}
    /\ UNCHANGED <<run, recovery, age>>

\* heartbeat_run_attempt takes the attempt row only, so recovery does not block it.
HeartbeatRunAttempt(i) ==
    /\ Fresh(i)
    /\ \E left \in IF i \in entered THEN attempts[i].lease..Lease ELSE {Lease} :
          attempts' = [attempts EXCEPT ![i].lease = left]
    /\ entered' = entered \ {i}
    /\ UNCHANGED <<run, recovery, age>>

\* A success close of a run whose cancellation was requested is a cancellation.
EffectiveStatus(status) ==
    IF run.cancel /\ status = "SUCCEEDED" THEN "CANCELLED" ELSE status

\* close_run_attempt returns a row: it closed attempt i, or finds it so closed.
CloseAccepted(i, status) ==
    Unlocked /\ (Fresh(i) \/ attempts[i].status = EffectiveStatus(status))

\* Defective variant: the update does not ask for status RUNNING.
CloseUnfenced(i, status, reason) ==
    /\ attempts' = [attempts EXCEPT ![i] = ClosedRow(EffectiveStatus(status), reason)]
    /\ entered' = entered \ {i}
    /\ age' = 0

CloseRunAttempt(i, status, reason) ==
    IF Fresh(i)
    THEN /\ attempts' = [attempts EXCEPT ![i] =
                ClosedRow(EffectiveStatus(status),
                          IF run.cancel /\ status = "SUCCEEDED"
                          THEN "CANCELLED_BY_REQUEST" ELSE reason)]
         /\ entered' = entered \ {i}
         /\ age' = 0
    ELSE UNCHANGED <<attempts, entered, age>>

\* The run row close_run_attempt leaves.  It cancels the run of a success it turned
\* into a cancellation, and does not look at deletion_requested_at.
ClosedRun(i, status, requeue) ==
    CASE Fresh(i) /\ run.status = "RUNNING" /\ run.cancel /\ status = "SUCCEEDED" ->
            [run EXCEPT !.status = "CANCELLED"]
      [] Fresh(i) /\ run.status = "RUNNING" /\ ~run.cancel /\ requeue ->
            [run EXCEPT !.status = "QUEUED"]
      [] OTHER -> run

Release(i) ==
    /\ CloseAccepted(i, "FAILED")
    /\ CloseRunAttempt(i, "FAILED", "RETRY_RELEASED")
    /\ run' = ClosedRun(i, "FAILED", TRUE)
    /\ UNCHANGED recovery

\* FAILED and CANCELLED come with the run_id and take the run along.
Finish(i, status) ==
    /\ CloseAccepted(i, status)
    /\ CloseRunAttempt(i, status, IF status = "SUCCEEDED" THEN "SUCCEEDED" ELSE "REPORTED")
    /\ run' = IF status # "SUCCEEDED" /\ run.status \notin Terminal
              THEN MarkTerminal(status) ELSE ClosedRun(i, status, FALSE)
    /\ UNCHANGED recovery

\* Defective variant: the expiry is not looked at again.
RecoverUnexpired(status, reason) ==
    IF LatestRunning
    THEN /\ attempts' = [attempts EXCEPT ![Len(attempts)] = ClosedRow(status, reason)]
         /\ entered' = entered \ {Len(attempts)}
         /\ age' = 0
    ELSE UNCHANGED <<attempts, entered, age>>

\* recover_expired_run_attempt on the latest attempt: the row it leaves, if it
\* is still RUNNING and expired.
RecoverExpired(status, reason) ==
    IF LatestRunning /\ Latest.lease = 0
    THEN /\ attempts' = [attempts EXCEPT ![Len(attempts)] = ClosedRow(status, reason)]
         /\ entered' = entered \ {Len(attempts)}
         /\ age' = 0
    ELSE UNCHANGED <<attempts, entered, age>>

\* What record_run_failure answers.
RunFailureAnswer ==
    CASE run.status = "COMPLETED"                 -> "SUCCEEDED"
      [] run.status = "CANCELLED"                 -> "CANCELLED"
      [] run.status \in {"FAILED", "UNAVAILABLE"} -> "FAILED"
      [] OTHER -> IF LatestLive THEN "IN_PROGRESS"
                  ELSE IF run.cancel THEN "CANCELLED" ELSE "FAILED"

RecordRunFailure ==
    /\ Unlocked
    /\ IF run.status \in Terminal \/ LatestLive
       THEN UNCHANGED <<run, attempts, entered, age>>
       ELSE LET status == IF run.cancel THEN "CANCELLED" ELSE "FAILED"
            IN /\ RecoverExpired(status, IF run.cancel THEN "CANCELLED_BY_REQUEST"
                                                       ELSE "MAX_ATTEMPTS_EXHAUSTED")
               /\ run' = MarkTerminal(status)
    /\ UNCHANGED recovery
--------------------------------------------------------------------------------
(* Terminal publication (DurableResultPublisher._write).                   *)

\* Defective variant: the cancellation is not read under the lock.
PublishOverCancel(i) ==
    /\ Unlocked /\ Fresh(i)
    /\ run.status = "RUNNING"
    /\ CloseRunAttempt(i, "SUCCEEDED", "SUCCEEDED")
    /\ run' = MarkTerminal("COMPLETED")
    /\ UNCHANGED recovery

\* Result rows, the attempt's success and the run's completion in one commit.
Publish(i) ==
    /\ Unlocked /\ ~run.cancel /\ Fresh(i)
    /\ run.status = "RUNNING"
    /\ CloseRunAttempt(i, "SUCCEEDED", "SUCCEEDED")
    /\ run' = MarkTerminal("COMPLETED")
    /\ UNCHANGED recovery

\* The cancellation committed first: close_run_attempt cancels attempt and run.
PublishCancelled(i) ==
    /\ run.cancel /\ CloseAccepted(i, "SUCCEEDED")
    /\ CloseRunAttempt(i, "SUCCEEDED", "SUCCEEDED")
    /\ run' = ClosedRun(i, "SUCCEEDED", FALSE)
    /\ UNCHANGED recovery
--------------------------------------------------------------------------------
(* StaleRunRecovery: recover_once locks the run and reads it ...           *)

\* A candidate whose lease is live is left alone.
RecoverSelect ==
    /\ Unlocked /\ run.status \notin Terminal /\ ~LatestLive
    /\ recovery' = [busy |-> TRUE, running |-> LatestRunning]
    /\ UNCHANGED <<run, attempts, entered, age>>

\* ... and _recover_candidate acts on what was read.  An attempt read as RUNNING
\* that a heartbeat renewed meanwhile closes nothing and is left to its worker.
Renewed == recovery.running /\ Latest.lease > 0

FailRun == [run EXCEPT !.status = "FAILED"]

RecoverTerminal(status, reason, row) ==
    IF Renewed
    THEN UNCHANGED <<run, attempts, entered, age>>
    ELSE /\ RecoverExpired(status, reason)
         /\ run' = row

\* Defective variant: a requested cancellation is left to the worker.
RecoverUncancelled ==
    /\ recovery.busy
    /\ recovery' = [busy |-> FALSE, running |-> FALSE]
    /\ IF ~run.cancel /\ Len(attempts) >= MaxAttempts
       THEN RecoverTerminal("FAILED", "MAX_ATTEMPTS_EXHAUSTED", FailRun)
       ELSE UNCHANGED <<run, attempts, entered, age>>

RecoverCandidate ==
    /\ recovery.busy
    /\ recovery' = [busy |-> FALSE, running |-> FALSE]
    /\ CASE run.cancel ->
              RecoverTerminal("CANCELLED", "CANCELLED_BY_REQUEST", MarkTerminal("CANCELLED"))
         [] ~run.cancel /\ Len(attempts) >= MaxAttempts ->
              RecoverTerminal("FAILED", "MAX_ATTEMPTS_EXHAUSTED", FailRun)
         [] ~run.cancel /\ Len(attempts) < MaxAttempts
            /\ run.status = "RUNNING" /\ attempts # <<>> ->
              /\ RecoverExpired("FAILED", "LEASE_EXPIRED")
              /\ run' = IF recovery.running /\ ~Renewed
                        THEN [run EXCEPT !.status = "QUEUED"] ELSE run
         [] OTHER ->  \* QUEUED at the head of its lane, or RUNNING with no attempt
              /\ run' = IF age >= DispatchTimeout THEN FailRun ELSE run
              /\ UNCHANGED <<attempts, entered, age>>

\* The pass fails and its transaction rolls back; the loop tries again later.
RecoverRollback ==
    /\ recovery.busy
    /\ recovery' = [busy |-> FALSE, running |-> FALSE]
    /\ UNCHANGED <<run, attempts, entered, age>>
--------------------------------------------------------------------------------
(* The owner's requests and result ingestion.                              *)

RequestCancellation ==
    /\ Unlocked /\ run.status \notin Terminal
    /\ run' = [run EXCEPT !.cancel = TRUE,
                          !.status = IF @ = "QUEUED" THEN "CANCELLED" ELSE @]
    /\ UNCHANGED <<attempts, entered, recovery, age>>

RequestDeletion ==
    /\ Unlocked /\ ~run.hidden
    /\ run' = [status |-> IF run.status = "QUEUED" THEN "CANCELLED" ELSE run.status,
               cancel |-> run.cancel \/ run.status \notin Terminal,
               del    |-> TRUE,
               hidden |-> run.status # "RUNNING"]
    /\ UNCHANGED <<attempts, entered, recovery, age>>

\* Defective variant: the transition table is not consulted.
IngestUnchecked(status) ==
    /\ Unlocked
    /\ run' = [run EXCEPT !.status = status]
    /\ UNCHANGED <<attempts, entered, recovery, age>>

\* BacktestLifecycleService._apply: a transition of the run row, whoever sent it.
IngestResult(status) ==
    /\ Unlocked /\ status \in RUN_STATUS_TRANSITIONS[run.status]
    /\ run' = IF status \in Terminal THEN MarkTerminal(status)
                                     ELSE [run EXCEPT !.status = status]
    /\ age' = IF attempts = <<>> THEN 0 ELSE age
    /\ UNCHANGED <<attempts, entered, recovery>>
--------------------------------------------------------------------------------
\* Workers report COMPLETED, and finish as SUCCEEDED, only a published run.
Next ==
    \/ Tick
    \/ Len(attempts) < MaxClaims /\ ClaimRunAttempt
    \/ \E i \in DOMAIN attempts :
          \/ Enter(i)
          \/ HeartbeatRunAttempt(i)
          \/ Release(i)
          \/ Finish(i, "FAILED")
          \/ Finish(i, "CANCELLED")
          \/ run.status = "COMPLETED" /\ Finish(i, "SUCCEEDED")
          \/ Publish(i)
          \/ PublishCancelled(i)
    \/ RecordRunFailure
    \/ RecoverSelect
    \/ RecoverCandidate
    \/ RecoverRollback
    \/ RequestCancellation
    \/ RequestDeletion
    \/ \E status \in RunStatus \ {"QUEUED", "COMPLETED"} : IngestResult(status)

Spec == Init /\ [][Next]_vars
--------------------------------------------------------------------------------
(* Properties.                                                             *)

\* The types of the rows; a statement in flight is about an existing attempt.
TypeOK ==
    /\ run \in Run
    /\ attempts \in Seq(Attempt)
    /\ entered \subseteq DOMAIN attempts
    /\ recovery \in Recovery
    /\ age \in 0..DispatchTimeout

\* At most one attempt of a run is RUNNING, and it is the newest: claim_run_attempt
\* closes an expired predecessor in the transaction that inserts its successor, so a
\* fenced statement of a superseded worker never finds its attempt open.
OnlyLatestRunning ==
    \A i \in DOMAIN attempts : attempts[i].status = "RUNNING" => i = Len(attempts)

\* Publication is one terminal serialization (DurableResultPublisher): a run is
\* COMPLETED exactly when one attempt succeeded, that attempt is the newest, and no
\* cancellation was requested before the completion committed.
PublicationSerialized ==
    /\ run.status = "COMPLETED" <=> Published
    /\ \A i \in DOMAIN attempts : attempts[i].status = "SUCCEEDED" => i = Len(attempts)
    /\ run.status = "COMPLETED" => ~run.cancel

\* While a recovery pass holds the run, nobody else decides it: a candidate stays
\* non-terminal between recover_once's SELECT and _recover_candidate's UPDATE, and an
\* attempt it read as RUNNING can only have been renewed, not closed.
RecoveryReadStable ==
    recovery.busy =>
        /\ run.status \notin Terminal
        /\ recovery.running <=> LatestRunning

\* A closed attempt is evidence and never changes again: neither a late close, nor
\* recovery, nor a successor's claim rewrites it.
ClosedAttemptsFrozen ==
    [][\A i \in DOMAIN attempts :
          attempts[i].status # "RUNNING" => i \in DOMAIN attempts' /\ attempts'[i] = attempts[i]]_vars

\* A run never leaves a terminal status (RUN_STATUS_TRANSITIONS), and the owner's
\* requests and the hiding of the row are never undone.
TerminalIsFinal ==
    [][/\ run.status \in Terminal => run'.status = run.status
       /\ run.cancel => run'.cancel
       /\ run.del => run'.del
       /\ run.hidden => run'.hidden]_vars

\* Nobody is evicted from a live lease: an attempt is closed as expired or exhausted
\* only when its lease has run out, even if a heartbeat renewed it after the recovery
\* pass read it as expired (recovery.py, the comment in _recover_candidate).
NoLiveEviction ==
    [][\A i \in DOMAIN attempts :
          attempts[i].status = "RUNNING" /\ attempts[i].lease > 0
            => attempts'[i].reason \notin {"LEASE_EXPIRED", "MAX_ATTEMPTS_EXHAUSTED"}]_vars

\* A run that has been requested deleted is hidden once it is terminal
\* (BacktestLifecycleService.request_deletion).  The code does not ensure it.
DeletionHidesTerminal ==
    run.del /\ run.status \in Terminal => run.hidden
================================================================================
