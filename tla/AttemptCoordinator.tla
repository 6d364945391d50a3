--------------------------- MODULE AttemptCoordinator ---------------------------
(***************************************************************************)
(* AttemptCoordinator: the in-memory aggregate that fences, times and      *)
(* retries the attempts of one run.  Every method holds the RLock, so it   *)
(* is one action.  Callers read the clock before they ask for the lock, so *)
(* the time they pass is any time: times are ticks since queued_at, and a  *)
(* call with an earlier one is refused.  A refused call changes nothing    *)
(* and has no action.                                                      *)
(*                                                                         *)
(* An AttemptLease is matched by run, attempt id, number, worker and a     *)
(* fresh token, so the attempt's number stands for the lease.              *)
(***************************************************************************)
EXTENDS Integers, Sequences

CONSTANTS
    MaxAttempts,     \* AttemptPolicy.max_attempts
    LeaseDuration,
    AttemptTimeout,
    MaxCpuTime,
    MaxTime          \* bound: the latest time explored

ASSUME PolicyAssumption ==  \* _validate_policy
    /\ MaxAttempts \in Nat \ {0}
    /\ LeaseDuration \in Nat \ {0}
    /\ AttemptTimeout \in Nat \ {0}
    /\ MaxCpuTime \in Nat \ {0}
    /\ MaxTime \in Nat

VARIABLES
    state,         \* RunState
    attempts,      \* AttemptRecords, by attempt_number
    cancellation,  \* a CancellationRequest was made
    manifests      \* the result and detail manifest ids are set

coordinatorVars == <<state, attempts, cancellation, manifests>>
--------------------------------------------------------------------------------
Terminal == {"COMPLETED", "FAILED", "CANCELLED"}
RunState == {"WAITING", "RUNNING"} \cup Terminal

LimitState == {"TIMED_OUT", "CPU_LIMIT_EXCEEDED", "MEMORY_LIMIT_EXCEEDED"}
AttemptState == LimitState \cup {"ACTIVE", "SUCCEEDED", "RETRYABLE_FAILED", "PERMANENT_FAILED",
                                 "LEASE_EXPIRED", "SYSTEM_CANCELLED", "CANCELLED"}

\* beat, expires: last_heartbeat_at and lease_expires_at.  ended means nothing while ACTIVE.
Record == [state : AttemptState, started : Nat, beat : Nat, expires : Nat, ended : Nat, cpu : Nat]

NewestAttempt == attempts[Len(attempts)]
Active == attempts # <<>> /\ NewestAttempt.state = "ACTIVE"

\* _require_lease and the clock check: the caller holds the active attempt's lease.
Holds(i, now) ==
    /\ state \notin Terminal /\ Active
    /\ i = Len(attempts) /\ now >= NewestAttempt.beat

Live(i, now) == Holds(i, now) /\ now < NewestAttempt.expires

Closed(row, kind, now) == [row EXCEPT !.state = kind, !.ended = now]

\* Defective variant: the budget is off by one.
StopOffByOne(row, kind, now, retryable, terminal) ==
    /\ attempts' = [attempts EXCEPT ![Len(attempts)] = Closed(row, kind, now)]
    /\ state' = IF retryable /\ Len(attempts) <= MaxAttempts THEN "WAITING" ELSE terminal

\* _stop_active; row is the active record, with the last sample if there is one.
StopActive(row, kind, now, retryable, terminal) ==
    /\ attempts' = [attempts EXCEPT ![Len(attempts)] = Closed(row, kind, now)]
    /\ state' = IF retryable /\ Len(attempts) < MaxAttempts THEN "WAITING" ELSE terminal
--------------------------------------------------------------------------------
CoordinatorInit ==
    /\ state = "WAITING"
    /\ attempts = <<>>
    /\ cancellation = FALSE
    /\ manifests = FALSE

\* An expired holder is stopped first; with the budget spent the run fails.
Acquire(now) ==
    /\ state \notin Terminal
    /\ Active => now >= NewestAttempt.expires
    /\ LET past == IF Active
                   THEN [attempts EXCEPT ![Len(attempts)] = Closed(NewestAttempt, "LEASE_EXPIRED", now)]
                   ELSE attempts
       IN IF Len(attempts) < MaxAttempts
          THEN /\ attempts' = Append(past, [state |-> "ACTIVE", started |-> now, beat |-> now,
                                            expires |-> now + LeaseDuration, ended |-> 0, cpu |-> 0])
               /\ state' = "RUNNING"
          ELSE attempts' = past /\ state' = "FAILED"
    /\ UNCHANGED <<cancellation, manifests>>

\* What heartbeat, fail and complete do when the caller's lease has expired.
LeaseExpired(i, now) ==
    /\ Holds(i, now) /\ now >= NewestAttempt.expires
    /\ StopActive(NewestAttempt, "LEASE_EXPIRED", now, TRUE, "FAILED")
    /\ UNCHANGED <<cancellation, manifests>>

\* Defective variants: the timeout counts from the last heartbeat; a limit comes first.
VerdictSinceBeat(now, cpu, mem) ==
    IF cancellation THEN "CANCELLED"
    ELSE IF now - NewestAttempt.beat >= AttemptTimeout THEN "TIMED_OUT" ELSE "ACTIVE"
VerdictLimitFirst(now, cpu, mem) ==
    IF cpu > MaxCpuTime THEN "CPU_LIMIT_EXCEEDED"
    ELSE IF cancellation THEN "CANCELLED" ELSE "ACTIVE"

\* How a heartbeat ends the attempt, or ACTIVE.  mem: the sample is above
\* max_memory_bytes.  Cancellation outranks every limit.
HeartbeatVerdict(now, cpu, mem) ==
    IF cancellation THEN "CANCELLED"
    ELSE IF now - NewestAttempt.started >= AttemptTimeout THEN "TIMED_OUT"
    ELSE IF cpu > MaxCpuTime THEN "CPU_LIMIT_EXCEEDED"
    ELSE IF mem THEN "MEMORY_LIMIT_EXCEEDED"
    ELSE "ACTIVE"

Sampled(row, now, cpu, expires) == [row EXCEPT !.beat = now, !.cpu = cpu, !.expires = expires]

Heartbeat(i, now, cpu, mem) ==
    /\ Live(i, now) /\ cpu >= NewestAttempt.cpu
    /\ LET verdict == HeartbeatVerdict(now, cpu, mem)
       IN IF verdict = "ACTIVE"
          THEN /\ attempts' = [attempts EXCEPT ![Len(attempts)] =
                                 Sampled(NewestAttempt, now, cpu, now + LeaseDuration)]
               /\ UNCHANGED state
          ELSE StopActive(Sampled(NewestAttempt, now, cpu, NewestAttempt.expires), verdict, now,
                          verdict # "CANCELLED",
                          IF verdict = "CANCELLED" THEN "CANCELLED" ELSE "FAILED")
    /\ UNCHANGED <<cancellation, manifests>>

Fail(i, now, retryable) ==
    /\ Live(i, now)
    /\ StopActive(NewestAttempt, IF retryable THEN "RETRYABLE_FAILED" ELSE "PERMANENT_FAILED",
                  now, retryable, "FAILED")
    /\ UNCHANGED <<cancellation, manifests>>

Complete(i, now) ==
    /\ Live(i, now)
    /\ attempts' = [attempts EXCEPT ![Len(attempts)] = Closed(NewestAttempt, "SUCCEEDED", now)]
    /\ manifests' = TRUE
    /\ state' = "COMPLETED"
    /\ UNCHANGED cancellation

\* A run nobody holds is cancelled outright; a running one is marked.
RequestCancellation(now) ==
    /\ state \notin Terminal
    /\ Active => now >= NewestAttempt.beat
    /\ cancellation' = TRUE
    /\ state' = IF Active THEN state ELSE "CANCELLED"
    /\ UNCHANGED <<attempts, manifests>>

CancelBySystem(now) ==
    /\ state \notin Terminal
    /\ IF Active
       THEN now >= NewestAttempt.beat /\ StopActive(NewestAttempt, "SYSTEM_CANCELLED", now, FALSE, "FAILED")
       ELSE state' = "FAILED" /\ UNCHANGED attempts
    /\ UNCHANGED <<cancellation, manifests>>

CoordinatorNext ==
    \E now \in 0..MaxTime :
        \/ Acquire(now)
        \/ \E i \in DOMAIN attempts :
              \/ LeaseExpired(i, now)
              \/ \E cpu \in 0..(MaxCpuTime + 1), mem \in BOOLEAN : Heartbeat(i, now, cpu, mem)
              \/ \E retryable \in BOOLEAN : Fail(i, now, retryable)
              \/ Complete(i, now)
        \/ RequestCancellation(now)
        \/ CancelBySystem(now)

CoordinatorSpec == CoordinatorInit /\ [][CoordinatorNext]_coordinatorVars
--------------------------------------------------------------------------------
(* Properties.                                                             *)

\* The types of the aggregate's fields.
CoordinatorTypeOK ==
    /\ state \in RunState
    /\ attempts \in Seq(Record)
    /\ cancellation \in BOOLEAN
    /\ manifests \in BOOLEAN

\* The run's state is what its attempts say: RUNNING exactly while the newest attempt is
\* ACTIVE and no older one is, COMPLETED exactly when an attempt succeeded and the
\* manifests are known, and WAITING only while the retry budget lasts, so that acquire
\* never finds a waiting run whose budget is spent.
StateMatchesHistory ==
    /\ state = "RUNNING" <=> Active
    /\ \A i \in DOMAIN attempts : attempts[i].state \in {"ACTIVE", "SUCCEEDED"} => i = Len(attempts)
    /\ state = "COMPLETED" <=> (attempts # <<>> /\ NewestAttempt.state = "SUCCEEDED")
    /\ state = "COMPLETED" <=> manifests
    /\ Len(attempts) <= MaxAttempts
    /\ state = "WAITING" => Len(attempts) < MaxAttempts

\* No attempt outlives attempt_timeout by a whole lease, although only a heartbeat looks
\* at the timeout: one that succeeds does so before it expires, and its last renewal was
\* granted before the timeout.
CompletionBounded ==
    \A i \in DOMAIN attempts :
        attempts[i].state = "SUCCEEDED" =>
            /\ attempts[i].ended < attempts[i].expires
            /\ attempts[i].ended - attempts[i].started < AttemptTimeout + LeaseDuration

\* A run its owner has abandoned is never recorded as having hit a limit (heartbeat:
\* "Cancellation outranks every limit"), and it is CANCELLED only at the owner's request.
CancellationOutranks ==
    [][/\ cancellation /\ Active => attempts'[Len(attempts)].state \notin LimitState
       /\ state' = "CANCELLED" => cancellation']_coordinatorVars

\* Cancellation is terminal and is never retried (request_cancellation).  The code does
\* not ensure it.
CancellationNeverRetried ==
    [][cancellation => Len(attempts') = Len(attempts)]_coordinatorVars
================================================================================
