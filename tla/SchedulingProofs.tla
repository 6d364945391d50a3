---------------------------- MODULE SchedulingProofs ----------------------------
(***************************************************************************)
(* Proofs about the two components that decide which attempt runs when.    *)
(*                                                                         *)
(* AttemptCoordinator, for every policy.  StateMatchesHistory is inductive *)
(* once the types are known; CompletionBounded is not, since complete does *)
(* not look at the timeout: what makes it true is that no lease is ever    *)
(* granted beyond AttemptTimeout + LeaseDuration (RowOK).                  *)
(*                                                                         *)
(* LaneScheduler, for any lanes, limits and number of futures.             *)
(* SlotsBounded is inductive once active counts are numbers and the        *)
(* futures are finitely many records: the counters are only ever compared  *)
(* with the limits, so that they equal the futures they count is what      *)
(* makes the limits real.                                                  *)
(***************************************************************************)
EXTENDS AttemptCoordinator, LaneScheduler, FiniteSetTheorems, TLAPS

\* Most steps are first-order; a step that needs arithmetic or records says SMT.
USE Zenon

(* The attempts of a run: CoordinatorSpec *)

RowOK(row) ==
    /\ row.state \in {"ACTIVE", "SUCCEEDED"} =>
          row.expires - row.started < AttemptTimeout + LeaseDuration
    /\ row.state = "SUCCEEDED" => row.ended < row.expires

AttemptsInv ==
    /\ CoordinatorTypeOK
    /\ StateMatchesHistory
    /\ \A i \in DOMAIN attempts : RowOK(attempts[i])

\* What a step may leave of the attempts: the newest one rewritten.
Rewrites(row) == attempts' = [attempts EXCEPT ![Len(attempts)] = row]
--------------------------------------------------------------------------------
\* Rewriting the newest, active attempt keeps the types and every row's lease bound, and
\* leaves only the newest row possibly open or successful.
LEMMA RewriteRow ==
    ASSUME AttemptsInv, Active, NEW row \in Record, RowOK(row), Rewrites(row)
    PROVE  /\ attempts' \in Seq(Record) /\ Len(attempts') = Len(attempts)
           /\ attempts' # <<>> /\ attempts'[Len(attempts')] = row
           /\ \A i \in DOMAIN attempts' :
                 attempts'[i].state \in {"ACTIVE", "SUCCEEDED"} => i = Len(attempts')
           /\ \A i \in DOMAIN attempts' : RowOK(attempts'[i])
<1>1. attempts \in Seq(Record) /\ attempts # <<>> /\ Len(attempts) \in DOMAIN attempts
  BY SMT DEF AttemptsInv, CoordinatorTypeOK, Active
<1>2. \A i \in DOMAIN attempts :
         attempts'[i] = IF i = Len(attempts) THEN row ELSE attempts[i]
  BY <1>1 DEF Rewrites
<1>3. attempts' \in Seq(Record) /\ Len(attempts') = Len(attempts)
      /\ DOMAIN attempts' = DOMAIN attempts
  BY <1>1, SMT DEF Rewrites
<1> QED
  BY <1>1, <1>2, <1>3, SMT DEF AttemptsInv, StateMatchesHistory

\* Inserting an attempt after rows none of which is open or successful does the same.
LEMMA AppendRow ==
    ASSUME NEW past \in Seq(Record), NEW row \in Record, RowOK(row),
           \A i \in DOMAIN past : RowOK(past[i]),
           \A i \in DOMAIN past : past[i].state \notin {"ACTIVE", "SUCCEEDED"},
           attempts' = Append(past, row)
    PROVE  /\ attempts' \in Seq(Record) /\ Len(attempts') = Len(past) + 1
           /\ attempts' # <<>> /\ attempts'[Len(attempts')] = row
           /\ \A i \in DOMAIN attempts' :
                 attempts'[i].state \in {"ACTIVE", "SUCCEEDED"} => i = Len(attempts')
           /\ \A i \in DOMAIN attempts' : RowOK(attempts'[i])
<1>1. \A i \in 1..(Len(past) + 1) :
         attempts'[i] = IF i = Len(past) + 1 THEN row ELSE past[i]
  BY SMT
<1>2. DOMAIN attempts' = 1..(Len(past) + 1) /\ DOMAIN past = 1..Len(past)
  BY SMT
<1>3. attempts' \in Seq(Record) /\ Len(attempts') = Len(past) + 1 /\ Len(past) \in Nat
  BY SMT
<1> QED
  BY <1>1, <1>2, <1>3, SMT

\* Closing a record keeps its type; only a success has to respect the lease.
LEMMA ClosedRow ==
    ASSUME NEW row \in Record, NEW kind \in AttemptState \ {"ACTIVE"}, NEW now \in Nat,
           kind = "SUCCEEDED" => RowOK(row) /\ row.state = "ACTIVE" /\ now < row.expires
    PROVE  /\ Closed(row, kind, now) \in Record
           /\ Closed(row, kind, now).state = kind
           /\ RowOK(Closed(row, kind, now))
<1>1. /\ Closed(row, kind, now) \in Record
      /\ Closed(row, kind, now).state = kind
      /\ Closed(row, kind, now).started = row.started
      /\ Closed(row, kind, now).expires = row.expires
      /\ Closed(row, kind, now).ended = now
  BY DEF Closed, Record
<1> QED
  BY <1>1 DEF RowOK

\* A sampled record keeps its type, its state and its start.
LEMMA SampledRow ==
    ASSUME NEW row \in Record, NEW now \in Nat, NEW cpu \in Nat, NEW expires \in Nat
    PROVE  /\ Sampled(row, now, cpu, expires) \in Record
           /\ Sampled(row, now, cpu, expires).state = row.state
           /\ Sampled(row, now, cpu, expires).started = row.started
           /\ Sampled(row, now, cpu, expires).expires = expires
BY DEF Sampled, Record
--------------------------------------------------------------------------------
\* Stopping the active attempt keeps the invariant, whatever stops it.
LEMMA StopKeeps ==
    ASSUME AttemptsInv, Active, NEW row \in Record, NEW now \in Nat,
           NEW kind \in AttemptState \ {"ACTIVE", "SUCCEEDED"},
           NEW retryable \in BOOLEAN, NEW terminal \in {"FAILED", "CANCELLED"},
           StopActive(row, kind, now, retryable, terminal),
           UNCHANGED <<cancellation, manifests>>
    PROVE  AttemptsInv'
<1>1. Closed(row, kind, now) \in Record /\ RowOK(Closed(row, kind, now))
      /\ Closed(row, kind, now).state = kind
  BY ClosedRow
<1>2. Rewrites(Closed(row, kind, now))
  BY DEF StopActive, Rewrites
<1>3. /\ attempts' \in Seq(Record) /\ Len(attempts') = Len(attempts)
      /\ attempts' # <<>> /\ attempts'[Len(attempts')].state = kind
      /\ \A i \in DOMAIN attempts' :
            attempts'[i].state \in {"ACTIVE", "SUCCEEDED"} => i = Len(attempts')
      /\ \A i \in DOMAIN attempts' : RowOK(attempts'[i])
  BY <1>1, <1>2, RewriteRow
<1>4. state' \in {"WAITING", "FAILED", "CANCELLED"}
      /\ (state' = "WAITING" => Len(attempts) < MaxAttempts)
  BY DEF StopActive
<1>5. ~manifests' /\ manifests' \in BOOLEAN /\ cancellation' \in BOOLEAN
  BY DEF AttemptsInv, CoordinatorTypeOK, StateMatchesHistory, Active
<1>6. Len(attempts) <= MaxAttempts
  BY DEF AttemptsInv, StateMatchesHistory
<1> QED
  BY <1>3, <1>4, <1>5, <1>6
  DEF AttemptsInv, CoordinatorTypeOK, StateMatchesHistory, Active, NewestAttempt, RunState, Terminal

\* The constructor's state satisfies the invariant.
LEMMA AttemptsInit == CoordinatorInit => AttemptsInv
<1> SUFFICES ASSUME CoordinatorInit PROVE AttemptsInv
  OBVIOUS
<1>1. attempts = <<>> /\ attempts \in Seq(Record) /\ Len(attempts) = 0 /\ DOMAIN attempts = {}
  BY SMT DEF CoordinatorInit
<1>2. ~Active
  BY <1>1 DEF Active
<1>3. CoordinatorTypeOK
  BY <1>1 DEF CoordinatorInit, CoordinatorTypeOK, RunState
<1>4. 0 <= MaxAttempts /\ 0 < MaxAttempts
  BY PolicyAssumption, SMT
<1>5. state = "WAITING" /\ ~manifests
  BY DEF CoordinatorInit
<1>6. StateMatchesHistory
  BY <1>1, <1>2, <1>4, <1>5 DEF StateMatchesHistory
<1> QED
  BY <1>1, <1>3, <1>6 DEF AttemptsInv

\* Every method keeps the invariant.
LEMMA AttemptsStep == AttemptsInv /\ [CoordinatorNext]_coordinatorVars => AttemptsInv'
<1> SUFFICES ASSUME AttemptsInv, [CoordinatorNext]_coordinatorVars PROVE AttemptsInv'
  OBVIOUS
<1> USE PolicyAssumption
<1>0. /\ Active => NewestAttempt \in Record /\ RowOK(NewestAttempt) /\ NewestAttempt.state = "ACTIVE"
      /\ attempts \in Seq(Record) /\ Len(attempts) \in Nat
  BY SMT DEF AttemptsInv, CoordinatorTypeOK, Active, NewestAttempt
<1>1. ASSUME NEW now \in 0..MaxTime, Acquire(now) PROVE AttemptsInv'
  <2> DEFINE new == [state |-> "ACTIVE", started |-> now, beat |-> now,
                     expires |-> now + LeaseDuration, ended |-> 0, cpu |-> 0]
             late == Closed(NewestAttempt, "LEASE_EXPIRED", now)
             past == IF Active THEN [attempts EXCEPT ![Len(attempts)] = late] ELSE attempts
  <2>1. Active => late \in Record /\ RowOK(late) /\ late.state = "LEASE_EXPIRED"
    BY <1>0, ClosedRow, SMT DEF AttemptState, LimitState
  <2>2. state # "COMPLETED" /\ state \notin Terminal
    BY <1>1 DEF Acquire, Terminal
  <2>3. /\ past \in Seq(Record) /\ Len(past) = Len(attempts)
        /\ \A i \in DOMAIN past : RowOK(past[i])
        /\ \A i \in DOMAIN past : past[i].state \notin {"ACTIVE", "SUCCEEDED"}
    <3>1. CASE Active
      <4>1. \A i \in DOMAIN attempts : past[i] = IF i = Len(attempts) THEN late ELSE attempts[i]
        BY <1>0, <3>1
      <4>2. past \in Seq(Record) /\ Len(past) = Len(attempts) /\ DOMAIN past = DOMAIN attempts
        <5>1. past = [attempts EXCEPT ![Len(attempts)] = late] /\ late \in Record
              /\ attempts # <<>>
          BY <2>1, <3>1 DEF Active
        <5> HIDE DEF past, late
        <5> QED
          BY <1>0, <5>1, SMT
      <4> QED
        BY <2>1, <3>1, <4>1, <4>2 DEF AttemptsInv, StateMatchesHistory
    <3>2. CASE ~Active
      <4>1. past = attempts
        BY <3>2
      <4>2. \A i \in DOMAIN attempts : attempts[i].state \notin {"ACTIVE", "SUCCEEDED"}
        BY <1>0, <2>2, <3>2, SMT DEF AttemptsInv, StateMatchesHistory, Active, NewestAttempt
      <4> QED
        BY <1>0, <4>1, <4>2 DEF AttemptsInv
    <3> QED
      BY <3>1, <3>2
  <2>4. new \in Record /\ RowOK(new) /\ new.state = "ACTIVE"
    BY SMT DEF Record, RowOK, AttemptState
  <2>5. ~manifests' /\ manifests' \in BOOLEAN /\ cancellation' \in BOOLEAN
    BY <1>1, <2>2 DEF Acquire, AttemptsInv, CoordinatorTypeOK, StateMatchesHistory
  <2>6. CASE Len(attempts) < MaxAttempts
    <3>1. attempts' = Append(past, new) /\ state' = "RUNNING"
      BY <1>1, <2>6 DEF Acquire
    <3> HIDE DEF past, new
    <3>2. /\ attempts' \in Seq(Record) /\ Len(attempts') = Len(attempts) + 1
          /\ attempts' # <<>> /\ attempts'[Len(attempts')].state = "ACTIVE"
          /\ \A i \in DOMAIN attempts' :
                attempts'[i].state \in {"ACTIVE", "SUCCEEDED"} => i = Len(attempts')
          /\ \A i \in DOMAIN attempts' : RowOK(attempts'[i])
      BY <2>3, <2>4, <3>1, AppendRow
    <3> QED
      BY <1>0, <2>5, <2>6, <3>1, <3>2, SMT
      DEF AttemptsInv, CoordinatorTypeOK, StateMatchesHistory, Active, NewestAttempt, RunState, Terminal
  <2>7. CASE ~(Len(attempts) < MaxAttempts)
    <3>1. attempts' = past /\ state' = "FAILED"
      BY <1>1, <2>7 DEF Acquire
    <3>2. Len(attempts) <= MaxAttempts
      BY DEF AttemptsInv, StateMatchesHistory
    <3> HIDE DEF past
    <3>3. attempts' # <<>> => Len(attempts') \in DOMAIN attempts'
      BY <2>3, <3>1, SMT
    <3> QED
      BY <2>3, <2>5, <3>1, <3>2, <3>3
      DEF AttemptsInv, CoordinatorTypeOK, StateMatchesHistory, Active, NewestAttempt, RunState, Terminal
  <2> QED
    BY <2>6, <2>7
<1>2. ASSUME NEW now \in 0..MaxTime, NEW i \in DOMAIN attempts, LeaseExpired(i, now) PROVE AttemptsInv'
  <2>1. /\ Active /\ UNCHANGED <<cancellation, manifests>>
        /\ StopActive(NewestAttempt, "LEASE_EXPIRED", now, TRUE, "FAILED")
    BY <1>2 DEF LeaseExpired, Holds
  <2>2. now \in Nat /\ "LEASE_EXPIRED" \in AttemptState \ {"ACTIVE", "SUCCEEDED"}
    BY SMT DEF AttemptState
  <2> QED
    BY <1>0, <2>1, <2>2, StopKeeps
<1>3. ASSUME NEW now \in 0..MaxTime, NEW i \in DOMAIN attempts,
             NEW cpu \in 0..(MaxCpuTime + 1), NEW mem \in BOOLEAN, Heartbeat(i, now, cpu, mem)
      PROVE  AttemptsInv'
  <2> DEFINE seen == Sampled(NewestAttempt, now, cpu, NewestAttempt.expires)
             kept == Sampled(NewestAttempt, now, cpu, now + LeaseDuration)
             verdict == HeartbeatVerdict(now, cpu, mem)
  <2>1. Active /\ UNCHANGED <<cancellation, manifests>>
    BY <1>3 DEF Heartbeat, Live, Holds
  <2>2. /\ NewestAttempt.started \in Nat /\ NewestAttempt.expires \in Nat
        /\ now \in Nat /\ cpu \in Nat /\ now + LeaseDuration \in Nat
    BY <1>0, <2>1, SMT DEF Record
  <2>3. /\ seen \in Record /\ kept \in Record /\ kept.state = "ACTIVE"
        /\ kept.started = NewestAttempt.started /\ kept.expires = now + LeaseDuration
    <3>1. NewestAttempt \in Record /\ NewestAttempt.state = "ACTIVE"
      BY <1>0, <2>1
    <3>2. seen \in Record
      BY <2>2, <3>1, SampledRow
    <3> DEFINE due == now + LeaseDuration
    <3>3. due \in Nat
      BY <2>2
    <3> HIDE DEF due
    <3>4. /\ Sampled(NewestAttempt, now, cpu, due) \in Record
          /\ Sampled(NewestAttempt, now, cpu, due).state = NewestAttempt.state
          /\ Sampled(NewestAttempt, now, cpu, due).started = NewestAttempt.started
          /\ Sampled(NewestAttempt, now, cpu, due).expires = due
      BY <2>2, <3>1, <3>3 DEF Sampled, Record
    <3> QED
      BY <3>1, <3>2, <3>4 DEF due
  <2>4. /\ verdict \in LimitState \cup {"CANCELLED", "ACTIVE"}
        /\ verdict = "ACTIVE" => now - NewestAttempt.started < AttemptTimeout
    BY <2>2, SMT DEF HeartbeatVerdict, LimitState
  <2>5. CASE verdict = "ACTIVE"
    <3>1. Rewrites(kept) /\ UNCHANGED state
      BY <1>3, <2>5 DEF Heartbeat, Rewrites
    <3>2. now - NewestAttempt.started < AttemptTimeout
      BY <2>4, <2>5
    <3> HIDE DEF kept, verdict
    <3>3. RowOK(kept)
      BY <2>2, <2>3, <3>2, SMT DEF RowOK
    <3>4. /\ attempts' \in Seq(Record) /\ Len(attempts') = Len(attempts)
          /\ attempts' # <<>> /\ attempts'[Len(attempts')].state = "ACTIVE"
          /\ \A j \in DOMAIN attempts' :
                attempts'[j].state \in {"ACTIVE", "SUCCEEDED"} => j = Len(attempts')
          /\ \A j \in DOMAIN attempts' : RowOK(attempts'[j])
      BY <2>1, <2>3, <3>1, <3>3, RewriteRow
    <3>5. state = "RUNNING" /\ Len(attempts) <= MaxAttempts
      BY <2>1 DEF AttemptsInv, StateMatchesHistory
    <3> QED
      BY <2>1, <3>1, <3>4, <3>5
      DEF AttemptsInv, CoordinatorTypeOK, StateMatchesHistory, Active, NewestAttempt, RunState, Terminal
  <2>6. CASE verdict # "ACTIVE"
    <3> DEFINE terminal == IF verdict = "CANCELLED" THEN "CANCELLED" ELSE "FAILED"
    <3>1. StopActive(seen, verdict, now, verdict # "CANCELLED", terminal)
      BY <1>3, <2>6 DEF Heartbeat
    <3>2. verdict \in AttemptState \ {"ACTIVE", "SUCCEEDED"} /\ terminal \in {"FAILED", "CANCELLED"}
      BY <2>4, <2>6 DEF AttemptState, LimitState
    <3> HIDE DEF seen, verdict, terminal
    <3> QED
      BY <2>1, <2>2, <2>3, <3>1, <3>2, StopKeeps
  <2> QED
    BY <2>5, <2>6
<1>4. ASSUME NEW now \in 0..MaxTime, NEW i \in DOMAIN attempts, NEW retryable \in BOOLEAN,
             Fail(i, now, retryable)
      PROVE  AttemptsInv'
  <2>1. Active /\ UNCHANGED <<cancellation, manifests>>
    BY <1>4 DEF Fail, Live, Holds
  <2>2. PICK kind \in {"RETRYABLE_FAILED", "PERMANENT_FAILED"} :
           StopActive(NewestAttempt, kind, now, retryable, "FAILED")
    BY <1>4 DEF Fail
  <2> QED
    BY <1>0, <2>1, <2>2, StopKeeps, SMT DEF AttemptState, LimitState
<1>5. ASSUME NEW now \in 0..MaxTime, NEW i \in DOMAIN attempts, Complete(i, now) PROVE AttemptsInv'
  <2> DEFINE done == Closed(NewestAttempt, "SUCCEEDED", now)
  <2>1. Active /\ now < NewestAttempt.expires /\ Rewrites(done)
        /\ manifests' = TRUE /\ state' = "COMPLETED" /\ UNCHANGED cancellation
    BY <1>5 DEF Complete, Live, Holds, Rewrites
  <2>2. done \in Record /\ RowOK(done) /\ done.state = "SUCCEEDED"
    <3>1. "SUCCEEDED" \in AttemptState \ {"ACTIVE"} /\ now \in Nat
      BY SMT DEF AttemptState
    <3>2. NewestAttempt \in Record /\ RowOK(NewestAttempt) /\ NewestAttempt.state = "ACTIVE" /\ now < NewestAttempt.expires
      BY <1>0, <2>1
    <3> QED
      BY <3>1, <3>2, ClosedRow
  <2> HIDE DEF done
  <2>3. /\ attempts' \in Seq(Record) /\ Len(attempts') = Len(attempts)
        /\ attempts' # <<>> /\ attempts'[Len(attempts')].state = "SUCCEEDED"
        /\ \A j \in DOMAIN attempts' :
              attempts'[j].state \in {"ACTIVE", "SUCCEEDED"} => j = Len(attempts')
        /\ \A j \in DOMAIN attempts' : RowOK(attempts'[j])
    BY <2>1, <2>2, RewriteRow
  <2>4. Len(attempts) <= MaxAttempts
    BY DEF AttemptsInv, StateMatchesHistory
  <2> QED
    BY <2>1, <2>3, <2>4
    DEF AttemptsInv, CoordinatorTypeOK, StateMatchesHistory, Active, NewestAttempt, RunState, Terminal
<1>6. ASSUME NEW now \in 0..MaxTime, RequestCancellation(now) PROVE AttemptsInv'
  BY <1>6 DEF RequestCancellation, AttemptsInv, CoordinatorTypeOK, StateMatchesHistory, Active, NewestAttempt,
              RunState, Terminal
<1>7. ASSUME NEW now \in 0..MaxTime, CancelBySystem(now) PROVE AttemptsInv'
  <2>1. CASE Active
    <3>1. UNCHANGED <<cancellation, manifests>>
          /\ StopActive(NewestAttempt, "SYSTEM_CANCELLED", now, FALSE, "FAILED")
      BY <1>7, <2>1 DEF CancelBySystem
    <3>2. now \in Nat /\ "SYSTEM_CANCELLED" \in AttemptState \ {"ACTIVE", "SUCCEEDED"}
      BY SMT DEF AttemptState
    <3> QED
      BY <1>0, <2>1, <3>1, <3>2, StopKeeps
  <2>2. CASE ~Active
    BY <1>7, <2>2 DEF CancelBySystem, AttemptsInv, CoordinatorTypeOK, StateMatchesHistory, Active, NewestAttempt,
                      RunState, Terminal
  <2> QED
    BY <2>1, <2>2
<1>8. CASE UNCHANGED coordinatorVars
  BY <1>8 DEF coordinatorVars, AttemptsInv, CoordinatorTypeOK, StateMatchesHistory, Active, NewestAttempt
<1> QED
  BY <1>1, <1>2, <1>3, <1>4, <1>5, <1>6, <1>7, <1>8 DEF CoordinatorNext
--------------------------------------------------------------------------------
\* The inductive invariant holds throughout.
THEOREM AttemptsInvariance == CoordinatorSpec => []AttemptsInv
BY AttemptsInit, AttemptsStep, PTL DEF CoordinatorSpec

\* The aggregate's fields keep their types.
THEOREM AttemptsTyped == CoordinatorSpec => []CoordinatorTypeOK
<1>1. AttemptsInv => CoordinatorTypeOK
  BY DEF AttemptsInv
<1> QED
  BY <1>1, AttemptsInvariance, PTL

\* The run's state always agrees with its attempts and its retry budget, for every policy.
THEOREM StateIsHistory == CoordinatorSpec => []StateMatchesHistory
<1>1. AttemptsInv => StateMatchesHistory
  BY DEF AttemptsInv
<1> QED
  BY <1>1, AttemptsInvariance, PTL

\* No attempt completes a whole lease after its timeout, for every policy.
THEOREM CompletionIsBounded == CoordinatorSpec => []CompletionBounded
<1>1. AttemptsInv => CompletionBounded
  <2> SUFFICES ASSUME AttemptsInv, NEW i \in DOMAIN attempts, attempts[i].state = "SUCCEEDED"
               PROVE  /\ attempts[i].ended < attempts[i].expires
                      /\ attempts[i].ended - attempts[i].started < AttemptTimeout + LeaseDuration
    BY DEF CompletionBounded
  <2>1. attempts[i] \in Record /\ RowOK(attempts[i])
    BY SMT DEF AttemptsInv, CoordinatorTypeOK
  <2> QED
    BY <2>1, PolicyAssumption, SMT DEF RowOK, Record
<1> QED
  BY <1>1, AttemptsInvariance, PTL

\* A requested cancellation outranks the limits, and is the only way to CANCELLED.
THEOREM CancellationIsFirst == CoordinatorSpec => CancellationOutranks
<1>1. ASSUME AttemptsInv, [CoordinatorNext]_coordinatorVars
      PROVE  [/\ cancellation /\ Active => attempts'[Len(attempts)].state \notin LimitState
              /\ state' = "CANCELLED" => cancellation']_coordinatorVars
  <2> SUFFICES ASSUME CoordinatorNext
               PROVE  /\ cancellation /\ Active => attempts'[Len(attempts)].state \notin LimitState
                      /\ state' = "CANCELLED" => cancellation'
    BY <1>1
  <2>0. /\ attempts \in Seq(Record)
        /\ Active => Len(attempts) \in DOMAIN attempts /\ NewestAttempt \in Record /\ NewestAttempt.state = "ACTIVE"
    BY <1>1, SMT DEF AttemptsInv, CoordinatorTypeOK, Active, NewestAttempt
  <2>1. ASSUME NEW row \in Record, NEW kind, NEW now, NEW retryable, NEW terminal, Active,
               StopActive(row, kind, now, retryable, terminal)
        PROVE  /\ attempts'[Len(attempts)].state = kind
               /\ state' \in {"WAITING", terminal}
    <3>1. Closed(row, kind, now).state = kind
      BY DEF Closed, Record
    <3> QED
      BY <2>0, <2>1, <3>1 DEF StopActive
  <2>2. ASSUME NEW now \in 0..MaxTime, Acquire(now)
        PROVE  state' # "CANCELLED" /\ (Active => attempts'[Len(attempts)].state \notin LimitState)
    <3> DEFINE late == Closed(NewestAttempt, "LEASE_EXPIRED", now)
               past == [attempts EXCEPT ![Len(attempts)] = late]
    <3>1. Active => late.state = "LEASE_EXPIRED"
      BY <2>0 DEF Closed, Record
    <3>2. Active => past[Len(attempts)] = late /\ Len(past) = Len(attempts)
                    /\ (\A row : Append(past, row)[Len(attempts)] = late)
      BY <2>0, SMT
    <3>3. Active => attempts'[Len(attempts)] = late
      <4> SUFFICES ASSUME Active PROVE attempts'[Len(attempts)] = late
        OBVIOUS
      <4>1. attempts' = past \/ \E row : attempts' = Append(past, row)
        BY <2>2 DEF Acquire
      <4> HIDE DEF past, late
      <4> QED
        BY <3>2, <4>1
    <3> QED
      BY <2>2, <3>1, <3>3 DEF Acquire, LimitState
  <2>3. ASSUME NEW now \in 0..MaxTime, NEW i \in DOMAIN attempts, LeaseExpired(i, now)
        PROVE  state' # "CANCELLED" /\ attempts'[Len(attempts)].state \notin LimitState
    <3>1. Active /\ StopActive(NewestAttempt, "LEASE_EXPIRED", now, TRUE, "FAILED")
      BY <2>3 DEF LeaseExpired, Holds
    <3>2. attempts'[Len(attempts)].state = "LEASE_EXPIRED" /\ state' \in {"WAITING", "FAILED"}
      BY <2>0, <2>1, <3>1
    <3> QED
      BY <3>2 DEF LimitState
  <2>4. ASSUME NEW now \in 0..MaxTime, NEW i \in DOMAIN attempts,
               NEW cpu \in 0..(MaxCpuTime + 1), NEW mem \in BOOLEAN, Heartbeat(i, now, cpu, mem)
        PROVE  /\ cancellation => attempts'[Len(attempts)].state \notin LimitState
               /\ state' = "CANCELLED" => cancellation'
    <3> DEFINE seen == Sampled(NewestAttempt, now, cpu, NewestAttempt.expires)
               verdict == HeartbeatVerdict(now, cpu, mem)
               terminal == IF verdict = "CANCELLED" THEN "CANCELLED" ELSE "FAILED"
    <3>1. Active /\ cancellation' = cancellation /\ state # "CANCELLED"
      BY <2>4 DEF Heartbeat, Live, Holds, Terminal
    <3>2. seen \in Record
      <4>1. NewestAttempt.expires \in Nat /\ now \in Nat /\ cpu \in Nat
        BY <2>0, <3>1, PolicyAssumption, SMT DEF Record
      <4> QED
        BY <2>0, <3>1, <4>1, SampledRow
    <3>3. cancellation <=> verdict = "CANCELLED"
      BY DEF HeartbeatVerdict
    <3>4. verdict = "ACTIVE" => state' = state
      BY <2>4 DEF Heartbeat
    <3>5. verdict # "ACTIVE" => StopActive(seen, verdict, now, verdict # "CANCELLED", terminal)
      BY <2>4 DEF Heartbeat
    <3>6. verdict = "CANCELLED" \/ terminal = "FAILED"
      OBVIOUS
    <3> HIDE DEF seen, verdict, terminal
    <3> QED
      BY <2>1, <3>1, <3>2, <3>3, <3>4, <3>5, <3>6 DEF LimitState
  <2>5. ASSUME NEW now \in 0..MaxTime, NEW i \in DOMAIN attempts, NEW retryable \in BOOLEAN,
               Fail(i, now, retryable)
        PROVE  state' # "CANCELLED" /\ attempts'[Len(attempts)].state \notin LimitState
    <3>1. PICK kind \in {"RETRYABLE_FAILED", "PERMANENT_FAILED"} :
             StopActive(NewestAttempt, kind, now, retryable, "FAILED")
      BY <2>5 DEF Fail
    <3> QED
      BY <2>0, <2>1, <2>5, <3>1, SMT DEF Fail, Live, Holds, LimitState
  <2>6. ASSUME NEW now \in 0..MaxTime, NEW i \in DOMAIN attempts, Complete(i, now)
        PROVE  state' # "CANCELLED" /\ attempts'[Len(attempts)].state \notin LimitState
    <3>1. Active /\ Closed(NewestAttempt, "SUCCEEDED", now).state = "SUCCEEDED"
      BY <2>0, <2>6 DEF Complete, Live, Holds, Closed, Record
    <3> QED
      BY <2>0, <2>6, <3>1 DEF Complete, LimitState
  <2>7. ASSUME NEW now \in 0..MaxTime, RequestCancellation(now)
        PROVE  cancellation' /\ (Active => attempts'[Len(attempts)].state \notin LimitState)
    BY <2>7 DEF RequestCancellation, Active, NewestAttempt, LimitState
  <2>8. ASSUME NEW now \in 0..MaxTime, CancelBySystem(now)
        PROVE  state' # "CANCELLED" /\ (Active => attempts'[Len(attempts)].state \notin LimitState)
    <3>1. CASE Active
      <4>1. StopActive(NewestAttempt, "SYSTEM_CANCELLED", now, FALSE, "FAILED")
        BY <2>8, <3>1 DEF CancelBySystem
      <4>2. attempts'[Len(attempts)].state = "SYSTEM_CANCELLED" /\ state' \in {"WAITING", "FAILED"}
        BY <2>0, <2>1, <3>1, <4>1
      <4> QED
        BY <4>2 DEF LimitState
    <3>2. CASE ~Active
      BY <2>8, <3>2 DEF CancelBySystem
    <3> QED
      BY <3>1, <3>2
  <2> QED
    BY <2>2, <2>3, <2>4, <2>5, <2>6, <2>7, <2>8 DEF CoordinatorNext
<1> QED
  BY <1>1, AttemptsInvariance, PTL DEF CoordinatorSpec, CancellationOutranks
--------------------------------------------------------------------------------
(* The slots of the lanes: LaneScheduler!SchedulerSpec *)

HeldBy(l) == {f \in DOMAIN futures : futures[f].lane = l}

SlotsInv ==
    /\ active \in [Lanes -> Nat]
    /\ IsFiniteSet(DOMAIN futures)
    /\ \A f \in DOMAIN futures : futures[f] \in Future
    /\ SlotsBounded
--------------------------------------------------------------------------------
\* A step that touches neither the futures nor the counters keeps the invariant.
LEMMA SameSlots ==
    ASSUME SlotsInv, UNCHANGED <<futures, active>>
    PROVE  SlotsInv'
BY DEF SlotsInv, SlotsBounded

\* Reaping takes exactly the reaped futures off every counter.
LEMMA ReapKeeps ==
    ASSUME SlotsInv, ReapCompleted
    PROVE  SlotsInv'
<1> DEFINE still == {g \in DOMAIN futures : futures[g].job = "running"}
           gone(l) == With(l, {"returned", "raised"})
<1>1. DOMAIN futures' = still /\ \A f \in still : futures'[f] = futures[f]
  BY DEF ReapCompleted
<1>2. IsFiniteSet(still) /\ Cardinality(still) <= Cardinality(DOMAIN futures)
      /\ Cardinality(still) \in Nat /\ Cardinality(DOMAIN futures) \in Nat
  <2>1. IsFiniteSet(DOMAIN futures) /\ still \subseteq DOMAIN futures
    BY DEF SlotsInv
  <2> HIDE DEF still
  <2> QED
    BY <2>1, FS_Subset, FS_CardinalityType
<1>3. ASSUME NEW l \in Lanes
      PROVE  /\ active'[l] \in Nat /\ active'[l] <= Limit[l]
             /\ active'[l] = Cardinality({f \in DOMAIN futures' : futures'[f].lane = l})
  <2>1. gone(l) \subseteq HeldBy(l) /\ HeldBy(l) \subseteq DOMAIN futures
    BY DEF With, HeldBy
  <2>2. {f \in DOMAIN futures' : futures'[f].lane = l} = HeldBy(l) \ gone(l)
    BY <1>1 DEF With, HeldBy, SlotsInv, Future
  <2>3. IsFiniteSet(HeldBy(l)) /\ IsFiniteSet(gone(l)) /\ IsFiniteSet(DOMAIN futures)
    <3>1. IsFiniteSet(DOMAIN futures)
      BY DEF SlotsInv
    <3>2. IsFiniteSet(HeldBy(l))
      BY <2>1, <3>1, FS_Subset
    <3> QED
      BY <2>1, <3>1, <3>2, FS_Subset
  <2> DEFINE left == Cardinality(HeldBy(l) \ gone(l))
             reaped == Cardinality(gone(l))
  <2>4. left = Cardinality(HeldBy(l)) - reaped /\ left \in Nat /\ reaped \in Nat
    <3>1. Cardinality(HeldBy(l) \ gone(l)) = Cardinality(HeldBy(l)) - Cardinality(HeldBy(l) \cap gone(l))
          /\ IsFiniteSet(HeldBy(l) \ gone(l))
      BY <2>3, FS_Difference
    <3>2. HeldBy(l) \cap gone(l) = gone(l)
      BY <2>1
    <3> QED
      BY <2>3, <3>1, <3>2, FS_CardinalityType
  <2>5. active[l] = Cardinality(HeldBy(l)) /\ active[l] <= Limit[l] /\ active[l] \in Nat
    BY DEF SlotsInv, SlotsBounded, HeldBy
  <2>6. active'[l] = active[l] - reaped
    BY DEF ReapCompleted
  <2>7. Limit[l] \in Nat
    BY SchedulerAssumption
  <2> HIDE DEF gone, left, reaped
  <2>8. active'[l] \in Nat /\ active'[l] <= Limit[l] /\ active'[l] = left
    BY <2>4, <2>5, <2>6, <2>7, SMT
  <2> QED
    BY <2>2, <2>8, Zenon DEF left
<1>4. active' \in [Lanes -> Nat]
  <2>1. active' = [l \in Lanes |-> active'[l]]
    BY DEF ReapCompleted
  <2> QED
    BY <1>3, <2>1
<1>5. Cardinality(DOMAIN futures') <= GlobalLimit
  BY <1>1, <1>2, SchedulerAssumption, SMT DEF SlotsInv, SlotsBounded
<1>6. \A f \in DOMAIN futures' : futures'[f] \in Future
  BY <1>1 DEF SlotsInv
<1> QED
  BY <1>1, <1>2, <1>3, <1>4, <1>5, <1>6 DEF SlotsInv, SlotsBounded

\* A received message takes one slot of its lane and one of the pool, both free.
LEMMA ReceiveKeeps ==
    ASSUME SlotsInv, NEW l \in Lanes, ReceiveMessage(l)
    PROVE  SlotsInv'
<1>1. PICK f \in Futures \ DOMAIN futures :
         futures' = [g \in DOMAIN futures \cup {f} |->
                       IF g = f THEN [lane |-> l, job |-> "running"] ELSE futures[g]]
  BY DEF ReceiveMessage
<1>2. DOMAIN futures' = DOMAIN futures \cup {f} /\ f \notin DOMAIN futures
      /\ \A g \in DOMAIN futures' :
            futures'[g] = IF g = f THEN [lane |-> l, job |-> "running"] ELSE futures[g]
  BY <1>1
<1>3. active[l] < Limit[l] /\ Cardinality(DOMAIN futures) < GlobalLimit
      /\ active' = [active EXCEPT ![l] = active[l] + 1]
  BY DEF ReceiveMessage, NextEligibleLane, Eligible
<1>4. IsFiniteSet(DOMAIN futures') /\ Cardinality(DOMAIN futures') = Cardinality(DOMAIN futures) + 1
      /\ Cardinality(DOMAIN futures) \in Nat
  BY <1>2, FS_AddElement, FS_CardinalityType, SMT DEF SlotsInv
<1>5. Cardinality(DOMAIN futures') <= GlobalLimit
  BY <1>3, <1>4, SchedulerAssumption, SMT
<1>6. ASSUME NEW m \in Lanes
      PROVE  /\ active'[m] <= Limit[m]
             /\ active'[m] = Cardinality({g \in DOMAIN futures' : futures'[g].lane = m})
  <2>1. active[m] = Cardinality(HeldBy(m)) /\ active[m] <= Limit[m] /\ active[m] \in Nat
        /\ Limit[m] \in Nat
    BY SchedulerAssumption DEF SlotsInv, SlotsBounded, HeldBy
  <2>2. IsFiniteSet(HeldBy(m)) /\ f \notin HeldBy(m)
    <3>1. IsFiniteSet(DOMAIN futures) /\ HeldBy(m) \subseteq DOMAIN futures
      BY DEF SlotsInv, HeldBy
    <3> QED
      BY <1>2, <3>1, FS_Subset
  <2>3. CASE m = l
    <3>1. {g \in DOMAIN futures' : futures'[g].lane = m} = HeldBy(m) \cup {f}
      BY <1>2, <2>3, SMT DEF HeldBy
    <3>2. Cardinality(HeldBy(m) \cup {f}) = Cardinality(HeldBy(m)) + 1
      BY <2>2, FS_AddElement
    <3>3. active'[m] = active[m] + 1
      BY <1>3, <2>3 DEF SlotsInv
    <3> QED
      <4>1. active'[m] <= Limit[m] /\ active'[m] = Cardinality(HeldBy(m) \cup {f})
        BY <1>3, <2>1, <2>3, <3>2, <3>3, SMT
      <4> QED
        BY <3>1, <4>1, Zenon
  <2>4. CASE m # l
    <3>1. {g \in DOMAIN futures' : futures'[g].lane = m} = HeldBy(m)
      BY <1>2, <2>4, SMT DEF HeldBy
    <3>2. active'[m] = active[m]
      BY <1>3, <2>4 DEF SlotsInv
    <3> QED
      BY <2>1, <3>1, <3>2
  <2> QED
    BY <2>3, <2>4
<1>7. active' \in [Lanes -> Nat]
  BY <1>3, SMT DEF SlotsInv
<1>8. \A g \in DOMAIN futures' : futures'[g] \in Future
  BY <1>2, SMT DEF SlotsInv, Future
<1> QED
  BY <1>4, <1>5, <1>6, <1>7, <1>8 DEF SlotsInv, SlotsBounded

\* A job that ends keeps its slot until it is reaped.
LEMMA JobKeeps ==
    ASSUME SlotsInv, NEW f \in DOMAIN futures, JobEnds(f)
    PROVE  SlotsInv'
<1>1. PICK job \in {"returned", "raised"} : futures' = [futures EXCEPT ![f].job = job]
  BY DEF JobEnds
<1>2. active' = active
  BY DEF JobEnds
<1>3. DOMAIN futures' = DOMAIN futures
  BY <1>1
<1>4. \A g \in DOMAIN futures : futures'[g] \in Future /\ futures'[g].lane = futures[g].lane
  BY <1>1 DEF SlotsInv, Future
<1>5. \A l \in Lanes : {g \in DOMAIN futures' : futures'[g].lane = l} = {g \in DOMAIN futures : futures[g].lane = l}
  BY <1>3, <1>4
<1> QED
  BY <1>2, <1>3, <1>4, <1>5 DEF SlotsInv, SlotsBounded

\* The constructor's state satisfies the invariant.
LEMMA SlotsInit == SchedulerInit => SlotsInv
<1> SUFFICES ASSUME SchedulerInit PROVE SlotsInv
  OBVIOUS
<1>1. DOMAIN futures = {} /\ active = [l \in Lanes |-> 0]
  BY DEF SchedulerInit
<1>2. Cardinality({}) = 0 /\ IsFiniteSet({})
  BY FS_EmptySet
<1>3. \A l \in Lanes : {f \in DOMAIN futures : futures[f].lane = l} = {}
  BY <1>1
<1> QED
  BY <1>1, <1>2, <1>3, SchedulerAssumption, SMT DEF SlotsInv, SlotsBounded

\* Every step keeps the invariant.
LEMMA SlotsStep == SlotsInv /\ [SchedulerNext]_schedulerVars => SlotsInv'
<1> SUFFICES ASSUME SlotsInv, [SchedulerNext]_schedulerVars PROVE SlotsInv'
  OBVIOUS
<1>1. CASE Reap
  BY <1>1, ReapKeeps DEF Reap
<1>2. ASSUME NEW l \in Lanes, ReceiveRaises(l) \/ ReceiveNothing(l) PROVE SlotsInv'
  BY <1>2, SameSlots DEF ReceiveRaises, ReceiveNothing
<1>3. ASSUME NEW l \in Lanes, ReceiveMessage(l) PROVE SlotsInv'
  BY <1>3, ReceiveKeeps
<1>4. CASE PollEnds \/ Wait \/ RequestStop \/ Tick \/ UNCHANGED schedulerVars
  BY <1>4, SameSlots DEF PollEnds, Wait, RequestStop, Tick, schedulerVars
<1>5. CASE Drain
  BY <1>5, ReapKeeps, SameSlots DEF Drain
<1>6. ASSUME NEW f \in DOMAIN futures, JobEnds(f) PROVE SlotsInv'
  BY <1>6, JobKeeps
<1>7. ASSUME NEW l \in Lanes, Arrive(l) PROVE SlotsInv'
  BY <1>7, SameSlots DEF Arrive
<1> QED
  BY <1>1, <1>2, <1>3, <1>4, <1>5, <1>6, <1>7 DEF SchedulerNext, Poll
--------------------------------------------------------------------------------
\* The scheduler never has more jobs in hand than its lane and global limits allow, for
\* any lanes, limits and failures.
THEOREM BudgetsHold == SchedulerSpec => []SlotsBounded
<1>1. SlotsInv => SlotsBounded
  BY DEF SlotsInv
<1> QED
  BY <1>1, SlotsInit, SlotsStep, PTL DEF SchedulerSpec
================================================================================
