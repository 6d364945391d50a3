-------------------------- MODULE BacktestWorkerProofs --------------------------
(***************************************************************************)
(* Proofs, for every lease length, attempt budget and number of claims, of *)
(* the properties of RunAttempts that MCRunAttempts checks on an instance; *)
(* and, for every number of workers, deliveries and crashes, that the      *)
(* workers use the run's rows as RunAttempts permits, that a claim has one *)
(* holder, and that the queue and the run row agree.                       *)
(***************************************************************************)
EXTENDS BacktestWorker, SequenceTheorems, FiniteSetTheorems, TLAPS

\* Most steps are first-order; a step that needs arithmetic or records says SMT.
USE Zenon

(* The rows of one run: RunAttempts!Spec *)

\* An open attempt has no terminal reason and a closed one no lease.  The action
\* properties need it: a reason found after a step is then one that step wrote, and
\* time passes a closed row by.
RowShape ==
    \A i \in DOMAIN attempts : IF attempts[i].status = "RUNNING" THEN attempts[i].reason = "NONE"
                                                               ELSE attempts[i].lease = 0

\* The inductive invariant.  PublicationSerialized alone is not inductive: that a
\* success is the newest attempt survives a claim only because the claim looks at the
\* newest attempt, and that it is the only one survives a close only because an open
\* attempt is the newest (OnlyLatestRunning).  A recovery pass acts on what it read, so
\* TerminalIsFinal needs RecoveryReadStable.
IInv ==
    /\ TypeOK
    /\ OnlyLatestRunning
    /\ PublicationSerialized
    /\ RecoveryReadStable
    /\ RowShape
--------------------------------------------------------------------------------
\* A sequence of rows is a function on 1..Len with rows as its values.
LEMMA RowFacts ==
    ASSUME NEW s \in Seq(Attempt)
    PROVE  /\ Len(s) \in Nat
           /\ DOMAIN s = 1..Len(s)
           /\ \A i \in DOMAIN s : s[i] \in Attempt
           /\ s # <<>> <=> Len(s) \in DOMAIN s
BY LenProperties, EmptySeq, ElementOfSeq, SMT

\* UPDATE of one row: the other rows and their number stay.
LEMMA UpdateRow ==
    ASSUME NEW s \in Seq(Attempt), NEW i \in DOMAIN s, NEW r \in Attempt
    PROVE  /\ [s EXCEPT ![i] = r] \in Seq(Attempt)
           /\ Len([s EXCEPT ![i] = r]) = Len(s)
           /\ DOMAIN [s EXCEPT ![i] = r] = DOMAIN s
           /\ \A j \in DOMAIN s : [s EXCEPT ![i] = r][j] = IF j = i THEN r ELSE s[j]
BY RowFacts, ExceptSeq, SMT

\* INSERT of the next attempt_number: the earlier rows stay.
LEMMA InsertRow ==
    ASSUME NEW s \in Seq(Attempt), NEW r \in Attempt
    PROVE  /\ Append(s, r) \in Seq(Attempt)
           /\ Len(Append(s, r)) = Len(s) + 1
           /\ DOMAIN Append(s, r) = 1..(Len(s) + 1)
           /\ \A j \in DOMAIN s : Append(s, r)[j] = s[j]
           /\ Append(s, r)[Len(s) + 1] = r
BY RowFacts, AppendProperties, SMT

\* Time passes over a row: only its lease shrinks.
LEMMA AgedRow ==
    ASSUME NEW r \in Attempt
    PROVE  /\ Aged(r) \in Attempt
           /\ Aged(r).status = r.status
           /\ Aged(r).reason = r.reason
           /\ r.lease = 0 => Aged(r) = r
BY ConstantsAssumption, SMT DEF Aged, Attempt

\* Time passes over every row.
LEMMA AgedRows ==
    ASSUME NEW s \in Seq(Attempt), NEW t, t = [i \in DOMAIN s |-> Aged(s[i])]
    PROVE  /\ t \in Seq(Attempt)
           /\ Len(t) = Len(s)
           /\ DOMAIN t = DOMAIN s
           /\ \A i \in DOMAIN s : /\ t[i].status = s[i].status
                                  /\ t[i].reason = s[i].reason
                                  /\ s[i].lease = 0 => t[i] = s[i]
<1>1. \A i \in DOMAIN s : /\ t[i] \in Attempt
                          /\ t[i].status = s[i].status
                          /\ t[i].reason = s[i].reason
                          /\ s[i].lease = 0 => t[i] = s[i]
    BY RowFacts, AgedRow
<1>2. Len(s) \in Nat /\ DOMAIN s = 1..Len(s)
    BY RowFacts
<1>3. t \in [1..Len(s) -> Attempt]
    BY <1>1, <1>2
<1>4. t \in Seq(Attempt) /\ Len(t) = Len(s)
    BY <1>2, <1>3, SMT
<1> QED
    BY <1>1, <1>2, <1>3, <1>4
--------------------------------------------------------------------------------
(* What the invariant says of the attempt rows and of the columns that go  *)
(* with them, and the three ways a step changes them.                      *)

RowsOK ==
    /\ attempts \in Seq(Attempt)
    /\ entered \subseteq DOMAIN attempts
    /\ age \in 0..DispatchTimeout
    /\ OnlyLatestRunning
    /\ RowShape
    /\ \A i \in DOMAIN attempts : attempts[i].status = "SUCCEEDED" => i = Len(attempts)

Closes(i, st, re) ==
    /\ attempts[i].status = "RUNNING"
    /\ attempts' = [attempts EXCEPT ![i] = ClosedRow(st, re)]
    /\ entered' = entered \ {i}
    /\ age' = 0

\* The invariant of the new state, from its part about the rows and its part about
\* the run.
LEMMA IInvParts ==
    ASSUME RowsOK', run' \in Run, recovery' \in Recovery,
           run'.status = "COMPLETED" <=> Published',
           run'.status = "COMPLETED" => ~run'.cancel,
           RecoveryReadStable'
    PROVE  IInv'
BY DEF IInv, RowsOK, TypeOK, PublicationSerialized

\* An open attempt is the newest, and nothing has been published.
LEMMA OpenIsNewest ==
    ASSUME RowsOK, NEW i \in DOMAIN attempts, attempts[i].status = "RUNNING"
    PROVE  i = Len(attempts) /\ LatestRunning /\ ~Published
BY RowFacts DEF RowsOK, OnlyLatestRunning, LatestRunning, Latest, Published

\* Closing an open attempt leaves no attempt open, and a published run only if it is
\* closed as a success.
LEMMA ClosesKeepsRows ==
    ASSUME RowsOK, NEW i \in DOMAIN attempts,
           NEW st \in {"SUCCEEDED", "FAILED", "CANCELLED"}, NEW re \in Reason,
           Closes(i, st, re)
    PROVE  RowsOK' /\ (Published' <=> st = "SUCCEEDED")
<1>1. ClosedRow(st, re) \in Attempt
    BY ConstantsAssumption, SMT DEF ClosedRow, Attempt, WorkStatus
<1>2. /\ attempts' \in Seq(Attempt) /\ Len(attempts') = Len(attempts)
      /\ DOMAIN attempts' = DOMAIN attempts
      /\ \A j \in DOMAIN attempts :
            attempts'[j] = IF j = i THEN ClosedRow(st, re) ELSE attempts[j]
    BY <1>1, UpdateRow DEF RowsOK, Closes
<1>3. i = Len(attempts) /\ ~Published
    BY OpenIsNewest DEF Closes
<1>4. ClosedRow(st, re).status = st /\ ClosedRow(st, re).lease = 0
    BY DEF ClosedRow
<1>5. \A j \in DOMAIN attempts : attempts'[j].status = "RUNNING" => FALSE
    BY <1>2, <1>3, <1>4 DEF RowsOK, OnlyLatestRunning
<1>6. \A j \in DOMAIN attempts : attempts'[j].status = "SUCCEEDED" <=> j = i /\ st = "SUCCEEDED"
    BY <1>2, <1>3, <1>4 DEF Published
<1>7. entered' \subseteq DOMAIN attempts' /\ age' \in 0..DispatchTimeout
    BY <1>2, ConstantsAssumption, SMT DEF RowsOK, Closes
<1> QED
    BY <1>2, <1>3, <1>4, <1>5, <1>6, <1>7 DEF RowsOK, OnlyLatestRunning, RowShape, Published

\* A change of leases alone.
LEMMA LeasesKeepRows ==
    ASSUME RowsOK, attempts' \in Seq(Attempt), Len(attempts') = Len(attempts),
           DOMAIN attempts' = DOMAIN attempts,
           \A i \in DOMAIN attempts : /\ attempts'[i].status = attempts[i].status
                                      /\ attempts'[i].reason = attempts[i].reason
                                      /\ attempts[i].status # "RUNNING" => attempts'[i] = attempts[i],
           entered' \subseteq DOMAIN attempts, age' \in 0..DispatchTimeout
    PROVE  RowsOK' /\ (Published' <=> Published) /\ (LatestRunning' <=> LatestRunning)
<1>1. RowsOK' /\ (Published' <=> Published)
    BY DEF RowsOK, OnlyLatestRunning, RowShape, Published
<1>2. LatestRunning' <=> LatestRunning
    BY RowFacts DEF RowsOK, LatestRunning, Latest
<1> QED
    BY <1>1, <1>2

\* close_run_attempt, as the execution-key store and the publisher call it.
LEMMA CloseKeepsRows ==
    ASSUME RowsOK, NEW i \in DOMAIN attempts,
           NEW st \in {"SUCCEEDED", "FAILED", "CANCELLED"}, NEW re \in Reason,
           CloseRunAttempt(i, st, re)
    PROVE  /\ RowsOK'
           /\ Fresh(i) => ~Published /\ (Published' <=> st = "SUCCEEDED" /\ ~run.cancel)
           /\ ~Fresh(i) => (Published' <=> Published)
<1>1. CASE Fresh(i)
    <2> DEFINE reason == IF run.cancel /\ st = "SUCCEEDED" THEN "CANCELLED_BY_REQUEST" ELSE re
    <2>1. Closes(i, EffectiveStatus(st), reason)
        BY <1>1 DEF CloseRunAttempt, Closes, Fresh
    <2>2. EffectiveStatus(st) \in {"SUCCEEDED", "FAILED", "CANCELLED"} /\ reason \in Reason
        BY DEF EffectiveStatus, Reason
    <2>3. EffectiveStatus(st) = "SUCCEEDED" <=> st = "SUCCEEDED" /\ ~run.cancel
        BY DEF EffectiveStatus
    <2> HIDE DEF reason
    <2> QED
        BY <1>1, <2>1, <2>2, <2>3, ClosesKeepsRows, OpenIsNewest DEF Fresh
<1>2. CASE ~Fresh(i)
    BY <1>2 DEF CloseRunAttempt, RowsOK, OnlyLatestRunning, RowShape, Published
<1> QED
    BY <1>1, <1>2

\* recover_expired_run_attempt closes the newest attempt or nothing.
LEMMA RecoverKeepsRows ==
    ASSUME RowsOK, NEW st \in {"FAILED", "CANCELLED"}, NEW re \in Reason,
           RecoverExpired(st, re)
    PROVE  RowsOK' /\ (Published' => Published)
<1>1. CASE LatestRunning /\ Latest.lease = 0
    <2>1. Len(attempts) \in DOMAIN attempts
        BY <1>1, RowFacts DEF RowsOK, LatestRunning
    <2>2. Closes(Len(attempts), st, re)
        BY <1>1 DEF RecoverExpired, Closes, LatestRunning, Latest
    <2> QED
        BY <2>1, <2>2, ClosesKeepsRows
<1>2. CASE ~(LatestRunning /\ Latest.lease = 0)
    BY <1>2 DEF RecoverExpired, RowsOK, OnlyLatestRunning, RowShape, Published
<1> QED
    BY <1>1, <1>2

\* A run row that becomes terminal keeps its type; only COMPLETED is a completion.
LEMMA MarkTerminalRow ==
    ASSUME run \in Run, NEW target \in Terminal
    PROVE  /\ MarkTerminal(target) \in Run
           /\ MarkTerminal(target).status = target
           /\ MarkTerminal(target).cancel <=> run.cancel \/ target = "CANCELLED"
           /\ run.del => MarkTerminal(target).del
           /\ run.hidden => MarkTerminal(target).hidden
<1>1. target \in RunStatus
    BY DEF RunStatus, RUN_STATUS_TRANSITIONS
<1> QED
    BY <1>1 DEF MarkTerminal, Run
--------------------------------------------------------------------------------
\* A freshly accepted run satisfies the invariant.
LEMMA InitIInv ==
    ASSUME Init PROVE IInv
<1>1. RunStatus = {"QUEUED", "RUNNING"} \cup Terminal
    BY DEF RunStatus, RUN_STATUS_TRANSITIONS
<1>2. attempts \in Seq(Attempt) /\ DOMAIN attempts = {}
    BY SMT DEF Init
<1> QED
    BY <1>1, <1>2, ConstantsAssumption, SMT DEF Init, IInv, TypeOK, OnlyLatestRunning,
       PublicationSerialized, RecoveryReadStable, RowShape, Run, Recovery, Published

\* Every step preserves the invariant.
LEMMA NextIInv ==
    ASSUME IInv, [Next]_vars PROVE IInv'
<1> USE IInvParts
<1>0. /\ RowsOK
      /\ run \in Run /\ recovery \in Recovery
      /\ run.status = "COMPLETED" <=> Published
      /\ run.status = "COMPLETED" => ~run.cancel
      /\ RecoveryReadStable
    BY DEF IInv, RowsOK, TypeOK, PublicationSerialized
<1>s. RunStatus = {"QUEUED", "RUNNING"} \cup Terminal
    BY DEF RunStatus, RUN_STATUS_TRANSITIONS
<1>r. \A s \in RunStatus : RUN_STATUS_TRANSITIONS[s] \subseteq RunStatus
                         /\ (s \in Terminal => RUN_STATUS_TRANSITIONS[s] = {})
    BY <1>s DEF RUN_STATUS_TRANSITIONS, Terminal
<1>1. CASE UNCHANGED vars
    BY <1>0, <1>1 DEF vars, IInv, TypeOK, OnlyLatestRunning, PublicationSerialized,
       RecoveryReadStable, RowShape, Published, LatestRunning, Latest
<1>2. CASE Tick
    <2>1. /\ attempts' \in Seq(Attempt) /\ Len(attempts') = Len(attempts)
          /\ DOMAIN attempts' = DOMAIN attempts
          /\ \A i \in DOMAIN attempts :
                /\ attempts'[i].status = attempts[i].status
                /\ attempts'[i].reason = attempts[i].reason
                /\ attempts[i].status # "RUNNING" => attempts'[i] = attempts[i]
        BY <1>0, <1>2, AgedRows, SMT DEF RowsOK, RowShape, Tick
    <2>2. entered' \subseteq DOMAIN attempts /\ age' \in 0..DispatchTimeout
        BY <1>0, <1>2, ConstantsAssumption, SMT DEF RowsOK, Tick
    <2>3. RowsOK' /\ (Published' <=> Published) /\ (LatestRunning' <=> LatestRunning)
        BY <1>0, <2>1, <2>2, LeasesKeepRows
    <2> QED
        BY <1>0, <1>2, <2>3 DEF Tick, RecoveryReadStable
<1>3. CASE ClaimRunAttempt
    <2>1. PICK left \in 0..Lease : attempts' = Append(Superseded,
                [status |-> "RUNNING", reason |-> "NONE", lease |-> left])
        BY <1>3 DEF ClaimRunAttempt
    <2> DEFINE row == [status |-> "RUNNING", reason |-> "NONE", lease |-> left]
    <2>2. row \in Attempt /\ row.status = "RUNNING" /\ row.reason = "NONE"
        BY DEF Attempt, WorkStatus, Reason
    <2>3. /\ Superseded \in Seq(Attempt) /\ Len(Superseded) = Len(attempts)
          /\ DOMAIN Superseded = DOMAIN attempts
          /\ \A j \in DOMAIN attempts : /\ Superseded[j].status \notin {"RUNNING", "SUCCEEDED"}
                                        /\ Superseded[j].lease = 0
        <3>1. CASE LatestRunning
            <4>1. ClosedRow("FAILED", "LEASE_EXPIRED") \in Attempt
                BY ConstantsAssumption, SMT DEF ClosedRow, Attempt, WorkStatus, Reason
            <4>2. /\ ClosedRow("FAILED", "LEASE_EXPIRED").status = "FAILED"
                  /\ ClosedRow("FAILED", "LEASE_EXPIRED").lease = 0
                BY DEF ClosedRow
            <4>3. Len(attempts) \in DOMAIN attempts /\ attempts[Len(attempts)].status = "RUNNING"
                BY <1>0, <3>1, RowFacts DEF RowsOK, LatestRunning, Latest
            <4>4. Superseded = [attempts EXCEPT ![Len(attempts)] =
                                    ClosedRow("FAILED", "LEASE_EXPIRED")]
                BY <3>1 DEF Superseded
            <4> QED
                BY <1>0, <4>1, <4>2, <4>3, <4>4, UpdateRow DEF RowsOK, OnlyLatestRunning, RowShape
        <3>2. CASE ~LatestRunning
            <4>1. Superseded = attempts
                BY <3>2 DEF Superseded
            <4>2. attempts # <<>> => attempts[Len(attempts)].status = "FAILED"
                BY <1>3, <3>2 DEF ClaimRunAttempt, Claimable, LatestRunning, Latest
            <4>3. \A j \in DOMAIN attempts : attempts # <<>>
                BY <1>0, RowFacts, SMT DEF RowsOK
            <4> QED
                BY <1>0, <4>1, <4>2, <4>3 DEF RowsOK, OnlyLatestRunning, RowShape
        <3> QED
            BY <3>1, <3>2
    <2> HIDE DEF row
    <2>4. attempts' = Append(Superseded, row)
        BY <2>1 DEF row
    <2>5. /\ attempts' \in Seq(Attempt) /\ Len(attempts') = Len(attempts) + 1
          /\ DOMAIN attempts' = 1..(Len(attempts) + 1)
          /\ \A j \in DOMAIN attempts : /\ attempts'[j].status \notin {"RUNNING", "SUCCEEDED"}
                                        /\ attempts'[j].lease = 0
          /\ attempts'[Len(attempts) + 1] = row
        BY <2>2, <2>3, <2>4, InsertRow, SMT
    <2>6. DOMAIN attempts = 1..Len(attempts) /\ Len(attempts) \in Nat
        BY <1>0, RowFacts DEF RowsOK
    <2>7. entered' \subseteq DOMAIN attempts' /\ age' \in 0..DispatchTimeout
        BY <1>0, <1>3, <2>5, <2>6, ConstantsAssumption, SMT DEF RowsOK, ClaimRunAttempt
    <2>8. RowsOK' /\ ~Published'
        BY <2>2, <2>5, <2>6, <2>7, SMT DEF RowsOK, OnlyLatestRunning, RowShape, Published
    <2>9. /\ run' \in Run /\ run'.status = "RUNNING" /\ recovery' = recovery
          /\ ~recovery.busy
        BY <1>0, <1>3, <1>s DEF ClaimRunAttempt, Run, Unlocked
    <2> QED
        BY <1>0, <2>8, <2>9 DEF RecoveryReadStable
<1>4. ASSUME NEW i \in DOMAIN attempts, Enter(i) PROVE IInv'
    BY <1>0, <1>4 DEF Enter, RowsOK, OnlyLatestRunning, RowShape, Published,
       RecoveryReadStable, LatestRunning, Latest
<1>5. ASSUME NEW i \in DOMAIN attempts, HeartbeatRunAttempt(i) PROVE IInv'
    <2>1. PICK left \in IF i \in entered THEN attempts[i].lease..Lease ELSE {Lease} :
              attempts' = [attempts EXCEPT ![i].lease = left]
        BY <1>5 DEF HeartbeatRunAttempt
    <2>0. left \in 0..Lease
        <3>1. attempts[i].lease \in 0..Lease
            BY <1>0, RowFacts DEF RowsOK, Attempt
        <3> QED
            BY <3>1, ConstantsAssumption, SMT
    <2> DEFINE row == [attempts[i] EXCEPT !.lease = left]
    <2>2. /\ row \in Attempt /\ row.status = attempts[i].status
          /\ row.reason = attempts[i].reason
        <3>1. attempts[i] \in Attempt
            BY <1>0, RowFacts DEF RowsOK
        <3> QED
            BY <3>1, <2>0 DEF Attempt
    <2>3. attempts' = [attempts EXCEPT ![i] = row]
        BY <2>1
    <2> HIDE DEF row
    <2>4. /\ attempts' \in Seq(Attempt) /\ Len(attempts') = Len(attempts)
          /\ DOMAIN attempts' = DOMAIN attempts
          /\ \A j \in DOMAIN attempts :
                /\ attempts'[j].status = attempts[j].status
                /\ attempts'[j].reason = attempts[j].reason
                /\ attempts[j].status # "RUNNING" => attempts'[j] = attempts[j]
        BY <1>0, <1>5, <2>2, <2>3, UpdateRow DEF RowsOK, HeartbeatRunAttempt, Fresh
    <2>5. entered' \subseteq DOMAIN attempts /\ age' \in 0..DispatchTimeout
        BY <1>0, <1>5 DEF RowsOK, HeartbeatRunAttempt
    <2>6. RowsOK' /\ (Published' <=> Published) /\ (LatestRunning' <=> LatestRunning)
        BY <1>0, <2>4, <2>5, LeasesKeepRows
    <2> QED
        BY <1>0, <1>5, <2>6 DEF HeartbeatRunAttempt, RecoveryReadStable
<1>6. ASSUME NEW i \in DOMAIN attempts, Release(i) PROVE IInv'
    <2>1. RowsOK' /\ (Published' => Published)
        BY <1>0, <1>6, CloseKeepsRows DEF Release, Reason
    <2>2. Fresh(i) => ~Published
        BY <1>0, OpenIsNewest DEF Fresh
    <2>3. ~Fresh(i) => (Published' <=> Published)
        BY <1>0, <1>6, CloseKeepsRows DEF Release, Reason
    <2>4. /\ run' \in Run /\ run'.cancel = run.cancel /\ recovery' = recovery /\ ~recovery.busy
          /\ run'.status = "COMPLETED" <=> run.status = "COMPLETED"
        BY <1>0, <1>6, <1>s DEF Release, CloseAccepted, ClosedRun, Unlocked, Run
    <2> QED
        BY <1>0, <2>1, <2>2, <2>3, <2>4 DEF RecoveryReadStable
<1>7. ASSUME NEW i \in DOMAIN attempts, NEW st \in {"FAILED", "CANCELLED"}, Finish(i, st)
      PROVE  IInv'
    <2>1. /\ RowsOK'
          /\ Fresh(i) => ~Published /\ ~Published'
          /\ ~Fresh(i) => (Published' <=> Published)
        BY <1>0, <1>7, CloseKeepsRows DEF Finish, Reason
    <2>2. /\ run.status \in Terminal => run' = run
          /\ run.status \notin Terminal => run' = MarkTerminal(st)
          /\ recovery' = recovery /\ ~recovery.busy
        BY <1>0, <1>7 DEF Finish, CloseAccepted, ClosedRun, Unlocked, Terminal
    <2>3. /\ run' \in Run
          /\ run'.status = "COMPLETED" <=> run.status = "COMPLETED"
          /\ run'.status = "COMPLETED" => ~run'.cancel
        BY <1>0, <2>2, MarkTerminalRow DEF Terminal
    <2> QED
        BY <1>0, <2>1, <2>2, <2>3 DEF RecoveryReadStable
<1>8. ASSUME NEW i \in DOMAIN attempts, run.status = "COMPLETED", Finish(i, "SUCCEEDED")
      PROVE  IInv'
    <2>1. ~Fresh(i)
        BY <1>0, <1>8, OpenIsNewest DEF Fresh
    <2>2. RowsOK' /\ (Published' <=> Published)
        BY <1>0, <1>8, <2>1, CloseKeepsRows DEF Finish, Reason
    <2>3. run' = run /\ recovery' = recovery /\ ~recovery.busy
        BY <1>8 DEF Finish, CloseAccepted, ClosedRun, Unlocked
    <2> QED
        BY <1>0, <2>2, <2>3 DEF RecoveryReadStable
<1>9. ASSUME NEW i \in DOMAIN attempts, Publish(i) PROVE IInv'
    <2>1. RowsOK' /\ Published'
        BY <1>0, <1>9, CloseKeepsRows DEF Publish, Reason
    <2>2. /\ run' \in Run /\ run'.status = "COMPLETED" /\ ~run'.cancel
          /\ recovery' = recovery /\ ~recovery.busy
        BY <1>0, <1>9, MarkTerminalRow DEF Publish, Unlocked, Terminal
    <2> QED
        BY <1>0, <2>1, <2>2 DEF RecoveryReadStable
<1>10. ASSUME NEW i \in DOMAIN attempts, PublishCancelled(i) PROVE IInv'
    <2>1. /\ RowsOK'
          /\ Fresh(i) => ~Published /\ ~Published'
          /\ ~Fresh(i) => (Published' <=> Published)
        BY <1>0, <1>10, CloseKeepsRows DEF PublishCancelled, Reason
    <2>2. /\ run' \in Run /\ run'.cancel = run.cancel /\ recovery' = recovery /\ ~recovery.busy
          /\ run'.status = "COMPLETED" <=> run.status = "COMPLETED"
        BY <1>0, <1>10, <1>s DEF PublishCancelled, CloseAccepted, ClosedRun, Unlocked, Run, Terminal
    <2> QED
        BY <1>0, <2>1, <2>2 DEF RecoveryReadStable
<1>11. CASE RecordRunFailure
    <2>1. recovery' = recovery /\ ~recovery.busy
        BY <1>11 DEF RecordRunFailure, Unlocked
    <2>2. CASE run.status \in Terminal \/ LatestLive
        BY <1>0, <1>11, <2>1, <2>2 DEF RecordRunFailure, RowsOK, OnlyLatestRunning,
           RowShape, Published, RecoveryReadStable
    <2>3. CASE ~(run.status \in Terminal \/ LatestLive)
        <3>1. PICK st \in {"FAILED", "CANCELLED"}, re \in Reason :
                  RecoverExpired(st, re) /\ run' = MarkTerminal(st)
            BY <1>11, <2>3 DEF RecordRunFailure, Reason
        <3>2. RowsOK' /\ ~Published'
            BY <1>0, <2>3, <3>1, RecoverKeepsRows DEF Terminal
        <3>3. run' \in Run /\ run'.status # "COMPLETED"
            BY <1>0, <3>1, MarkTerminalRow DEF Terminal
        <3> QED
            BY <2>1, <3>2, <3>3, <1>0 DEF RecoveryReadStable
    <2> QED
        BY <2>2, <2>3
<1>12. CASE RecoverSelect
    <2>1. recovery' \in Recovery /\ recovery'.busy /\ (recovery'.running <=> LatestRunning)
        BY <1>12 DEF RecoverSelect, Recovery, LatestRunning
    <2> QED
        BY <1>0, <1>12, <2>1 DEF RecoverSelect, RowsOK, OnlyLatestRunning, RowShape,
           Published, RecoveryReadStable, LatestRunning, Latest
<1>13. CASE RecoverCandidate
    <2>1. recovery' \in Recovery /\ ~recovery'.busy
        BY <1>13 DEF RecoverCandidate, Recovery
    <2>2. run.status \notin Terminal /\ ~Published
        BY <1>0, <1>13 DEF RecoverCandidate, RecoveryReadStable, Terminal
    <2>3. FailRun \in Run /\ FailRun.status = "FAILED"
        BY <1>0, <1>s DEF FailRun, Run, Terminal
    <2>4. /\ MarkTerminal("CANCELLED") \in Run
          /\ MarkTerminal("CANCELLED").status = "CANCELLED"
        BY <1>0, MarkTerminalRow DEF Terminal
    <2>5. /\ [run EXCEPT !.status = "QUEUED"] \in Run
          /\ [run EXCEPT !.status = "QUEUED"].status = "QUEUED"
        BY <1>0, <1>s DEF Run
    <2>6. \/ UNCHANGED <<run, attempts, entered, age>>
          \/ run' = FailRun /\ UNCHANGED <<attempts, entered, age>>
          \/ RecoverExpired("CANCELLED", "CANCELLED_BY_REQUEST") /\ run' = MarkTerminal("CANCELLED")
          \/ RecoverExpired("FAILED", "MAX_ATTEMPTS_EXHAUSTED") /\ run' = FailRun
          \/ /\ RecoverExpired("FAILED", "LEASE_EXPIRED")
             /\ run' \in {run, [run EXCEPT !.status = "QUEUED"]}
        BY <1>13 DEF RecoverCandidate, RecoverTerminal
    <2>7. run' \in Run /\ run'.status # "COMPLETED"
        BY <1>0, <2>2, <2>3, <2>4, <2>5, <2>6 DEF Terminal
    <2>8. RowsOK' /\ ~Published'
        <3>1. CASE UNCHANGED <<attempts, entered, age>>
            BY <1>0, <2>2, <3>1 DEF RowsOK, OnlyLatestRunning, RowShape, Published
        <3>2. CASE \E st \in {"FAILED", "CANCELLED"}, re \in Reason : RecoverExpired(st, re)
            BY <1>0, <2>2, <3>2, RecoverKeepsRows
        <3> QED
            BY <2>6, <3>1, <3>2 DEF Reason
    <2> QED
        BY <2>1, <2>7, <2>8 DEF RecoveryReadStable
<1>14. CASE RequestCancellation
    <2>1. /\ run' \in Run /\ run'.status # "COMPLETED" /\ run.status # "COMPLETED"
          /\ recovery' = recovery /\ ~recovery.busy
        BY <1>0, <1>14, <1>s DEF RequestCancellation, Unlocked, Run, Terminal
    <2> QED
        BY <1>0, <1>14, <2>1 DEF RequestCancellation, RowsOK, OnlyLatestRunning,
           RowShape, Published, RecoveryReadStable
<1>15. CASE RequestDeletion
    <2>1. /\ run' \in Run
          /\ run'.status = "COMPLETED" <=> run.status = "COMPLETED"
          /\ run'.status = "COMPLETED" => ~run'.cancel
          /\ recovery' = recovery /\ ~recovery.busy
        BY <1>0, <1>15, <1>s DEF RequestDeletion, Unlocked, Run, Terminal
    <2> QED
        BY <1>0, <1>15, <2>1 DEF RequestDeletion, RowsOK, OnlyLatestRunning,
           RowShape, Published, RecoveryReadStable
<1>16. ASSUME NEW st \in RunStatus \ {"QUEUED", "COMPLETED"}, IngestResult(st) PROVE IInv'
    <2>1. recovery' = recovery /\ ~recovery.busy
        BY <1>16 DEF IngestResult, Unlocked
    <2>2. run.status # "COMPLETED"
        BY <1>0, <1>16, <1>r DEF IngestResult, Run, Terminal
    <2>3. run' \in Run /\ run'.status # "COMPLETED"
        BY <1>0, <1>16, MarkTerminalRow DEF IngestResult, Run
    <2>4. RowsOK' /\ (Published' <=> Published)
        BY <1>0, <1>16, ConstantsAssumption, SMT DEF IngestResult, RowsOK, OnlyLatestRunning,
           RowShape, Published
    <2> QED
        BY <1>0, <2>1, <2>2, <2>3, <2>4 DEF RecoveryReadStable
<1>17. CASE RecoverRollback
    BY <1>0, <1>17 DEF RecoverRollback, Recovery, RowsOK, OnlyLatestRunning, RowShape,
       Published, RecoveryReadStable
<1> QED
    BY <1>1, <1>2, <1>3, <1>4, <1>5, <1>6, <1>7, <1>8, <1>9, <1>10, <1>11, <1>12, <1>13,
       <1>14, <1>15, <1>16, <1>17 DEF Next
--------------------------------------------------------------------------------
\* IInv holds in every reachable state.
THEOREM Invariance == Spec => []IInv
<1>1. Init => IInv
    BY InitIInv
<1>2. IInv /\ [Next]_vars => IInv'
    BY NextIInv
<1> QED
    BY <1>1, <1>2, PTL DEF Spec

\* The rows keep their types for every lease length, budget and number of claims.
THEOREM TypeCorrect == Spec => []TypeOK
<1>1. IInv => TypeOK
    BY DEF IInv
<1> QED
    BY <1>1, Invariance, PTL

\* At most one attempt is open, and it is the newest: the fence that claim_run_attempt,
\* close_run_attempt and recover_expired_run_attempt maintain together.
THEOREM Fencing == Spec => []OnlyLatestRunning
<1>1. IInv => OnlyLatestRunning
    BY DEF IInv
<1> QED
    BY <1>1, Invariance, PTL

\* Exactly one terminal serialization wins: DurableResultPublisher's promise.
THEOREM PublicationIsSerialized == Spec => []PublicationSerialized
<1>1. IInv => PublicationSerialized
    BY DEF IInv
<1> QED
    BY <1>1, Invariance, PTL

\* What a recovery pass read stays true until it acts, but for a renewed lease.
THEOREM RecoveryIsStable == Spec => []RecoveryReadStable
<1>1. IInv => RecoveryReadStable
    BY DEF IInv
<1> QED
    BY <1>1, Invariance, PTL
--------------------------------------------------------------------------------
(* What one step does to the attempt rows.                                 *)

\* Closed rows stay as they are, and a live one is not closed as expired or exhausted.
RowStep ==
    \A j \in DOMAIN attempts :
        /\ j \in DOMAIN attempts'
        /\ attempts[j].status # "RUNNING" => attempts'[j] = attempts[j]
        /\ attempts[j].status = "RUNNING" /\ attempts[j].lease > 0
             => attempts'[j].reason \notin {"LEASE_EXPIRED", "MAX_ATTEMPTS_EXHAUSTED"}

\* A close may write any reason on an expired attempt, its own on a live one.
LEMMA ClosesRowStep ==
    ASSUME IInv, NEW i \in DOMAIN attempts, NEW st \in WorkStatus, NEW re \in Reason,
           Closes(i, st, re),
           attempts[i].lease = 0 \/ re \notin {"LEASE_EXPIRED", "MAX_ATTEMPTS_EXHAUSTED"}
    PROVE  RowStep
<1>1. ClosedRow(st, re) \in Attempt /\ ClosedRow(st, re).reason = re
    BY ConstantsAssumption, SMT DEF ClosedRow, Attempt
<1>2. /\ DOMAIN attempts' = DOMAIN attempts
      /\ \A j \in DOMAIN attempts :
            attempts'[j] = IF j = i THEN ClosedRow(st, re) ELSE attempts[j]
    BY <1>1, UpdateRow DEF Closes, IInv, TypeOK
<1>3. \A j \in DOMAIN attempts : attempts[j].lease \in 0..Lease
    BY RowFacts DEF IInv, TypeOK, Attempt
<1> QED
    BY <1>1, <1>2, <1>3, ConstantsAssumption, SMT DEF RowStep, Closes, IInv, RowShape

\* A step that leaves the rows alone.
LEMMA SameRowStep ==
    ASSUME IInv, attempts' = attempts
    PROVE  RowStep
BY DEF RowStep, IInv, RowShape

\* close_run_attempt leaves closed rows alone and evicts nobody.
LEMMA CloseRowStep ==
    ASSUME IInv, NEW i \in DOMAIN attempts,
           NEW st \in {"SUCCEEDED", "FAILED", "CANCELLED"},
           NEW re \in {"SUCCEEDED", "RETRY_RELEASED", "REPORTED"},
           CloseRunAttempt(i, st, re)
    PROVE  RowStep
<1> DEFINE reason == IF run.cancel /\ st = "SUCCEEDED" THEN "CANCELLED_BY_REQUEST" ELSE re
<1>1. CASE Fresh(i)
    <2>1. Closes(i, EffectiveStatus(st), reason)
        BY <1>1 DEF CloseRunAttempt, Closes, Fresh
    <2>2. /\ EffectiveStatus(st) \in WorkStatus
          /\ reason \in Reason \ {"LEASE_EXPIRED", "MAX_ATTEMPTS_EXHAUSTED"}
        BY DEF EffectiveStatus, Reason, WorkStatus
    <2> HIDE DEF reason
    <2> QED
        BY <2>1, <2>2, ClosesRowStep
<1>2. CASE ~Fresh(i)
    BY <1>2, SameRowStep DEF CloseRunAttempt
<1> QED
    BY <1>1, <1>2

\* recover_expired_run_attempt leaves closed rows alone and evicts nobody.
LEMMA RecoverRowStep ==
    ASSUME IInv, NEW st \in {"FAILED", "CANCELLED"}, NEW re \in Reason,
           RecoverExpired(st, re)
    PROVE  RowStep
<1>1. CASE LatestRunning /\ Latest.lease = 0
    <2>1. Len(attempts) \in DOMAIN attempts
        BY <1>1, RowFacts DEF IInv, TypeOK, LatestRunning
    <2>2. Closes(Len(attempts), st, re) /\ attempts[Len(attempts)].lease = 0
        BY <1>1 DEF RecoverExpired, Closes, LatestRunning, Latest
    <2> QED
        BY <2>1, <2>2, ClosesRowStep DEF WorkStatus
<1>2. CASE ~(LatestRunning /\ Latest.lease = 0)
    BY <1>2, SameRowStep DEF RecoverExpired
<1> QED
    BY <1>1, <1>2

\* Every step of the specification is such a step.
LEMMA NextRowStep ==
    ASSUME IInv, [Next]_vars PROVE RowStep
<1>0. attempts \in Seq(Attempt) /\ DOMAIN attempts = 1..Len(attempts) /\ Len(attempts) \in Nat
    BY RowFacts DEF IInv, TypeOK
<1>1. CASE attempts' = attempts
    BY <1>1, SameRowStep
<1>2. CASE Tick
    <2>1. /\ DOMAIN attempts' = DOMAIN attempts
          /\ \A j \in DOMAIN attempts : /\ attempts'[j].reason = attempts[j].reason
                                        /\ attempts[j].lease = 0 => attempts'[j] = attempts[j]
        BY <1>0, <1>2, AgedRows DEF Tick
    <2> QED
        BY <2>1 DEF RowStep, IInv, RowShape
<1>3. CASE ClaimRunAttempt
    <2>1. PICK left \in 0..Lease : attempts' = Append(Superseded,
                [status |-> "RUNNING", reason |-> "NONE", lease |-> left])
        BY <1>3 DEF ClaimRunAttempt
    <2> DEFINE row == [status |-> "RUNNING", reason |-> "NONE", lease |-> left]
    <2>2. row \in Attempt
        BY DEF Attempt, WorkStatus, Reason
    <2> HIDE DEF row
    <2>3. CASE LatestRunning
        <3>1. Latest.lease = 0 /\ Len(attempts) \in DOMAIN attempts
            BY <1>0, <1>3, <2>3, RowFacts DEF ClaimRunAttempt, Claimable, LatestRunning
        <3>2. ClosedRow("FAILED", "LEASE_EXPIRED") \in Attempt
            BY ConstantsAssumption, SMT DEF ClosedRow, Attempt, WorkStatus, Reason
        <3>3. /\ Superseded \in Seq(Attempt) /\ DOMAIN Superseded = DOMAIN attempts
              /\ \A j \in DOMAIN attempts : j # Len(attempts) => Superseded[j] = attempts[j]
            BY <1>0, <2>3, <3>1, <3>2, UpdateRow DEF Superseded
        <3>4. \A j \in DOMAIN attempts : /\ j \in DOMAIN attempts'
                                         /\ j # Len(attempts) => attempts'[j] = attempts[j]
            BY <1>0, <2>1, <2>2, <3>3, InsertRow, RowFacts, SMT DEF row
        <3> QED
            BY <1>0, <2>3, <3>1, <3>4, SMT DEF RowStep, IInv, RowShape, LatestRunning, Latest
    <2>4. CASE ~LatestRunning
        <3>1. Superseded = attempts
            BY <2>4 DEF Superseded
        <3>2. \A j \in DOMAIN attempts : j \in DOMAIN attempts' /\ attempts'[j] = attempts[j]
            BY <1>0, <2>1, <2>2, <3>1, InsertRow, SMT DEF row
        <3> QED
            BY <3>2 DEF RowStep, IInv, RowShape
    <2> QED
        BY <2>3, <2>4
<1>4. ASSUME NEW i \in DOMAIN attempts, HeartbeatRunAttempt(i) PROVE RowStep
    <2>1. PICK left : attempts' = [attempts EXCEPT ![i].lease = left]
        BY <1>4 DEF HeartbeatRunAttempt
    <2>2. attempts[i] \in Attempt /\ attempts[i].status = "RUNNING"
        BY <1>0, <1>4, RowFacts DEF HeartbeatRunAttempt, Fresh
    <2>3. [attempts[i] EXCEPT !.lease = left].reason = attempts[i].reason
        BY <2>2 DEF Attempt
    <2>4. /\ DOMAIN attempts' = DOMAIN attempts
          /\ attempts'[i].reason = attempts[i].reason
          /\ \A j \in DOMAIN attempts : j # i => attempts'[j] = attempts[j]
        BY <1>0, <2>1, <2>3
    <2> QED
        BY <2>2, <2>4 DEF RowStep, IInv, RowShape
<1>5. ASSUME NEW i \in DOMAIN attempts,
             \/ Release(i) \/ Publish(i) \/ PublishCancelled(i)
             \/ \E st \in {"SUCCEEDED", "FAILED", "CANCELLED"} : Finish(i, st)
      PROVE  RowStep
    <2>1. \E st \in {"SUCCEEDED", "FAILED", "CANCELLED"},
             re \in {"SUCCEEDED", "RETRY_RELEASED", "REPORTED"} : CloseRunAttempt(i, st, re)
        BY <1>5 DEF Release, Publish, PublishCancelled, Finish
    <2> QED
        BY <2>1, CloseRowStep
<1>6. CASE RecordRunFailure \/ RecoverCandidate
    <2>1. \/ attempts' = attempts
          \/ \E st \in {"FAILED", "CANCELLED"}, re \in Reason : RecoverExpired(st, re)
        <3>1. CASE RecordRunFailure
            BY <3>1 DEF RecordRunFailure, Reason
        <3>2. CASE RecoverCandidate
            BY <3>2 DEF RecoverCandidate, RecoverTerminal, Reason
        <3> QED
            BY <1>6, <3>1, <3>2
    <2> QED
        BY <2>1, RecoverRowStep, SameRowStep
<1>7. Next => \/ attempts' = attempts \/ Tick \/ ClaimRunAttempt
              \/ \E i \in DOMAIN attempts :
                    \/ HeartbeatRunAttempt(i)
                    \/ Release(i) \/ Publish(i) \/ PublishCancelled(i)
                    \/ \E st \in {"SUCCEEDED", "FAILED", "CANCELLED"} : Finish(i, st)
              \/ RecordRunFailure \/ RecoverCandidate
    BY DEF Next, Enter, RecoverSelect, RecoverRollback, RequestCancellation, RequestDeletion,
       IngestResult
<1> QED
    BY <1>1, <1>2, <1>3, <1>4, <1>5, <1>6, <1>7 DEF vars

\* Attempt rows are evidence: once closed, no transaction rewrites them.
THEOREM EvidenceIsFrozen == Spec => ClosedAttemptsFrozen
<1>1. IInv /\ [Next]_vars =>
          [\A i \in DOMAIN attempts :
              attempts[i].status # "RUNNING" => i \in DOMAIN attempts' /\ attempts'[i] = attempts[i]]_vars
    BY NextRowStep DEF RowStep
<1> QED
    BY <1>1, Invariance, PTL DEF Spec, ClosedAttemptsFrozen

\* No transaction closes an attempt with a live lease as expired or exhausted, however
\* heartbeats and recovery passes interleave.
THEOREM LiveLeaseIsRespected == Spec => NoLiveEviction
<1>1. IInv /\ [Next]_vars =>
          [\A i \in DOMAIN attempts :
              attempts[i].status = "RUNNING" /\ attempts[i].lease > 0
                => attempts'[i].reason \notin {"LEASE_EXPIRED", "MAX_ATTEMPTS_EXHAUSTED"}]_vars
    BY NextRowStep DEF RowStep
<1> QED
    BY <1>1, Invariance, PTL DEF Spec, NoLiveEviction
--------------------------------------------------------------------------------
(* What one step does to the run row.                                      *)

RunStep ==
    /\ run.status \in Terminal => run'.status = run.status
    /\ run.cancel => run'.cancel
    /\ run.del => run'.del
    /\ run.hidden => run'.hidden

\* Moving the status of a non-terminal run, and nothing else.
LEMMA StatusRunStep ==
    ASSUME run \in Run, run.status \notin Terminal, NEW st,
           run' = [run EXCEPT !.status = st]
    PROVE  RunStep
BY DEF Run, RunStep

\* A run row is written only as one of these, and only a non-terminal one moves.
LEMMA NextRunStep ==
    ASSUME IInv, [Next]_vars PROVE RunStep
<1>0. run \in Run
    BY DEF IInv, TypeOK
<1>1. CASE run' = run
    BY <1>1 DEF RunStep
<1>2. ASSUME run.status \notin Terminal, NEW st, run' = [run EXCEPT !.status = st]
      PROVE  RunStep
    BY <1>0, <1>2, StatusRunStep
<1>3. ASSUME run.status \notin Terminal, NEW st \in Terminal, run' = MarkTerminal(st)
      PROVE  RunStep
    BY <1>0, <1>3, MarkTerminalRow DEF RunStep
<1>4. ASSUME NEW i \in DOMAIN attempts, NEW st, NEW requeue \in BOOLEAN,
             run' = ClosedRun(i, st, requeue)
      PROVE  RunStep
    <2>1. \/ run' = run
          \/ run.status = "RUNNING" /\ run' = [run EXCEPT !.status = "CANCELLED"]
          \/ run.status = "RUNNING" /\ run' = [run EXCEPT !.status = "QUEUED"]
        BY <1>4 DEF ClosedRun
    <2> QED
        BY <1>1, <1>2, <2>1 DEF Terminal
<1>5. ASSUME NEW i \in DOMAIN attempts,
             \/ Release(i) \/ Publish(i) \/ PublishCancelled(i)
             \/ \E st \in {"SUCCEEDED", "FAILED", "CANCELLED"} : Finish(i, st)
      PROVE  RunStep
    <2>1. CASE Release(i)
        BY <1>4, <2>1 DEF Release
    <2>2. CASE Publish(i)
        BY <1>3, <2>2 DEF Publish, Terminal
    <2>3. CASE PublishCancelled(i)
        BY <1>4, <2>3 DEF PublishCancelled
    <2>4. ASSUME NEW st \in {"SUCCEEDED", "FAILED", "CANCELLED"}, Finish(i, st) PROVE RunStep
        <3>1. CASE st # "SUCCEEDED" /\ run.status \notin Terminal
            BY <1>3, <2>4, <3>1 DEF Finish, Terminal
        <3>2. CASE ~(st # "SUCCEEDED" /\ run.status \notin Terminal)
            BY <1>4, <2>4, <3>2 DEF Finish
        <3> QED
            BY <3>1, <3>2
    <2> QED
        BY <1>5, <2>1, <2>2, <2>3, <2>4
<1>6. CASE RecordRunFailure
    BY <1>1, <1>3, <1>6 DEF RecordRunFailure, Terminal
<1>7. CASE RecoverCandidate
    <2>1. run.status \notin Terminal
        BY <1>7 DEF RecoverCandidate, IInv, RecoveryReadStable
    <2>2. run' \in {run, FailRun, MarkTerminal("CANCELLED"), [run EXCEPT !.status = "QUEUED"]}
        BY <1>7 DEF RecoverCandidate, RecoverTerminal
    <2> QED
        BY <1>1, <1>2, <1>3, <2>1, <2>2 DEF FailRun, Terminal
<1>8. CASE ClaimRunAttempt
    BY <1>2, <1>8 DEF ClaimRunAttempt, Claimable
<1>9. CASE RequestCancellation
    BY <1>0, <1>9 DEF RequestCancellation, RunStep, Run
<1>10. CASE RequestDeletion
    BY <1>0, <1>10 DEF RequestDeletion, RunStep, Run, Terminal
<1>11. ASSUME NEW st \in RunStatus, IngestResult(st) PROVE RunStep
    <2>1. run.status \notin Terminal
        BY <1>0, <1>11 DEF IngestResult, RUN_STATUS_TRANSITIONS, RunStatus, Run, Terminal
    <2> QED
        BY <1>2, <1>3, <1>11, <2>1 DEF IngestResult
<1> QED
    BY <1>1, <1>5, <1>6, <1>7, <1>8, <1>9, <1>10, <1>11
    DEF vars, Next, Tick, Enter, HeartbeatRunAttempt, RecoverSelect, RecoverRollback

\* A run never leaves a terminal status, whoever writes it: worker, recovery pass,
\* publication, owner or result event.
THEOREM TerminalStaysTerminal == Spec => TerminalIsFinal
<1>1. IInv /\ [Next]_vars =>
          [/\ run.status \in Terminal => run'.status = run.status
           /\ run.cancel => run'.cancel
           /\ run.del => run'.del
           /\ run.hidden => run'.hidden]_vars
    BY NextRunStep DEF RunStep
<1> QED
    BY <1>1, Invariance, PTL DEF Spec, TerminalIsFinal
--------------------------------------------------------------------------------
(* The workers that use them: BacktestWorker!WSpec *)

\* A closed attempt lets another one follow, or its run is decided in the same commit.
\* A cancellation leaves no run queued.
RowsDecide ==
    /\ \A i \in DOMAIN attempts :
        \/ attempts[i].status \in {"RUNNING", "SUCCEEDED"}
        \/ attempts[i].status = "FAILED" /\ attempts[i].reason \in {"LEASE_EXPIRED", "RETRY_RELEASED"}
        \/ run.status \in Terminal
    /\ run.cancel => run.status # "QUEUED"

\* The deliveries that may still claim; with the attempts, no more than were received.
Pending == {w \in Workers : wk[w].pc = "received" /\ wk[w].rc <= MaxAttempts}
Budget ==
    /\ Len(attempts) + Cardinality(Pending) <= msg.count
    /\ Len(attempts) + Cardinality(Pending) <= MaxAttempts

Engaged == {"claimed", "replay", "publish", "report", "finish"}
Reported == {"SUCCEEDED", "CANCELLED", "FAILED", "UNAVAILABLE"}

\* The run needs no further delivery: it is terminal, or dead-lettered and to be cancelled.
Settled == run.status \in Terminal \/ (dlq /\ run.cancel)

\* What a worker relies on where it stands.
WorkerOK(w) ==
    /\ wk[w].pc \in Engaged => wk[w].att # 0
    /\ wk[w].att \in 0..Len(attempts)
    /\ wk[w].pc = "report" => wk[w].out \in Reported
    /\ wk[w].out = "SUCCEEDED" => run.status = "COMPLETED"
    /\ wk[w].pc = "deadletter" => run.status \in Terminal \/ run.cancel
    /\ wk[w].pc = "delete" => Settled

OneHolder == \A v, w \in Workers : v # w /\ wk[w].att # 0 => wk[v].att # wk[w].att

\* The inductive invariant.  That a claim is one of MaxClaims needs Budget; that a finish
\* as SUCCEEDED is one of RunAttempts needs SuccessIsPublished, which rests on the
\* finality of terminal runs; that a message leaves only a settled run needs RowsDecide,
\* since a redelivery is judged by the newest attempt and not by the run.
WInv ==
    /\ IInv /\ RowsDecide
    /\ wk \in [Workers -> Worker] /\ msg \in Message /\ dlq \in BOOLEAN /\ crashes \in 0..MaxCrashes
    /\ Budget
    /\ \A w \in Workers : WorkerOK(w)
    /\ OneHolder
    /\ ~msg.there \/ dlq => Settled
--------------------------------------------------------------------------------
(* The steps of RunAttempts that do not claim.                             *)

Unclaimed ==
    \/ UNCHANGED vars
    \/ Tick
    \/ \E i \in DOMAIN attempts :
          \/ Enter(i)
          \/ HeartbeatRunAttempt(i)
          \/ Release(i)
          \/ Finish(i, "FAILED")
          \/ Finish(i, "CANCELLED")
          \/ run.status = "COMPLETED" /\ Finish(i, "SUCCEEDED")
          \/ Publish(i)
          \/ PublishCancelled(i)
    \/ RecordRunFailure
    \/ RecoverSelect
    \/ RecoverCandidate
    \/ RecoverRollback
    \/ RequestCancellation
    \/ RequestDeletion
    \/ \E status \in RunStatus \ {"QUEUED", "COMPLETED"} : IngestResult(status)

\* They are steps of RunAttempts.
LEMMA UnclaimedNext ==
    ASSUME Unclaimed PROVE [Next]_vars
BY DEF Unclaimed, Next

\* A row, closed or not by close_run_attempt.
LEMMA CloseFacts ==
    ASSUME attempts \in Seq(Attempt), NEW i \in DOMAIN attempts,
           NEW st \in {"SUCCEEDED", "FAILED", "CANCELLED"}, NEW re \in Reason,
           CloseRunAttempt(i, st, re)
    PROVE  /\ Len(attempts') = Len(attempts) /\ DOMAIN attempts' = DOMAIN attempts
           /\ \A j \in DOMAIN attempts : j # i => attempts'[j] = attempts[j]
           /\ ~Fresh(i) => attempts'[i] = attempts[i]
           /\ Fresh(i) => /\ attempts'[i].status = EffectiveStatus(st)
                          /\ st # "SUCCEEDED" => attempts'[i].reason = re
<1>1. CASE ~Fresh(i)
    BY <1>1 DEF CloseRunAttempt
<1>2. CASE Fresh(i)
    <2> DEFINE reason == IF run.cancel /\ st = "SUCCEEDED" THEN "CANCELLED_BY_REQUEST" ELSE re
               row == ClosedRow(EffectiveStatus(st), reason)
    <2>1. row \in Attempt /\ row.status = EffectiveStatus(st) /\ row.reason = reason
        BY ConstantsAssumption, SMT DEF ClosedRow, Attempt, EffectiveStatus, WorkStatus, Reason
    <2>2. attempts' = [attempts EXCEPT ![i] = row]
        BY <1>2 DEF CloseRunAttempt
    <2>3. st # "SUCCEEDED" => reason = re
        OBVIOUS
    <2> HIDE DEF row
    <2> QED
        BY <1>2, <2>1, <2>2, <2>3, UpdateRow, SMT
<1> QED
    BY <1>1, <1>2

\* The newest row, closed or not by recover_expired_run_attempt.
LEMMA RecoverFacts ==
    ASSUME attempts \in Seq(Attempt), NEW st \in {"FAILED", "CANCELLED"}, NEW re \in Reason,
           RecoverExpired(st, re)
    PROVE  /\ Len(attempts') = Len(attempts) /\ DOMAIN attempts' = DOMAIN attempts
           /\ \A j \in DOMAIN attempts :
                \/ attempts'[j] = attempts[j]
                \/ attempts'[j].status = st /\ attempts'[j].reason = re
<1>1. CASE LatestRunning /\ Latest.lease = 0
    <2> DEFINE row == ClosedRow(st, re)
    <2>1. row \in Attempt /\ row.status = st /\ row.reason = re
        BY ConstantsAssumption, SMT DEF ClosedRow, Attempt, WorkStatus
    <2>2. Len(attempts) \in DOMAIN attempts /\ attempts' = [attempts EXCEPT ![Len(attempts)] = row]
        BY <1>1, RowFacts DEF RecoverExpired, LatestRunning
    <2> HIDE DEF row
    <2> QED
        BY <2>1, <2>2, UpdateRow, SMT
<1>2. CASE ~(LatestRunning /\ Latest.lease = 0)
    BY <1>2 DEF RecoverExpired
<1> QED
    BY <1>1, <1>2

\* They insert no row, and keep a closed attempt's run decided.
LEMMA UnclaimedRows ==
    ASSUME IInv, RowsDecide, Unclaimed
    PROVE  Len(attempts') = Len(attempts) /\ RowsDecide'
<1>0. attempts \in Seq(Attempt) /\ run \in Run /\ Len(attempts) \in Nat
    BY RowFacts DEF IInv, TypeOK
<1>s. RunStatus = {"QUEUED", "RUNNING"} \cup Terminal
    BY DEF RunStatus, RUN_STATUS_TRANSITIONS
<1>t. RunStep
    BY UnclaimedNext, NextRunStep
<1>1. CASE UNCHANGED vars
    BY <1>1 DEF vars, RowsDecide
<1>2. CASE Tick
    <2>1. /\ Len(attempts') = Len(attempts) /\ DOMAIN attempts' = DOMAIN attempts
          /\ \A j \in DOMAIN attempts : /\ attempts'[j].status = attempts[j].status
                                        /\ attempts'[j].reason = attempts[j].reason
        BY <1>0, <1>2, AgedRows, SMT DEF Tick
    <2> QED
        BY <1>2, <2>1 DEF Tick, RowsDecide
<1>3. ASSUME NEW i \in DOMAIN attempts, Enter(i)
      PROVE  Len(attempts') = Len(attempts) /\ RowsDecide'
    BY <1>3 DEF Enter, RowsDecide
<1>4. ASSUME NEW i \in DOMAIN attempts, HeartbeatRunAttempt(i)
      PROVE  Len(attempts') = Len(attempts) /\ RowsDecide'
    <2>1. PICK left : attempts' = [attempts EXCEPT ![i].lease = left]
        BY <1>4 DEF HeartbeatRunAttempt
    <2>2. Len(attempts') = Len(attempts) /\ DOMAIN attempts' = DOMAIN attempts
        BY <1>0, <2>1, RowFacts, SMT
    <2>3. \A j \in DOMAIN attempts : /\ attempts'[j].status = attempts[j].status
                                     /\ attempts'[j].reason = attempts[j].reason
        BY <1>0, <2>1, RowFacts DEF Attempt
    <2> QED
        BY <1>4, <2>2, <2>3 DEF HeartbeatRunAttempt, RowsDecide
<1>5. ASSUME NEW i \in DOMAIN attempts, Release(i)
      PROVE  Len(attempts') = Len(attempts) /\ RowsDecide'
    <2>1. /\ Len(attempts') = Len(attempts) /\ DOMAIN attempts' = DOMAIN attempts
          /\ \A j \in DOMAIN attempts :
                \/ attempts'[j] = attempts[j]
                \/ attempts'[j].status = "FAILED" /\ attempts'[j].reason = "RETRY_RELEASED"
        BY <1>0, <1>5, CloseFacts DEF Release, Reason, EffectiveStatus
    <2>2. run'.cancel = run.cancel /\ (run.cancel => run'.status = run.status)
        BY <1>0, <1>5 DEF Release, ClosedRun, Run
    <2> QED
        BY <1>t, <2>1, <2>2 DEF RowsDecide, RunStep
<1>6. ASSUME NEW i \in DOMAIN attempts, NEW st \in {"FAILED", "CANCELLED"}, Finish(i, st)
      PROVE  Len(attempts') = Len(attempts) /\ RowsDecide'
    <2>1. Len(attempts') = Len(attempts)
        BY <1>0, <1>6, CloseFacts DEF Finish, Reason
    <2>2. run'.status \in Terminal
        BY <1>0, <1>6, <1>t, MarkTerminalRow DEF Finish, RunStep, Terminal
    <2> QED
        BY <2>1, <2>2 DEF RowsDecide, Terminal
<1>7. ASSUME NEW i \in DOMAIN attempts, run.status = "COMPLETED" /\ Finish(i, "SUCCEEDED")
      PROVE  Len(attempts') = Len(attempts) /\ RowsDecide'
    <2>1. Len(attempts') = Len(attempts)
        BY <1>0, <1>7, CloseFacts DEF Finish, Reason
    <2>2. run'.status = "COMPLETED"
        BY <1>7, <1>t DEF RunStep, Terminal
    <2> QED
        BY <2>1, <2>2 DEF RowsDecide, Terminal
<1>8. ASSUME NEW i \in DOMAIN attempts, Publish(i)
      PROVE  Len(attempts') = Len(attempts) /\ RowsDecide'
    <2>1. Len(attempts') = Len(attempts)
        BY <1>0, <1>8, CloseFacts DEF Publish, Reason
    <2>2. run'.status = "COMPLETED"
        BY <1>0, <1>8, MarkTerminalRow DEF Publish, Terminal
    <2> QED
        BY <2>1, <2>2 DEF RowsDecide, Terminal
<1>9. ASSUME NEW i \in DOMAIN attempts, PublishCancelled(i)
      PROVE  Len(attempts') = Len(attempts) /\ RowsDecide'
    <2>1. /\ Len(attempts') = Len(attempts) /\ DOMAIN attempts' = DOMAIN attempts
          /\ ~Fresh(i) => \A j \in DOMAIN attempts : attempts'[j] = attempts[j]
        BY <1>0, <1>9, CloseFacts DEF PublishCancelled, Reason
    <2>2. CASE ~Fresh(i)
        BY <1>9, <2>1, <2>2 DEF PublishCancelled, ClosedRun, RowsDecide
    <2>3. CASE Fresh(i)
        <3>1. run'.status \in Terminal
            BY <1>0, <1>9, <1>s, <1>t, <2>3
            DEF PublishCancelled, ClosedRun, RowsDecide, Run, RunStep, Terminal
        <3> QED
            BY <2>1, <3>1 DEF RowsDecide, Terminal
    <2> QED
        BY <2>2, <2>3
<1>10. CASE RecordRunFailure
    <2>1. CASE run.status \in Terminal \/ LatestLive
        BY <1>10, <2>1 DEF RecordRunFailure, RowsDecide
    <2>2. CASE ~(run.status \in Terminal \/ LatestLive)
        <3> DEFINE st == IF run.cancel THEN "CANCELLED" ELSE "FAILED"
        <3>1. Len(attempts') = Len(attempts)
            BY <1>0, <1>10, <2>2, RecoverFacts DEF RecordRunFailure, Reason
        <3>2. run'.status \in Terminal
            BY <1>0, <1>10, <2>2, MarkTerminalRow DEF RecordRunFailure, Terminal
        <3> QED
            BY <3>1, <3>2 DEF RowsDecide, Terminal
    <2> QED
        BY <2>1, <2>2
<1>11. CASE RecoverSelect \/ RecoverRollback
    BY <1>11 DEF RecoverSelect, RecoverRollback, RowsDecide
<1>12. CASE RecoverCandidate
    <2>1. ASSUME NEW st \in {"FAILED", "CANCELLED"}, NEW re \in Reason, NEW row,
                 RecoverTerminal(st, re, row), row.status \in Terminal
          PROVE  Len(attempts') = Len(attempts) /\ RowsDecide'
        <3>1. CASE Renewed
            BY <2>1, <3>1 DEF RecoverTerminal, RowsDecide
        <3>2. CASE ~Renewed
            <4>1. Len(attempts') = Len(attempts)
                BY <1>0, <2>1, <3>2, RecoverFacts DEF RecoverTerminal
            <4> QED
                BY <2>1, <3>2, <4>1 DEF RecoverTerminal, RowsDecide, Terminal
        <3> QED
            BY <3>1, <3>2
    <2>2. MarkTerminal("CANCELLED").status = "CANCELLED" /\ FailRun.status = "FAILED"
        BY <1>0, MarkTerminalRow DEF FailRun, Run, Terminal
    <2>3. CASE run.cancel
        BY <1>12, <2>1, <2>2, <2>3 DEF RecoverCandidate, Reason, Terminal
    <2>4. CASE ~run.cancel /\ Len(attempts) >= MaxAttempts
        <3>1. RecoverTerminal("FAILED", "MAX_ATTEMPTS_EXHAUSTED", FailRun)
            BY <1>0, <1>12, <2>4, ConstantsAssumption, SMT DEF RecoverCandidate
        <3> QED
            BY <2>1, <2>2, <3>1 DEF Reason, Terminal
    <2>5. CASE /\ ~run.cancel /\ Len(attempts) < MaxAttempts
               /\ run.status = "RUNNING" /\ attempts # <<>>
        <3>1. RecoverExpired("FAILED", "LEASE_EXPIRED") /\ ~run'.cancel
            BY <1>0, <1>12, <2>5, ConstantsAssumption, SMT DEF RecoverCandidate, Run
        <3>2. /\ Len(attempts') = Len(attempts) /\ DOMAIN attempts' = DOMAIN attempts
              /\ \A j \in DOMAIN attempts :
                    \/ attempts'[j] = attempts[j]
                    \/ attempts'[j].status = "FAILED" /\ attempts'[j].reason = "LEASE_EXPIRED"
            BY <1>0, <3>1, RecoverFacts DEF Reason
        <3> QED
            BY <1>t, <3>1, <3>2 DEF RowsDecide, RunStep
    <2>6. CASE ~run.cancel /\ ~(Len(attempts) >= MaxAttempts)
               /\ ~(run.status = "RUNNING" /\ attempts # <<>>)
        <3>1. attempts' = attempts /\ run'.cancel = run.cancel
            BY <1>0, <1>12, <2>6, ConstantsAssumption DEF RecoverCandidate, FailRun, Run
        <3> QED
            BY <1>t, <2>6, <3>1 DEF RowsDecide, RunStep
    <2> QED
        BY <1>0, <2>3, <2>4, <2>5, <2>6, ConstantsAssumption, SMT
<1>13. CASE RequestCancellation
    BY <1>0, <1>13, <1>t DEF RequestCancellation, RowsDecide, RunStep, Run
<1>14. CASE RequestDeletion
    BY <1>0, <1>14, <1>t DEF RequestDeletion, RowsDecide, RunStep, Run
<1>15. ASSUME NEW st \in RunStatus \ {"QUEUED", "COMPLETED"}, IngestResult(st)
      PROVE  Len(attempts') = Len(attempts) /\ RowsDecide'
    <2>1. attempts' = attempts /\ run'.status = st
        BY <1>0, <1>15, MarkTerminalRow DEF IngestResult, Run
    <2> QED
        BY <1>t, <1>15, <2>1 DEF RowsDecide, RunStep
<1> QED
    BY <1>1, <1>2, <1>3, <1>4, <1>5, <1>6, <1>7, <1>8, <1>9, <1>10, <1>11, <1>12, <1>13, <1>14, <1>15
    DEF Unclaimed
--------------------------------------------------------------------------------
(* What a step does to the workers.                                        *)

\* A worker's record is changed in these fields, and the other workers' are not.
Becomes(w, pc, att, out) ==
    /\ wk' \in [Workers -> Worker]
    /\ \A v \in Workers \ {w} : wk'[v] = wk[v]
    /\ wk'[w].pc = pc /\ wk'[w].att = att /\ wk'[w].out = out

\* The four ways the code moves a worker: to the next point of _handle,
LEMMA MoveFacts ==
    ASSUME wk \in [Workers -> Worker], NEW w \in Workers, NEW pc \in PC, Move(w, pc)
    PROVE  Becomes(w, pc, wk[w].att, wk[w].out)
BY DEF Move, Becomes, Worker

\* out of it,
LEMMA EndFacts ==
    ASSUME wk \in [Workers -> Worker], NEW w \in Workers, End(w)
    PROVE  Becomes(w, "idle", 0, "none")
<1>1. Idle \in Worker /\ Idle.pc = "idle" /\ Idle.att = 0 /\ Idle.out = "none"
    BY ConstantsAssumption, SMT DEF Idle, Worker, PC, Signal, Outcome
<1> QED
    BY <1>1 DEF End, Becomes

\* to the finish with an outcome,
LEMMA DecideFacts ==
    ASSUME wk \in [Workers -> Worker], NEW w \in Workers, NEW out \in Outcome, Decide(w, out)
    PROVE  Becomes(w, "finish", wk[w].att, out)
<1> DEFINE r == [wk[w] EXCEPT !.pc = "finish", !.out = out, !.sig = "none"]
<1>1. r \in Worker /\ r.pc = "finish" /\ r.att = wk[w].att /\ r.out = out
    BY DEF Worker, PC, Signal
<1>2. wk' = [wk EXCEPT ![w] = r]
    BY DEF Decide
<1> HIDE DEF r
<1> QED
    BY <1>1, <1>2 DEF Becomes

\* to the report of one.
LEMMA ReportFacts ==
    ASSUME wk \in [Workers -> Worker], NEW w \in Workers, NEW out \in Outcome, ReportAs(w, out)
    PROVE  Becomes(w, "report", wk[w].att, out)
<1> DEFINE r == [wk[w] EXCEPT !.pc = "report", !.out = out]
<1>1. r \in Worker /\ r.pc = "report" /\ r.att = wk[w].att /\ r.out = out
    BY DEF Worker, PC
<1>2. wk' = [wk EXCEPT ![w] = r]
    BY DEF ReportAs
<1> HIDE DEF r
<1> QED
    BY <1>1, <1>2 DEF Becomes

\* What a worker relies on, any step of RunAttempts leaves in place.
LEMMA RelyStays ==
    ASSUME WInv, [Next]_vars, Len(attempts) <= Len(attempts'), dlq => dlq',
           NEW v \in Workers, wk'[v] = wk[v]
    PROVE  WorkerOK(v)'
<1>1. RunStep
    BY NextRunStep DEF WInv
<1>2. WorkerOK(v) /\ Len(attempts) \in Nat
    BY RowFacts DEF WInv, IInv, TypeOK
<1>3. IInv'
    BY NextIInv DEF WInv
<1>4. Len(attempts') \in Nat
    BY <1>3, RowFacts DEF IInv, TypeOK
<1> QED
    BY <1>1, <1>2, <1>4, SMT DEF WorkerOK, Settled, RunStep, Terminal

\* A step that neither receives nor claims, and after which every worker it moves may rely
\* on what it needs, preserves the invariant.
LEMMA QuietStep ==
    ASSUME WInv, Unclaimed, wk' \in [Workers -> Worker],
           \A v \in Workers : \/ wk'[v] = wk[v]
                              \/ /\ wk'[v].att \in {0, wk[v].att}
                                 /\ wk'[v].pc = "received" => wk[v].pc = "received" /\ wk'[v].rc = wk[v].rc
                                 /\ WorkerOK(v)',
           msg' \in Message, msg'.count = msg.count, crashes' \in 0..MaxCrashes,
           dlq' \in BOOLEAN, dlq => dlq',
           ~msg'.there => ~msg.there \/ Settled',
           dlq' => dlq \/ run.status \in Terminal \/ run.cancel
    PROVE  WInv'
<1>1. IInv' /\ RunStep
    BY UnclaimedNext, NextIInv, NextRunStep DEF WInv
<1>2. Len(attempts') = Len(attempts) /\ RowsDecide' /\ Len(attempts) \in Nat
    BY UnclaimedRows, RowFacts DEF WInv, IInv, TypeOK
<1>3. Budget'
    <2>1. Pending' \subseteq Pending /\ Pending \subseteq Workers
        BY DEF Pending
    <2>2. IsFiniteSet(Pending) /\ Cardinality(Pending) \in Nat
        BY <2>1, WorkersAssumption, FS_Subset, FS_CardinalityType
    <2>3. Cardinality(Pending') <= Cardinality(Pending) /\ Cardinality(Pending') \in Nat
        BY <2>1, <2>2, FS_Subset, FS_CardinalityType
    <2>4. msg.count \in Nat /\ MaxAttempts \in Nat
        BY ConstantsAssumption, SMT DEF WInv, Message
    <2> QED
        BY <1>2, <2>2, <2>3, <2>4, SMT DEF WInv, Budget
<1>4. \A v \in Workers : WorkerOK(v)'
    BY <1>2, UnclaimedNext, RelyStays, SMT
<1>5. OneHolder'
    BY SMT DEF WInv, OneHolder, Worker
<1>6. ~msg'.there \/ dlq' => Settled'
    BY <1>1 DEF WInv, Settled, RunStep, Terminal
<1> QED
    BY <1>1, <1>2, <1>3, <1>4, <1>5, <1>6 DEF WInv

\* A worker moves, and the queue does not.
LEMMA WorkerMoves ==
    ASSUME WInv, Unclaimed, UNCHANGED Queue, NEW w \in Workers, NEW pc \in PC \ {"received"},
           NEW out, Becomes(w, pc, wk'[w].att, out), wk'[w].att \in {0, wk[w].att},
           pc \in Engaged => wk[w].att # 0 /\ wk'[w].att # 0,
           pc = "report" => out \in Reported,
           out = "SUCCEEDED" => run'.status = "COMPLETED",
           pc = "delete" => run'.status \in Terminal,
           pc = "deadletter" => run'.status \in Terminal \/ run'.cancel
    PROVE  WInv'
<1>1. Len(attempts') = Len(attempts) /\ Len(attempts) \in Nat
    BY UnclaimedRows, RowFacts DEF WInv, IInv, TypeOK
<1>2. WorkerOK(w)'
    BY <1>1, SMT DEF WInv, WorkerOK, Becomes, Settled
<1> QED
    BY <1>2, QuietStep DEF WInv, Becomes, Queue
--------------------------------------------------------------------------------
(* The steps of a worker.  Each is a step of RunAttempts and keeps WInv.   *)

Kept == [Next]_vars /\ WInv'

\* A result event, applied, repeated or refused, is one of RunAttempts: a COMPLETED one is
\* only sent for a published run, which has no further transition.
LEMMA EventStep ==
    ASSUME IInv, NEW st \in RunStatus \ {"QUEUED"}, st = "COMPLETED" => run.status = "COMPLETED",
           EventAccepted(st) \/ EventFails(st)
    PROVE  Unclaimed
<1>1. CASE UNCHANGED vars
    BY <1>1 DEF Unclaimed
<1>2. CASE IngestResult(st)
    <2>1. st # "COMPLETED"
        BY <1>2 DEF IngestResult, RUN_STATUS_TRANSITIONS, RunStatus
    <2> QED
        BY <1>2, <2>1 DEF Unclaimed
<1> QED
    BY <1>1, <1>2 DEF EventAccepted, EventFails

\* The facts every step starts from.
LEMMA Known ==
    ASSUME WInv, NEW w \in Workers
    PROVE  /\ IInv /\ run \in Run /\ attempts \in Seq(Attempt) /\ Len(attempts) \in Nat
           /\ DOMAIN attempts = 1..Len(attempts)
           /\ wk \in [Workers -> Worker] /\ wk[w] \in Worker /\ WorkerOK(w)
           /\ wk[w].pc \in Engaged => wk[w].att \in DOMAIN attempts
           /\ RunStatus = {"QUEUED", "RUNNING"} \cup Terminal
<1>1. /\ IInv /\ run \in Run /\ attempts \in Seq(Attempt) /\ Len(attempts) \in Nat
      /\ DOMAIN attempts = 1..Len(attempts)
      /\ wk \in [Workers -> Worker] /\ WorkerOK(w)
    BY RowFacts DEF WInv, IInv, TypeOK
<1>2. wk[w].pc \in Engaged => wk[w].att \in DOMAIN attempts
    BY <1>1, SMT DEF WorkerOK
<1> QED
    BY <1>1, <1>2 DEF RunStatus, RUN_STATUS_TRANSITIONS

\* A worker that ends its delivery relies on nothing.
LEMMA EndsWell ==
    ASSUME WInv, Unclaimed, UNCHANGED Queue, NEW w \in Workers, End(w)
    PROVE  Kept
<1>1. Becomes(w, "idle", 0, "none")
    BY Known, EndFacts
<1> QED
    BY <1>1, UnclaimedNext, WorkerMoves DEF Kept, Becomes, PC, Engaged

\* A worker that holds a claim decides on an outcome; a success is a published one.
LEMMA DecidesWell ==
    ASSUME WInv, Unclaimed, UNCHANGED Queue, NEW w \in Workers, wk[w].att # 0,
           NEW out \in Outcome, Decide(w, out), out = "SUCCEEDED" => run'.status = "COMPLETED"
    PROVE  Kept
<1>1. Becomes(w, "finish", wk[w].att, out)
    BY Known, DecideFacts
<1> QED
    BY <1>1, UnclaimedNext, WorkerMoves, SMT DEF Kept, Becomes, PC

\* Or goes to report it.
LEMMA ReportsWell ==
    ASSUME WInv, Unclaimed, UNCHANGED Queue, NEW w \in Workers, wk[w].att # 0,
           NEW out \in Reported, ReportAs(w, out), out = "SUCCEEDED" => run'.status = "COMPLETED"
    PROVE  Kept
<1>1. Becomes(w, "report", wk[w].att, out)
    BY Known, ReportFacts DEF Reported, Outcome
<1> QED
    BY <1>1, UnclaimedNext, WorkerMoves DEF Kept, Becomes, PC

\* Or moves on; the message of a delivery that is over leaves a terminal run.
LEMMA MovesWell ==
    ASSUME WInv, Unclaimed, UNCHANGED Queue, NEW w \in Workers,
           NEW pc \in PC \ {"received", "report"}, Move(w, pc),
           pc \in Engaged => wk[w].att # 0,
           pc = "delete" => run'.status \in Terminal,
           pc = "deadletter" => run'.status \in Terminal \/ run'.cancel
    PROVE  Kept
<1>1. RunStep
    BY Known, UnclaimedNext, NextRunStep
<1>2. PICK out : out = wk[w].out
    OBVIOUS
<1>3. out = "SUCCEEDED" => run'.status = "COMPLETED"
    BY <1>1, <1>2, Known DEF WorkerOK, RunStep, Terminal
<1>4. Becomes(w, pc, wk[w].att, out)
    BY <1>2, Known, MoveFacts
<1> QED
    BY <1>3, <1>4, UnclaimedNext, WorkerMoves, SMT DEF Kept, Becomes

\* The receive limit: what record_run_failure answers for a run it does not leave to its
\* live attempt is said of a terminal run.
LEMMA OverLimitStep ==
    ASSUME WInv, NEW w \in Workers, OverLimit(w) PROVE Kept
<1>1. Unclaimed /\ RecordRunFailure /\ UNCHANGED Queue
    BY DEF OverLimit, Unclaimed
<1>2. RunFailureAnswer \in {"SUCCEEDED", "CANCELLED", "FAILED"} => run'.status \in Terminal
    <2>1. CASE run.status \in Terminal \/ LatestLive
        BY <1>1, <2>1, Known DEF RecordRunFailure, RunFailureAnswer, Terminal
    <2>2. CASE ~(run.status \in Terminal \/ LatestLive)
        BY <1>1, <2>2, Known, MarkTerminalRow DEF RecordRunFailure, Terminal
    <2> QED
        BY <2>1, <2>2
<1>3. \/ Move(w, "delete") /\ run'.status \in Terminal
      \/ Move(w, "deadletter") /\ run'.status \in Terminal
      \/ End(w)
    BY <1>2 DEF OverLimit, Dispose
<1> QED
    BY <1>1, <1>3, EndsWell, MovesWell DEF PC, Engaged

\* A delivery that claims nothing is judged by the newest attempt; RowsDecide says that
\* the run agrees with it.
LEMMA OnDuplicateStep ==
    ASSUME WInv, NEW w \in Workers, OnDuplicate(w) PROVE Kept
<1>1. Unclaimed /\ UNCHANGED Queue /\ run' = run /\ ~Claimable
    BY DEF OnDuplicate, Unclaimed, vars
<1>2. ExistingStatus \in {"SUCCEEDED", "CANCELLED", "FAILED"} =>
        run.status \in Terminal \/ (ExistingStatus = "FAILED" /\ run.cancel)
    <2>1. CASE attempts # <<>>
        <3>1. Len(attempts) \in DOMAIN attempts
            BY <2>1, Known, RowFacts
        <3>2. CASE Latest.status = "SUCCEEDED"
            BY <3>1, <3>2, Known DEF IInv, PublicationSerialized, Published, Latest, Terminal
        <3>3. CASE Latest.status # "SUCCEEDED"
            BY <1>1, <2>1, <3>1, <3>3 DEF WInv, RowsDecide, ExistingStatus, Latest, Claimable
        <3> QED
            BY <3>2, <3>3
    <2>2. CASE attempts = <<>>
        BY <2>2, Known DEF ExistingStatus, Terminal
    <2> QED
        BY <2>1, <2>2
<1>3. \/ Move(w, "delete") /\ run'.status \in Terminal
      \/ Move(w, "deadletter") /\ (run'.status \in Terminal \/ run'.cancel)
      \/ End(w)
    BY <1>1, <1>2 DEF OnDuplicate, Dispose
<1> QED
    BY <1>1, <1>3, EndsWell, MovesWell DEF PC, Engaged

\* The handler before the replay: its events are those of RunAttempts.
LEMMA HandlerStep ==
    ASSUME WInv, NEW w \in Workers, BindFails(w) \/ Start(w) \/ HandlerRaises(w) PROVE Kept
<1>0. wk[w].att # 0 /\ UNCHANGED Queue
    BY Known DEF WorkerOK, Engaged, BindFails, Start, HandlerRaises
<1>1. Unclaimed
    <2>1. CASE UNCHANGED vars
        BY <2>1 DEF Unclaimed
    <2>2. \A st \in {"RUNNING", "FAILED", "UNAVAILABLE"} :
            EventAccepted(st) \/ EventFails(st) => Unclaimed
        BY Known, EventStep DEF Terminal
    <2> QED
        BY <2>1, <2>2 DEF BindFails, Start, HandlerRaises
<1>2. \/ \E out \in {"FAILED", "RETRY"} : Decide(w, out)
      \/ Move(w, "replay")
    BY DEF BindFails, Start, HandlerRaises
<1> QED
    BY <1>0, <1>1, <1>2, DecidesWell, MovesWell DEF PC, Outcome

\* The replay ends in a report, a retry or a publication.
LEMMA ReplayStep ==
    ASSUME WInv, NEW w \in Workers, Replay(w) PROVE Kept
<1>1. wk[w].att # 0 /\ UNCHANGED Queue /\ Unclaimed
    BY Known DEF WorkerOK, Engaged, Replay, Unclaimed
<1>2. \/ \E out \in {"CANCELLED", "FAILED", "UNAVAILABLE"} : ReportAs(w, out)
      \/ Decide(w, "RETRY")
      \/ Move(w, "publish")
    BY DEF Replay
<1> QED
    BY <1>1, <1>2, ReportsWell, DecidesWell, MovesWell DEF PC, Outcome, Reported

\* A success goes to report only from a commit, or from a run found COMPLETED.
LEMMA PublishResultStep ==
    ASSUME WInv, NEW w \in Workers, PublishResult(w) PROVE Kept
<1>1. PICK i \in DOMAIN attempts : i = wk[w].att
    BY Known DEF PublishResult, Engaged
<1>2. wk[w].att # 0 /\ UNCHANGED Queue
    BY Known DEF WorkerOK, Engaged, PublishResult
<1>3. CASE Publish(i) /\ (ReportAs(w, "SUCCEEDED") \/ Decide(w, "RETRY"))
    <2>1. Unclaimed
        BY <1>3 DEF Unclaimed
    <2>2. run'.status = "COMPLETED"
        BY <1>3, Known, MarkTerminalRow DEF Publish, Terminal
    <2> QED
        BY <1>2, <1>3, <2>1, <2>2, ReportsWell, DecidesWell DEF Outcome, Reported
<1>4. CASE PublishCancelled(i) /\ (ReportAs(w, "CANCELLED") \/ Decide(w, "RETRY"))
    <2>1. Unclaimed
        BY <1>4 DEF Unclaimed
    <2> QED
        BY <1>2, <1>4, <2>1, ReportsWell, DecidesWell DEF Outcome, Reported
<1>5. CASE UNCHANGED vars /\ (ReportAs(w, "FAILED") \/ Decide(w, "RETRY"))
    BY <1>2, <1>5, ReportsWell, DecidesWell DEF Outcome, Reported, Unclaimed
<1>6. CASE UNCHANGED vars /\ run.status = "COMPLETED" /\ ReportAs(w, "SUCCEEDED")
    BY <1>2, <1>6, ReportsWell DEF Outcome, Reported, Unclaimed, vars
<1> QED
    BY <1>1, <1>3, <1>4, <1>5, <1>6 DEF PublishResult

\* The report of an outcome.
LEMMA ReportStep ==
    ASSUME WInv, NEW w \in Workers, Report(w) PROVE Kept
<1>1. wk[w].att # 0 /\ UNCHANGED Queue
    BY Known DEF WorkerOK, Engaged, Report
<1>2. PICK out \in Reported : out = wk[w].out
    BY Known DEF WorkerOK, Report
<1>3. out = "SUCCEEDED" => run.status = "COMPLETED"
    BY <1>2, Known DEF WorkerOK
<1>4. Unclaimed
    <2> DEFINE st == EventOf(out)
    <2>1. st \in RunStatus \ {"QUEUED"} /\ (st = "COMPLETED" => run.status = "COMPLETED")
        BY <1>3, Known DEF EventOf, Reported, Terminal
    <2>2. EventAccepted(st) \/ EventFails(st)
        BY <1>2 DEF Report
    <2> HIDE DEF st
    <2> QED
        BY <2>1, <2>2, Known, EventStep
<1>5. out = "SUCCEEDED" => run'.status = "COMPLETED"
    BY <1>3, <1>4, Known, UnclaimedNext, NextRunStep DEF RunStep, Terminal
<1>6. Decide(w, out) \/ Decide(w, "RETRY")
    BY <1>2 DEF Report
<1> QED
    BY <1>1, <1>4, <1>5, <1>6, DecidesWell DEF Outcome, Reported

\* The outcome is made durable before the queue effect.
LEMMA SettleStep ==
    ASSUME WInv, NEW w \in Workers, Settle(w) PROVE Kept
<1>1. PICK i \in DOMAIN attempts : i = wk[w].att
    BY Known DEF Settle, Engaged
<1>2. UNCHANGED Queue
    BY DEF Settle
<1>3. PICK st : st = Final(w)
    OBVIOUS
<1>4. CASE Release(i) /\ Move(w, "return")
    <2>1. Unclaimed
        BY <1>4 DEF Unclaimed
    <2> QED
        BY <1>2, <1>4, <2>1, MovesWell DEF PC, Engaged
<1>5. CASE /\ st # "RELEASED" /\ Finish(i, st)
           /\ Move(w, IF st = "FAILED" THEN "deadletter" ELSE "delete")
    <2>1. st \in {"SUCCEEDED", "CANCELLED", "FAILED"} /\ (st = "SUCCEEDED" => run.status = "COMPLETED")
        BY <1>3, <1>5, Known DEF Final, WorkerOK
    <2>2. Unclaimed
        BY <1>5, <2>1 DEF Unclaimed
    <2>3. run'.status \in Terminal
        <3>1. RunStep
            BY <2>2, Known, UnclaimedNext, NextRunStep
        <3>2. CASE st = "SUCCEEDED"
            BY <2>1, <3>1, <3>2 DEF RunStep, Terminal
        <3>3. CASE st # "SUCCEEDED"
            BY <1>5, <2>1, <3>1, <3>3, Known, MarkTerminalRow DEF Finish, RunStep, Terminal
        <3> QED
            BY <3>2, <3>3
    <2> QED
        BY <1>2, <1>5, <2>2, <2>3, MovesWell DEF PC, Engaged
<1> QED
    BY <1>1, <1>3, <1>4, <1>5 DEF Settle

\* A finish that raises leaves the delivery unacknowledged.
LEMMA SettleRaisesStep ==
    ASSUME WInv, NEW w \in Workers, SettleRaises(w) PROVE Kept
BY EndsWell DEF SettleRaises, Unclaimed
--------------------------------------------------------------------------------
(* The queue effects, the heartbeat and the environment.                   *)

\* Acknowledging, returning and dead-lettering a message, and a crash, touch no row; only a
\* settled run loses its message.
LEMMA QueueEffectStep ==
    ASSUME WInv, NEW w \in Workers, Delete(w) \/ ReturnToQueue(w) \/ DeadLetter(w) \/ Crash(w)
    PROVE  Kept
<1>1. Unclaimed /\ UNCHANGED vars /\ run' = run /\ attempts' = attempts
    BY DEF Delete, ReturnToQueue, DeadLetter, Crash, Unclaimed, vars
<1>2. /\ msg' \in Message /\ msg'.count = msg.count
      /\ ~msg'.there => ~msg.there \/ wk[w].pc = "delete"
    <2>1. msg \in Message
        BY DEF WInv
    <2>2. CASE Delete(w)
        <3>1. CASE msg' = [msg EXCEPT !.there = FALSE, !.timer = 0, !.holder = "nobody"]
            <4>1. msg' \in Message
                <5>1. 0 \in 0..Lease /\ "nobody" \in Workers \cup {"nobody"} /\ FALSE \in BOOLEAN
                    BY ConstantsAssumption, SMT
                <5>2. msg' = [there |-> FALSE, timer |-> 0, count |-> msg.count, holder |-> "nobody"]
                    BY <2>1, <3>1 DEF Message
                <5>3. msg.count \in 0..(MaxAttempts + 1)
                    BY <2>1 DEF Message
                <5> QED
                    BY <5>1, <5>2, <5>3 DEF Message
            <4>2. msg'.count = msg.count
                BY <2>1, <3>1 DEF Message
            <4> QED
                BY <2>2, <4>1, <4>2 DEF Delete
        <3> QED
            BY <2>1, <2>2, <3>1 DEF Delete
    <2>3. CASE ReturnToQueue(w)
        BY <2>1, <2>3, ConstantsAssumption, SMT DEF ReturnToQueue, Message
    <2> QED
        BY <2>1, <2>2, <2>3 DEF DeadLetter, Crash
<1>3. crashes' \in 0..MaxCrashes
    BY WorkersAssumption, SMT DEF WInv, Delete, ReturnToQueue, DeadLetter, Crash
<1>4. dlq' \in BOOLEAN /\ (dlq => dlq')
      /\ (dlq' => dlq \/ run.status \in Terminal \/ run.cancel)
    <2>1. dlq' = dlq \/ (dlq' = TRUE /\ wk[w].pc = "deadletter")
        BY DEF Delete, ReturnToQueue, DeadLetter, Crash
    <2>2. dlq \in BOOLEAN
        BY DEF WInv
    <2>3. wk[w].pc = "deadletter" => run.status \in Terminal \/ run.cancel
        BY Known DEF WorkerOK
    <2>4. dlq' \in BOOLEAN
        BY <2>1, <2>2
    <2>5. dlq => dlq'
        BY <2>1
    <2>6. dlq' => dlq \/ run.status \in Terminal \/ run.cancel
        BY <2>1, <2>3
    <2> QED
        BY <2>4, <2>5, <2>6
<1>5. ~msg'.there => ~msg.there \/ Settled'
    BY <1>1, <1>2, <1>4, Known DEF WorkerOK, Settled
<1>6. CASE End(w)
    <2>1. Becomes(w, "idle", 0, "none")
        BY <1>6, Known, EndFacts
    <2>2. WorkerOK(w)'
        BY <1>1, <2>1, Known, SMT DEF Becomes, WorkerOK, Engaged
    <2> QED
        BY <1>1, <1>2, <1>3, <1>4, <1>5, <2>1, <2>2, QuietStep, UnclaimedNext DEF Becomes, Kept
<1>7. CASE DeadLetter(w)
    <2>1. Becomes(w, "delete", wk[w].att, wk[w].out)
        BY <1>7, Known, MoveFacts DEF DeadLetter, PC
    <2>2. WorkerOK(w)'
        BY <1>1, <1>7, <2>1, Known DEF Becomes, WorkerOK, Engaged, Settled, DeadLetter
    <2> QED
        BY <1>1, <1>2, <1>3, <1>4, <1>5, <2>1, <2>2, QuietStep, UnclaimedNext DEF Becomes, Kept
<1> QED
    BY <1>6, <1>7 DEF Delete, ReturnToQueue, Crash

\* A beat renews what the worker holds and moves it nowhere.
LEMMA BeatStep ==
    ASSUME WInv, NEW w \in Workers, Beat(w) PROVE Kept
<1>1. PICK i \in DOMAIN attempts : i = wk[w].att
    BY Known DEF Beat, Engaged
<1>2. Unclaimed
    BY <1>1 DEF Beat, Unclaimed
<1>3. msg' \in Message /\ msg'.count = msg.count /\ msg'.there = msg.there
    BY ConstantsAssumption, SMT DEF WInv, Beat, Message
<1>4. PICK sig \in Signal : wk' = [wk EXCEPT ![w].sig = sig]
    BY Known DEF Beat, Signal, Worker
<1>5. Becomes(w, wk[w].pc, wk[w].att, wk[w].out)
    BY <1>4, Known DEF Becomes, Worker
<1>6. Len(attempts') = Len(attempts) /\ RunStep
    BY <1>2, UnclaimedRows, UnclaimedNext, NextRunStep DEF WInv
<1>7. WorkerOK(w)'
    BY <1>5, <1>6, Known DEF Beat, Becomes, WorkerOK, RunStep, Terminal, Settled
<1> QED
    BY <1>2, <1>3, <1>5, <1>7, QuietStep, UnclaimedNext DEF Beat, Becomes, Kept, WInv

\* Time, recovery, the owner and a statement in flight move no worker.
LEMMA EnvironmentStep ==
    ASSUME WInv, Clock \/ Recover \/ Owner \/ \E w \in Workers : Wait(w)
    PROVE  Kept
<1>1. Unclaimed
    <2>1. ASSUME NEW w \in Workers, Wait(w) PROVE Unclaimed
        <3>1. wk[w].att \in DOMAIN attempts
            BY <2>1, Known, SMT DEF Wait, WorkerOK
        <3> QED
            BY <2>1, <3>1 DEF Wait, Unclaimed
    <2> QED
        BY <2>1 DEF Clock, Recover, Owner, Unclaimed
<1>2. /\ wk' = wk /\ dlq' = dlq /\ crashes' = crashes
      /\ msg' \in Message /\ msg'.count = msg.count /\ msg'.there = msg.there
    BY ConstantsAssumption, SMT DEF WInv, Clock, Recover, Owner, Wait, wvars, Message
<1> QED
    BY <1>1, <1>2, QuietStep, UnclaimedNext DEF Kept, WInv
--------------------------------------------------------------------------------
(* The budget of claims.                                                   *)

\* The deliveries that may claim are finitely many.
LEMMA PendingFinite ==
    ASSUME TRUE
    PROVE  /\ IsFiniteSet(Pending) /\ Cardinality(Pending) \in Nat
<1>1. Pending \subseteq Workers
    BY DEF Pending
<1> QED
    BY <1>1, WorkersAssumption, FS_Subset, FS_CardinalityType

\* A delivery adds one that may claim, if it is one of the first MaxAttempts.
LEMMA ReceiveStep ==
    ASSUME WInv, NEW w \in Workers, Receive(w) PROVE Kept
<1>0. msg \in Message /\ msg.count \in 0..(MaxAttempts + 1) /\ MaxAttempts \in Nat
    BY ConstantsAssumption DEF WInv, Message
<1>1. /\ UNCHANGED vars /\ run' = run /\ attempts' = attempts /\ dlq' = dlq /\ crashes' = crashes
      /\ wk[w].pc = "idle"
    BY DEF Receive, vars
<1>2. PICK rc : /\ rc = IF msg.count > MaxAttempts THEN msg.count ELSE msg.count + 1
                /\ msg' = [msg EXCEPT !.timer = Lease, !.count = rc, !.holder = w]
                /\ wk' = [wk EXCEPT ![w].pc = "received", ![w].rc = rc]
    BY DEF Receive
<1>3. /\ rc \in 0..(MaxAttempts + 1) /\ msg.count <= rc
      /\ rc <= MaxAttempts => rc = msg.count + 1
    BY <1>0, <1>2, SMT
<1>4. msg' \in Message /\ msg'.count = rc /\ msg'.there = msg.there
    <2>1. msg' = [there |-> msg.there, timer |-> Lease, count |-> rc, holder |-> w]
        BY <1>0, <1>2 DEF Message
    <2>2. Lease \in 0..Lease /\ msg.there \in BOOLEAN
        BY <1>0, ConstantsAssumption, SMT DEF Message
    <2> QED
        BY <1>3, <2>1, <2>2 DEF Message
<1>5. Becomes(w, "received", wk[w].att, wk[w].out) /\ wk'[w].rc = rc
    <2> DEFINE r == [wk[w] EXCEPT !.pc = "received", !.rc = rc]
    <2>1. wk[w] \in Worker /\ wk \in [Workers -> Worker]
        BY Known
    <2>2. /\ r \in Worker /\ r.pc = "received" /\ r.att = wk[w].att /\ r.out = wk[w].out
          /\ r.rc = rc
        BY <1>3, <2>1 DEF Worker, PC
    <2>3. wk' = [wk EXCEPT ![w] = r]
        BY <1>2
    <2> HIDE DEF r
    <2> QED
        BY <2>1, <2>2, <2>3 DEF Becomes
<1>6. Budget'
    <2>1. w \notin Pending
        BY <1>1 DEF Pending
    <2>2. CASE rc <= MaxAttempts
        <3>1. Pending' = Pending \cup {w}
            BY <1>5, <2>2 DEF Pending, Becomes
        <3>2. Cardinality(Pending') = Cardinality(Pending) + 1
            BY <2>1, <3>1, PendingFinite, FS_AddElement
        <3> QED
            BY <1>0, <1>1, <1>3, <1>4, <2>2, <3>2, PendingFinite, Known, SMT DEF WInv, Budget
    <2>3. CASE ~(rc <= MaxAttempts)
        <3>1. Pending' = Pending
            BY <1>1, <1>5, <2>3 DEF Pending, Becomes
        <3> QED
            BY <1>0, <1>1, <1>3, <1>4, <3>1, PendingFinite, Known, SMT DEF WInv, Budget
    <2> QED
        BY <2>2, <2>3
<1>7. \A v \in Workers : WorkerOK(v)'
    BY <1>1, <1>5, Known DEF WInv, WorkerOK, Becomes, Engaged, Settled
<1>8. IInv' /\ [Next]_vars
    BY <1>1, NextIInv DEF WInv
<1>9. RowsDecide' /\ OneHolder' /\ (~msg'.there \/ dlq' => Settled')
    BY <1>1, <1>4, <1>5, SMT DEF WInv, RowsDecide, OneHolder, Becomes, Settled
<1> QED
    BY <1>1, <1>4, <1>5, <1>6, <1>7, <1>8, <1>9 DEF Kept, WInv, Becomes

\* A claim spends one of them and inserts a row that no worker has yet.
LEMMA ClaimStep ==
    ASSUME WInv, NEW w \in Workers, Claim(w) PROVE Kept
<1>0. msg \in Message /\ msg.count \in Nat /\ MaxAttempts \in Nat /\ MaxClaims \in Nat
    BY ConstantsAssumption, SMT DEF WInv, Message
<1>1. /\ ClaimRunAttempt /\ UNCHANGED Queue /\ w \in Pending /\ ~run.cancel
    BY DEF Claim, Pending, ClaimRunAttempt, Claimable
<1>2. Len(attempts) < MaxClaims
    <2>1. Cardinality(Pending) # 0
        BY <1>1, PendingFinite, FS_EmptySet
    <2> QED
        BY <1>0, <2>1, PendingFinite, Known, WorkersAssumption, SMT DEF WInv, Budget
<1>3. Next
    BY <1>1, <1>2 DEF Next
<1>4. IInv' /\ RowStep /\ RunStep
    BY <1>3, Known, NextIInv, NextRowStep, NextRunStep
<1>5. PICK row \in Attempt : /\ attempts' = Append(Superseded, row)
                             /\ row.status = "RUNNING"
    BY <1>1, ConstantsAssumption, SMT DEF ClaimRunAttempt, Attempt, WorkStatus, Reason
<1>6. Superseded \in Seq(Attempt) /\ Len(Superseded) = Len(attempts)
      /\ DOMAIN Superseded = DOMAIN attempts
      /\ \A j \in DOMAIN attempts :
            \/ Superseded[j] = attempts[j]
            \/ Superseded[j].status = "FAILED" /\ Superseded[j].reason = "LEASE_EXPIRED"
    <2> DEFINE r == ClosedRow("FAILED", "LEASE_EXPIRED")
    <2>1. r \in Attempt /\ r.status = "FAILED" /\ r.reason = "LEASE_EXPIRED"
        BY ConstantsAssumption, SMT DEF ClosedRow, Attempt, WorkStatus, Reason
    <2>2. CASE LatestRunning
        <3>1. Len(attempts) \in DOMAIN attempts /\ Superseded = [attempts EXCEPT ![Len(attempts)] = r]
            BY <2>2, Known, RowFacts DEF Superseded, LatestRunning
        <3> HIDE DEF r
        <3> QED
            BY <2>1, <3>1, Known, UpdateRow, SMT
    <2>3. CASE ~LatestRunning
        BY <2>3, Known DEF Superseded
    <2> QED
        BY <2>2, <2>3
<1>7. /\ Len(attempts') = Len(attempts) + 1 /\ DOMAIN attempts' = 1..(Len(attempts) + 1)
      /\ attempts'[Len(attempts) + 1].status = "RUNNING"
      /\ \A j \in DOMAIN attempts : attempts'[j] = Superseded[j]
    BY <1>5, <1>6, InsertRow, SMT
<1>8. RowsDecide'
    <2>1. run'.cancel = run.cancel
        BY <1>1, Known DEF ClaimRunAttempt, Run
    <2>2. ASSUME NEW j \in 1..(Len(attempts) + 1)
          PROVE  \/ attempts'[j].status \in {"RUNNING", "SUCCEEDED"}
                 \/ /\ attempts'[j].status = "FAILED"
                    /\ attempts'[j].reason \in {"LEASE_EXPIRED", "RETRY_RELEASED"}
                 \/ run'.status \in Terminal
        <3>1. CASE j = Len(attempts) + 1
            BY <1>7, <3>1
        <3>2. CASE j # Len(attempts) + 1
            <4>1. j \in DOMAIN attempts
                BY <3>2, Known, SMT
            <4> QED
                BY <1>4, <1>6, <1>7, <4>1, SMT DEF WInv, RowsDecide, RunStep
        <3> QED
            BY <3>1, <3>2
    <2> QED
        BY <1>1, <1>7, <2>1, <2>2 DEF RowsDecide
<1>9. PICK n \in Nat : n = Len(attempts) + 1 /\ wk' = [wk EXCEPT ![w].pc = "claimed", ![w].att = n]
    <2>1. Len(attempts) + 1 \in Nat
        BY Known, SMT
    <2> QED
        BY <2>1 DEF Claim
<1>10. Becomes(w, "claimed", n, wk[w].out)
    <2> DEFINE r == [wk[w] EXCEPT !.pc = "claimed", !.att = n]
    <2>1. r \in Worker /\ r.pc = "claimed" /\ r.att = n /\ r.out = wk[w].out
        BY Known DEF Worker, PC
    <2>2. wk' = [wk EXCEPT ![w] = r]
        BY <1>9
    <2> HIDE DEF r
    <2> QED
        BY <2>1, <2>2, Known DEF Becomes
<1>11. Budget'
    <2>1. Pending' = Pending \ {w}
        BY <1>10 DEF Pending, Becomes
    <2>2. Cardinality(Pending') = Cardinality(Pending) - 1
        BY <1>1, <2>1, PendingFinite, FS_RemoveElement
    <2>3. msg' = msg
        BY <1>1 DEF Queue
    <2> QED
        BY <1>0, <1>7, <2>2, <2>3, PendingFinite, Known, SMT DEF WInv, Budget
<1>12. \A v \in Workers : WorkerOK(v)'
    <2>1. WorkerOK(w)'
        BY <1>4, <1>7, <1>9, <1>10, Known, SMT DEF Becomes, WorkerOK, RunStep, Terminal
    <2>2. ASSUME NEW v \in Workers, v # w PROVE WorkerOK(v)'
        BY <1>1, <1>3, <1>7, <1>10, <2>2, Known, RelyStays, SMT DEF Becomes, Queue
    <2> QED
        BY <2>1, <2>2
<1>13. OneHolder'
    <2>1. \A v \in Workers : wk[v].att # n
        BY <1>9, Known, SMT DEF WInv, WorkerOK
    <2> QED
        BY <1>9, <1>10, <2>1, SMT DEF WInv, OneHolder, Becomes
<1>14. ~msg'.there \/ dlq' => Settled'
    BY <1>1, <1>4 DEF WInv, Queue, Settled, RunStep
<1> QED
    BY <1>1, <1>3, <1>4, <1>8, <1>10, <1>11, <1>12, <1>13, <1>14 DEF Kept, WInv, Becomes, Queue
--------------------------------------------------------------------------------
(* The theorems.                                                           *)

\* A freshly queued message satisfies the invariant.
LEMMA InitWInv ==
    ASSUME WInit PROVE WInv
<1>1. IInv /\ attempts = <<>> /\ Len(attempts) = 0 /\ DOMAIN attempts = {}
    BY InitIInv, SMT DEF WInit, Init
<1>2. /\ Idle \in Worker /\ Idle.pc = "idle" /\ Idle.att = 0 /\ Idle.out = "none"
    BY ConstantsAssumption, SMT DEF Idle, Worker, PC, Signal, Outcome
<1>3. \A w \in Workers : wk[w] = Idle
    BY DEF WInit
<1>4. wk \in [Workers -> Worker] /\ msg \in Message /\ dlq \in BOOLEAN /\ crashes \in 0..MaxCrashes
    <2>1. wk \in [Workers -> Worker]
        BY <1>2 DEF WInit
    <2>2. dlq \in BOOLEAN
        BY DEF WInit
    <2>3. crashes \in 0..MaxCrashes
        BY WorkersAssumption, SMT DEF WInit
    <2>4. 0 \in 0..Lease /\ 0 \in 0..(MaxAttempts + 1) /\ "nobody" \in Workers \cup {"nobody"}
        BY ConstantsAssumption, SMT
    <2>5. msg \in Message
        BY <2>4 DEF WInit, Message
    <2> QED
        BY <2>1, <2>2, <2>3, <2>5
<1>5. Budget
    <2>1. Pending = {}
        BY <1>2, <1>3 DEF Pending
    <2> QED
        BY <1>1, <2>1, FS_EmptySet, ConstantsAssumption, SMT DEF Budget, WInit
<1>6. \A w \in Workers : WorkerOK(w)
    BY <1>1, <1>2, <1>3, SMT DEF WorkerOK, Engaged
<1>7. OneHolder
    BY <1>2, <1>3 DEF OneHolder
<1>8. RowsDecide
    BY <1>1 DEF RowsDecide, WInit, Init
<1> QED
    BY <1>1, <1>4, <1>5, <1>6, <1>7, <1>8 DEF WInv, WInit

\* Every step of the workers, the queue and the environment is one of RunAttempts and
\* preserves the invariant.
LEMMA StepWInv ==
    ASSUME WInv, [WNext]_allVars PROVE Kept
<1>1. CASE UNCHANGED allVars
    <2>1. UNCHANGED vars /\ UNCHANGED wvars
        BY <1>1 DEF allVars, vars, wvars
    <2>2. WInv'
        BY <2>1, QuietStep DEF Unclaimed, WInv, wvars
    <2> QED
        BY <2>1, <2>2 DEF Kept
<1>2. ASSUME NEW w \in Workers, Step(w) PROVE Kept
    BY <1>2, OverLimitStep, ClaimStep, OnDuplicateStep, HandlerStep, ReplayStep, PublishResultStep,
       ReportStep, SettleStep, SettleRaisesStep, QueueEffectStep DEF Step
<1> QED
    BY <1>1, <1>2, ReceiveStep, BeatStep, QueueEffectStep, EnvironmentStep DEF WNext

\* The invariant holds of any number of workers.
THEOREM WorkersInvariance == WSpec => []WInv
<1>1. WInit => WInv
    BY InitWInv
<1>2. WInv /\ [WNext]_allVars => WInv'
    BY StepWInv DEF Kept
<1> QED
    BY <1>1, <1>2, PTL DEF WSpec

\* Records of workers, messages and queues keep their types.
THEOREM WorkersTypeCorrect == WSpec => []WTypeOK
<1>1. WInv => WTypeOK
    BY DEF WInv, WTypeOK, IInv
<1> QED
    BY <1>1, WorkersInvariance, PTL

\* OrchestratorJobHandler: a message leaves the queue, or is dead-lettered, only when its
\* run is terminal or recovery will cancel it.
THEOREM QueueAndRunAgree == WSpec => []QueueAgreesWithRun
<1>1. WInv => QueueAgreesWithRun
    BY DEF WInv, QueueAgreesWithRun, Settled
<1> QED
    BY <1>1, WorkersInvariance, PTL

\* A success that a worker reports or acknowledges has been published.
THEOREM SuccessIsReal == WSpec => []SuccessIsPublished
<1>1. WInv => SuccessIsPublished
    BY DEF WInv, SuccessIsPublished, WorkerOK
<1> QED
    BY <1>1, WorkersInvariance, PTL

\* claim_run_attempt is a compare-and-set across processes: an attempt has one holder, and
\* an open one is held as the newest.
THEOREM OneClaimOneHolder == WSpec => []ClaimIsExclusive
<1>1. ASSUME WInv PROVE ClaimIsExclusive
    <2>1. \A w \in Workers : wk[w].att # 0 => wk[w].att \in DOMAIN attempts
        BY <1>1, Known, SMT DEF WorkerOK
    <2>2. OnlyLatestRunning
        BY <1>1 DEF WInv, IInv
    <2> QED
        BY <1>1, <2>1, <2>2 DEF WInv, OneHolder, ClaimIsExclusive, OnlyLatestRunning
<1>2. WInv => ClaimIsExclusive
    BY <1>1
<1> QED
    BY <1>2, WorkersInvariance, PTL

\* The workers use the rows as RunAttempts assumes: every durable step of any number of
\* them is a step of RunAttempts, whose theorems therefore hold of the workers.
THEOREM WorkersRefine == WSpec => ImplementsRunAttempts
<1>1. WInit => Init
    BY DEF WInit
<1>2. WInv /\ [WNext]_allVars => [Next]_vars
    BY StepWInv DEF Kept
<1> QED
    BY <1>1, <1>2, WorkersInvariance, PTL DEF WSpec, ImplementsRunAttempts, Spec
================================================================================
