-------------------------- MODULE RequestIntakeProofs --------------------------
(***************************************************************************)
(* Proofs, for every number of consumers, requests, deliveries and faults, *)
(* that a job stands behind every completed receipt, that no aggregate is  *)
(* served twice, and that intake implements RequestOutcomes.               *)
(***************************************************************************)
EXTENDS RequestIntake, TLAPS

\* Most steps are first-order; a step that needs arithmetic or records says SMT.
USE Zenon

Admitted(m) == receipt[m].status # "NONE"

\* What entitles a request to leave the queue.
Answered(m) ==
    \/ jobs[m] > 0
    \/ dead[m] # {} \/ receipt[m].status = "PERMANENT_FAILURE"
    \/ \E n \in Rivals(m) : Admitted(n)

\* A consumer that is past its claim works on an admitted request; one that will
\* complete the receipt has published; one that will delete has an answer.
WorkOK(c) ==
    at[c] # Idle =>
        /\ at[c].pc \in {"claimed"} \cup Settling => Admitted(at[c].msg)
        /\ at[c].pc = "COMPLETED" => jobs[at[c].msg] > 0
        /\ at[c].pc = "delete" => Answered(at[c].msg)

\* An admitted request passed every test before the claim and is alone in its aggregate.
AdmittedAlone ==
    \A m \in Messages : Admitted(m) =>
        /\ Verdict(lane, doc[m]) = "OK" /\ doc[m].outbox
        /\ \A n \in Rivals(m) : ~Admitted(n)

\* A published request was admitted, and agrees with the stored run.
PublishedAdmitted ==
    \A m \in Messages : jobs[m] > 0 => Admitted(m) /\ JobRefusal(lane, doc[m]) = "OK"

\* The inductive invariant.  CompletedHasJob needs WorkOK: whoever settles a receipt
\* as COMPLETED may have lost the claim, but has published.  That a request is answered
\* when it leaves needs CompletedHasJob, for the duplicates that are deleted.
IInv ==
    /\ TypeOK
    /\ \A c \in Consumers : WorkOK(c)
    /\ AdmittedAlone
    /\ PublishedAdmitted
    /\ CompletedHasJob
--------------------------------------------------------------------------------
\* Two requests of one aggregate, both sound, have the same sequence and are each
\* other's rivals.
LEMMA RivalsMutual ==
    ASSUME TypeOK, NEW m \in Messages, NEW n \in Rivals(m),
           Verdict(lane, doc[m]) = "OK", Verdict(lane, doc[n]) = "OK"
    PROVE  n \in Messages /\ m \in Rivals(n)
<1>1. n \in Messages \ {m} /\ doc[n].aggregate = doc[m].aggregate
    BY DEF Rivals
<1>2. doc[m].sequence = 1 /\ doc[n].sequence = 1
    BY <1>1, SequenceAssumption DEF TypeOK
<1> QED
    BY <1>1, <1>2 DEF Rivals

\* Rivalry is a matter of the documents, which no step changes.
LEMMA RivalsConstant ==
    ASSUME doc' = doc
    PROVE  \A m : Rivals(m)' = Rivals(m)
BY DEF Rivals

\* A step that neither touches a receipt nor a job nor a dead letter, and whose consumers
\* stay as they are or go idle, keeps the invariant.
LEMMA QueueStep ==
    ASSUME IInv, UNCHANGED <<lane, doc, receipt, jobs, dead>>,
           queue' \in [Messages -> Entry], faults' \in 0..MaxFaults,
           at' \in [Consumers -> {Idle} \cup Work],
           \A c \in Consumers : at'[c] # Idle =>
               /\ at[c] # Idle /\ at'[c].pc = at[c].pc /\ at'[c].msg = at[c].msg
               \/ at'[c].pc \in {"received", "return", "dead"}
    PROVE  IInv'
<1>1. TypeOK'
    BY DEF IInv, TypeOK
<1>2. ASSUME NEW c \in Consumers PROVE WorkOK(c)'
    BY RivalsConstant, SMT DEF IInv, WorkOK, Answered, Admitted, Settling
<1>3. AdmittedAlone' /\ PublishedAdmitted' /\ CompletedHasJob'
    BY RivalsConstant DEF IInv, AdmittedAlone, PublishedAdmitted, CompletedHasJob, Admitted
<1> QED
    BY <1>1, <1>2, <1>3 DEF IInv

\* Before the first delivery there is no receipt, no job and no consumer at work.
THEOREM InitInvariant == Init => IInv
<1> SUFFICES ASSUME Init PROVE IInv
    OBVIOUS
<1>1. TypeOK
    BY IntakeAssumption, SMT DEF Init, TypeOK, Entry, Receipt, NoReceipt, Settling
<1> QED
    BY <1>1, SMT DEF Init, IInv, WorkOK, AdmittedAlone, PublishedAdmitted, CompletedHasJob,
       Admitted, NoReceipt
--------------------------------------------------------------------------------
(* Steps of one consumer.                                                  *)

\* What a step may do to the evidence: receipts, jobs and dead letters are added, never
\* taken back, and a permanent failure is final.
Grows ==
    /\ UNCHANGED <<lane, doc>>
    /\ \A m \in Messages :
        /\ Admitted(m) => Admitted(m)'
        /\ jobs[m] > 0 => jobs'[m] > 0
        /\ dead[m] # {} => dead'[m] # {}
        /\ receipt[m].status = "PERMANENT_FAILURE" => receipt'[m].status = "PERMANENT_FAILURE"

\* An answered request stays answered.
LEMMA AnswersStay ==
    ASSUME Grows, NEW m \in Messages, Answered(m)
    PROVE  Answered(m)'
<1>1. Rivals(m)' = Rivals(m) /\ Rivals(m) \subseteq Messages
    BY RivalsConstant DEF Grows, Rivals
<1> QED
    BY <1>1 DEF Grows, Answered

\* The consumers that do not move keep what they rely on.
LEMMA OthersKeep ==
    ASSUME IInv, Grows, NEW b \in Consumers, at'[b] = at[b]
    PROVE  WorkOK(b)'
<1> SUFFICES ASSUME at[b] # Idle PROVE WorkOK(b)'
    BY DEF WorkOK
<1>1. at[b].msg \in Messages
    BY DEF IInv, TypeOK, Work
<1> QED
    BY <1>1, AnswersStay DEF IInv, WorkOK, Grows

\* Consumer c moves to p with its delivery, and the others stay.
Moved(c, p) ==
    /\ at' \in [Consumers -> {Idle} \cup Work]
    /\ at'[c].pc = p /\ at'[c].msg = at[c].msg
    /\ \A b \in Consumers \ {c} : at'[b] = at[b]

\* A consumer that changes its place and its reason keeps its delivery.
LEMMA MovesTo ==
    ASSUME TypeOK, NEW c \in Consumers, at[c] \in Work, NEW p \in Pcs, NEW r \in Reasons,
           at' = [at EXCEPT ![c].pc = p, ![c].reason = r]
    PROVE  Moved(c, p)
<1> DEFINE a == at[c]
           b == [a EXCEPT !.pc = p, !.reason = r]
<1>1. at' = [at EXCEPT ![c] = b]
    BY DEF TypeOK
<1>2. b \in Work /\ b.pc = p /\ b.msg = a.msg
    BY DEF Work
<1> QED
    BY <1>1, <1>2 DEF TypeOK, Moved

\* So does one that changes its place only.
LEMMA GoesTo ==
    ASSUME TypeOK, NEW c \in Consumers, at[c] \in Work, NEW p \in Pcs, Goto(c, p)
    PROVE  Moved(c, p)
<1> DEFINE a == at[c]
           b == [a EXCEPT !.pc = p]
<1>1. at' = [at EXCEPT ![c] = b]
    BY DEF TypeOK, Goto
<1>2. b \in Work /\ b.pc = p /\ b.msg = a.msg
    BY DEF Work
<1> QED
    BY <1>1, <1>2 DEF TypeOK, Moved

\* A consumer that is anywhere in handle has a delivery.
LEMMA Working ==
    ASSUME TypeOK, NEW c \in Consumers, at[c] # Idle
    PROVE  at[c] \in Work /\ at[c].msg \in Messages /\ at[c].count \in Nat
BY DEF TypeOK, Work

\* The places of handle are not the idle one.
LEMMA NotIdle ==
    ASSUME NEW c \in Consumers, at[c].pc \in Pcs
    PROVE  at[c] # Idle
BY SMT DEF Pcs, Settling, Idle

\* A queue effect on one message.
LEMMA EntryUpdate ==
    ASSUME TypeOK, NEW m \in Messages, NEW q, NEW b \in BOOLEAN,
           \/ q = [queue EXCEPT ![m].visible = b]
           \/ q = [queue EXCEPT ![m].there = b]
    PROVE  q \in [Messages -> Entry]
<1>1. queue \in [Messages -> Entry] /\ queue[m] \in Entry
    BY DEF TypeOK
<1>2. [queue[m] EXCEPT !.visible = b] \in Entry /\ [queue[m] EXCEPT !.there = b] \in Entry
    BY <1>1 DEF Entry
<1>3. q = [queue EXCEPT ![m] = [queue[m] EXCEPT !.visible = b]]
      \/ q = [queue EXCEPT ![m] = [queue[m] EXCEPT !.there = b]]
    BY <1>1
<1> QED
    BY <1>1, <1>2, <1>3

\* claim: an answer that keeps the delivery from being executed is an answer to it, and a
\* claim that admits a request finds no rival admitted, before or after.
LEMMA ClaimKeeps ==
    ASSUME IInv, NEW c \in Consumers, NEW m \in Messages, at[c].msg = m, Claim(c)
    PROVE  IInv'
<1> DEFINE a == at[c]
<1>0. UNCHANGED <<lane, doc, queue, jobs, dead, faults>>
    BY DEF Claim
<1>1. a \in Work /\ m \in Messages /\ a.pc = "received" /\ a.count \in Nat
    BY SMT DEF IInv, TypeOK, Claim, Work, Pcs, Idle
<1>2. Verdict(lane, doc[m]) = "OK"
    BY DEF Claim
<1>3. Moved(c, AfterClaim(Disposition(m)))
    <2> DEFINE p == AfterClaim(Disposition(m))
               r == IF Disposition(m) = "CONFLICT" THEN "IDEMPOTENCY_CONFLICT" ELSE a.reason
    <2>1. p \in Pcs
        BY DEF AfterClaim, Disposition, Pcs
    <2>2. r \in Reasons
        BY <1>1 DEF Work, Reasons
    <2>3. at' = [at EXCEPT ![c].pc = p, ![c].reason = r]
        BY DEF Claim
    <2> HIDE DEF p, r
    <2>4. Moved(c, p)
        BY <1>1, <2>1, <2>2, <2>3, MovesTo DEF IInv
    <2> QED
        BY <2>4 DEF p
<1>4. CASE Disposition(m) # "CLAIMED"
    <2>1. receipt' = receipt /\ Grows
        BY <1>0, <1>4 DEF Claim, Grows, Admitted
    <2>2. TypeOK'
        BY <1>0, <1>3, <2>1 DEF IInv, TypeOK, Moved
    <2>3. Disposition(m) \in {"DUPLICATE", "STALE"} => Answered(m)'
        <3>1. Disposition(m) \in {"DUPLICATE", "STALE"} => Answered(m)
            BY <1>1 DEF Disposition, Answered, IInv, CompletedHasJob, Admitted
        <3> QED
            BY <1>1, <2>1, <3>1, AnswersStay
    <2>4. Disposition(m) \in {"CONFLICT", "DUPLICATE", "BUSY", "STALE"}
        BY <1>4 DEF Disposition
    <2>5. WorkOK(c)'
        BY <1>3, <2>3, <2>4 DEF WorkOK, AfterClaim, Settling, Moved
    <2>6. AdmittedAlone' /\ PublishedAdmitted' /\ CompletedHasJob'
        BY <1>0, <2>1, RivalsConstant
        DEF IInv, AdmittedAlone, PublishedAdmitted, CompletedHasJob, Admitted
    <2> QED
        BY <1>3, <2>1, <2>2, <2>5, <2>6, OthersKeep DEF IInv, Moved
<1>5. CASE Disposition(m) = "CLAIMED"
    <2>1. /\ receipt[m].status \in {"NONE", "PROCESSING", "RETRYABLE_FAILURE"}
          /\ doc[m].outbox
          /\ receipt[m].status = "NONE" => \A n \in Rivals(m) : ~Admitted(n)
        BY <1>1, <1>5 DEF Disposition, IInv, TypeOK, Receipt, Settling, Admitted
    <2>2. receipt' = [receipt EXCEPT ![m] = [status |-> "PROCESSING", count |-> a.count,
                                             live |-> TRUE]]
        BY <1>5 DEF Claim
    <2>3. TypeOK'
        BY <1>0, <1>1, <1>3, <2>2 DEF IInv, TypeOK, Receipt, Moved
    <2>4. receipt'[m].status = "PROCESSING" /\ \A n \in Messages \ {m} : receipt'[n] = receipt[n]
        BY <1>1, <2>2 DEF IInv, TypeOK
    <2>5. Grows
        BY <1>0, <2>1, <2>4 DEF Grows, Admitted
    <2>6. WorkOK(c)'
        BY <1>3, <1>5, <2>4 DEF WorkOK, AfterClaim, Settling, Admitted, Moved
    <2>7. AdmittedAlone'
        <3>1. CASE receipt[m].status # "NONE"
            <4>1. \A n \in Messages : Admitted(n)' <=> Admitted(n)
                BY <2>4, <3>1 DEF Admitted
            <4> QED
                BY <1>0, <4>1, RivalsConstant DEF IInv, AdmittedAlone, Rivals
        <3>2. CASE receipt[m].status = "NONE"
            <4>1. \A n \in Messages : Admitted(n)' <=> Admitted(n) \/ n = m
                BY <2>4, <3>2 DEF Admitted
            <4>2. \A n \in Messages : Admitted(n) => m \notin Rivals(n)
                <5> SUFFICES ASSUME NEW n \in Messages, Admitted(n), m \in Rivals(n)
                             PROVE  FALSE
                    OBVIOUS
                <5>1. Verdict(lane, doc[n]) = "OK"
                    BY DEF IInv, AdmittedAlone
                <5>2. n \in Rivals(m)
                    BY <1>2, <5>1, RivalsMutual DEF IInv
                <5> QED
                    BY <2>1, <3>2, <5>2
            <4>3. m \notin Rivals(m) /\ \A n : Rivals(n) \subseteq Messages
                BY DEF Rivals
            <4> QED
                BY <1>0, <1>2, <2>1, <3>2, <4>1, <4>2, <4>3, RivalsConstant, SMT DEF IInv, AdmittedAlone
        <3> QED
            BY <3>1, <3>2
    <2>8. PublishedAdmitted' /\ CompletedHasJob'
        BY <1>0, <2>4 DEF IInv, PublishedAdmitted, CompletedHasJob, Admitted
    <2> QED
        BY <1>3, <2>3, <2>5, <2>6, <2>7, <2>8, OthersKeep DEF IInv, Moved
<1> QED
    BY <1>4, <1>5

\* The handler publishes a job, whether or not it then raises.
LEMMA PublishJobKeeps ==
    ASSUME IInv, NEW c \in Consumers, NEW m \in Messages, at[c].msg = m, at[c].pc = "claimed",
           JobRefusal(lane, doc[m]) = "OK", jobs' = [jobs EXCEPT ![m] = @ + 1],
           UNCHANGED <<lane, doc, queue, receipt, dead>>, faults' \in 0..MaxFaults,
           NEW p \in Settling, Moved(c, p)
    PROVE  IInv'
<1>1. at[c] # Idle /\ Admitted(m)
    BY NotIdle DEF IInv, WorkOK, Pcs
<1>2. jobs' \in [Messages -> Nat] /\ jobs'[m] > 0 /\ \A n \in Messages \ {m} : jobs'[n] = jobs[n]
    BY SMT DEF IInv, TypeOK
<1>3. TypeOK'
    BY <1>2 DEF IInv, TypeOK, Moved
<1>4. Grows
    BY <1>2 DEF Grows, Admitted
<1>5. WorkOK(c)'
    BY <1>1, <1>2 DEF WorkOK, Admitted, Moved, Settling
<1>6. AdmittedAlone' /\ PublishedAdmitted' /\ CompletedHasJob'
    BY <1>1, <1>2, RivalsConstant, SMT
    DEF IInv, AdmittedAlone, PublishedAdmitted, CompletedHasJob, Admitted
<1> QED
    BY <1>3, <1>4, <1>5, <1>6, OthersKeep DEF IInv, Moved

\* The handler ends without a job: only where the consumer stands changes.
LEMMA NoJobKeeps ==
    ASSUME IInv, NEW c \in Consumers, NEW m \in Messages, at[c].msg = m, at[c].pc = "claimed",
           UNCHANGED <<lane, doc, queue, receipt, jobs, dead>>, faults' \in 0..MaxFaults,
           NEW p \in Settling \ {"COMPLETED"}, Moved(c, p)
    PROVE  IInv'
<1>1. at[c] # Idle /\ Admitted(m)
    BY NotIdle DEF IInv, WorkOK, Pcs
<1>2. TypeOK' /\ Grows
    BY DEF IInv, TypeOK, Moved, Grows, Admitted
<1>3. WorkOK(c)'
    BY <1>1 DEF WorkOK, Admitted, Moved, Settling
<1>4. AdmittedAlone' /\ PublishedAdmitted' /\ CompletedHasJob'
    BY RivalsConstant DEF IInv, AdmittedAlone, PublishedAdmitted, CompletedHasJob, Admitted
<1> QED
    BY <1>2, <1>3, <1>4, OthersKeep DEF IInv, Moved

\* complete, retry and fail, when the receipt is PROCESSING.
LEMMA SettleKeeps ==
    ASSUME IInv, NEW c \in Consumers, NEW m \in Messages, at[c].msg = m, Settle(c),
           receipt[m].status = "PROCESSING"
    PROVE  IInv'
<1>0. UNCHANGED <<lane, doc, queue, jobs, dead, faults>>
    BY DEF Settle
<1>1. at[c] # Idle /\ at[c] \in Work /\ at[c].pc \in Settling
    BY NotIdle, Working DEF Settle, IInv, Pcs, Settling
<1> DEFINE p == CASE at[c].pc = "COMPLETED" -> "delete"
                  [] at[c].pc = "RETRYABLE_FAILURE" -> "return"
                  [] at[c].pc = "PERMANENT_FAILURE" -> "dead"
<1>2. /\ p \in Pcs /\ p \notin {"claimed"} \cup Settling
      /\ p = "delete" => at[c].pc = "COMPLETED"
    BY <1>1 DEF Pcs, Settling
<1>3. Goto(c, p)
    BY DEF Settle
<1>4. receipt' = [receipt EXCEPT ![m].status = at[c].pc, ![m].live = FALSE]
    BY DEF Settle
<1> HIDE DEF p
<1>5. Moved(c, p)
    BY <1>1, <1>2, <1>3, GoesTo DEF IInv
<1>6. /\ receipt' \in [Messages -> Receipt] /\ receipt'[m].status = at[c].pc
      /\ \A n \in Messages \ {m} : receipt'[n] = receipt[n]
    <2> DEFINE r == [receipt[m] EXCEPT !.status = at[c].pc, !.live = FALSE]
    <2>1. r \in Receipt /\ r.status = at[c].pc
        BY <1>1 DEF IInv, TypeOK, Receipt
    <2>2. receipt' = [receipt EXCEPT ![m] = r]
        BY <1>4 DEF IInv, TypeOK
    <2> QED
        BY <2>1, <2>2 DEF IInv, TypeOK
<1>7. TypeOK' /\ Grows
    BY <1>0, <1>1, <1>5, <1>6 DEF IInv, TypeOK, Moved, Grows, Admitted, Settling
<1>8. at[c].pc = "COMPLETED" => jobs'[m] > 0
    BY <1>0, <1>1 DEF IInv, WorkOK
<1>9. WorkOK(c)'
    BY <1>2, <1>5, <1>8 DEF WorkOK, Moved, Answered, Settling
<1>10. AdmittedAlone' /\ PublishedAdmitted' /\ CompletedHasJob'
    <2>1. \A n \in Messages : Admitted(n)' <=> Admitted(n)
        BY <1>1, <1>6 DEF Admitted, Settling
    <2> QED
        BY <1>0, <1>6, <1>8, <2>1, RivalsConstant
        DEF IInv, AdmittedAlone, PublishedAdmitted, CompletedHasJob, Rivals
<1> QED
    BY <1>5, <1>7, <1>9, <1>10, OthersKeep DEF IInv, Moved

\* _dead_letter: the copy is the answer that lets the request leave.
LEMMA DeadLetterKeeps ==
    ASSUME IInv, NEW c \in Consumers, NEW m \in Messages, at[c].msg = m, DeadLetter(c)
    PROVE  IInv'
<1>1. at[c] # Idle /\ at[c] \in Work /\ at[c].reason \in Reasons
    BY NotIdle, Working DEF DeadLetter, IInv, Pcs, Work
<1>2. Moved(c, "delete")
    BY <1>1, GoesTo DEF DeadLetter, IInv, Pcs
<1>3. /\ dead' \in [Messages -> SUBSET Reasons] /\ dead'[m] # {}
      /\ \A n \in Messages \ {m} : dead'[n] = dead[n]
    BY <1>1 DEF DeadLetter, IInv, TypeOK
<1>4. TypeOK' /\ Grows
    BY <1>2, <1>3 DEF DeadLetter, IInv, TypeOK, Moved, Grows, Admitted
<1>5. WorkOK(c)'
    BY <1>2, <1>3 DEF WorkOK, Moved, Answered, Settling
<1>6. AdmittedAlone' /\ PublishedAdmitted' /\ CompletedHasJob'
    BY RivalsConstant
    DEF DeadLetter, IInv, AdmittedAlone, PublishedAdmitted, CompletedHasJob, Admitted
<1> QED
    BY <1>2, <1>4, <1>5, <1>6, OthersKeep DEF IInv, Moved

\* The invariant is kept by every step.
THEOREM StepInvariant == IInv /\ [Next]_vars => IInv'
<1> SUFFICES ASSUME IInv, [Next]_vars PROVE IInv'
    OBVIOUS
<1> USE IntakeAssumption
<1>1. CASE UNCHANGED vars
    <2>1. /\ queue' \in [Messages -> Entry] /\ faults' \in 0..MaxFaults
          /\ at' \in [Consumers -> {Idle} \cup Work]
        BY <1>1 DEF vars, IInv, TypeOK
    <2> QED
        BY <1>1, <2>1, QueueStep DEF vars
<1>2. ASSUME NEW c \in Consumers, Step(c) \/ HandlerError(c) \/ Abandon(c) PROVE IInv'
    <2>1. CASE at[c] = Idle
        <3>1. PICK m \in Messages : Receive(c, m)
            BY <1>2, <2>1, SMT DEF Step, RefuseDelivery, Claim, PublishJob, RefuseJob, Settle, DeadLetter,
               Delete, Return, HandlerError, Abandon, Idle
        <3>2. queue' \in [Messages -> Entry] /\ faults' \in 0..MaxFaults /\ queue[m].count + 1 \in Nat
            BY <3>1, SMT DEF Receive, IInv, TypeOK, Entry
        <3>3. [pc |-> "received", msg |-> m, count |-> queue[m].count + 1, reason |-> "OK"] \in Work
            BY <3>2 DEF Work, Pcs, Reasons
        <3>4. /\ at' \in [Consumers -> {Idle} \cup Work] /\ at'[c].pc = "received"
              /\ \A b \in Consumers \ {c} : at'[b] = at[b]
            BY <3>1, <3>3 DEF Receive, IInv, TypeOK
        <3> QED
            BY <3>1, <3>2, <3>4, QueueStep DEF Receive
    <2>2. CASE at[c] # Idle
        <3>1. at[c] \in Work /\ at[c].msg \in Messages
            BY <2>2, Working DEF IInv
        <3>2. PICK m \in Messages : at[c].msg = m
            BY <3>1
        <3>3. CASE RefuseDelivery(c)
            <4> DEFINE r == IF at[c].count > MaxReceiveCount THEN "MAX_RECEIVE_COUNT_EXCEEDED"
                            ELSE Verdict(lane, doc[at[c].msg])
            <4>1. r \in Reasons
                BY DEF Verdict, Reasons
            <4>2. at' = [at EXCEPT ![c].pc = "dead", ![c].reason = r]
                BY <3>3 DEF RefuseDelivery
            <4> HIDE DEF r
            <4>3. Moved(c, "dead")
                BY <3>1, <4>1, <4>2, MovesTo DEF IInv, Pcs
            <4> QED
                BY <3>3, <4>3, QueueStep DEF RefuseDelivery, Moved, IInv, TypeOK
        <3>4. CASE Claim(c)
            BY <3>2, <3>4, ClaimKeeps
        <3>5. CASE PublishJob(c)
            <4>1. Moved(c, "COMPLETED")
                BY <3>1, <3>5, GoesTo DEF PublishJob, IInv, Pcs, Settling
            <4> QED
                BY <3>2, <3>5, <4>1, PublishJobKeeps DEF PublishJob, IInv, TypeOK, Settling
        <3>6. CASE RefuseJob(c)
            <4> DEFINE r == JobRefusal(lane, doc[at[c].msg])
            <4>1. r \in Reasons
                BY DEF JobRefusal, RequestPeriod, Reasons
            <4>2. at' = [at EXCEPT ![c].pc = "PERMANENT_FAILURE", ![c].reason = r]
                BY <3>6 DEF RefuseJob
            <4> HIDE DEF r
            <4>3. Moved(c, "PERMANENT_FAILURE")
                BY <3>1, <4>1, <4>2, MovesTo DEF IInv, Pcs, Settling
            <4> QED
                BY <3>2, <3>6, <4>3, NoJobKeeps DEF RefuseJob, IInv, TypeOK, Settling
        <3>7. CASE Settle(c)
            <4>1. CASE receipt[m].status = "PROCESSING"
                BY <3>2, <3>7, <4>1, SettleKeeps
            <4>2. CASE receipt[m].status # "PROCESSING"
                BY <3>2, <3>7, <4>2, QueueStep DEF Settle, Done, IInv, TypeOK
            <4> QED
                BY <4>1, <4>2
        <3>8. CASE DeadLetter(c)
            BY <3>2, <3>8, DeadLetterKeeps
        <3>9. CASE Delete(c) \/ Return(c)
            <4>1. queue' \in [Messages -> Entry]
                <5>1. \/ queue' = [queue EXCEPT ![m].there = FALSE]
                      \/ queue' = [queue EXCEPT ![m].visible = TRUE]
                      \/ queue' = queue
                    BY <3>2, <3>9 DEF Delete, Return
                <5>2. CASE queue' = queue
                    BY <5>2 DEF IInv, TypeOK
                <5>3. CASE queue' = [queue EXCEPT ![m].there = FALSE]
                    BY <5>3, EntryUpdate DEF IInv
                <5>4. CASE queue' = [queue EXCEPT ![m].visible = TRUE]
                    BY <5>4, EntryUpdate DEF IInv
                <5> QED
                    BY <5>1, <5>2, <5>3, <5>4
            <4> QED
                BY <3>9, <4>1, QueueStep DEF Delete, Return, Done, IInv, TypeOK
        <3>10. CASE HandlerError(c)
            <4> DEFINE p == IF at[c].count < MaxReceiveCount THEN "RETRYABLE_FAILURE"
                            ELSE "PERMANENT_FAILURE"
            <4>1. p \in Settling \ {"COMPLETED"} /\ p \in Pcs
                BY DEF Settling, Pcs
            <4>2. at' = [at EXCEPT ![c].pc = p, ![c].reason = "INTAKE_ERROR"]
                BY <3>10 DEF HandlerError
            <4>3. faults' \in 0..MaxFaults
                BY <3>10, SMT DEF HandlerError, Fault, IInv, TypeOK
            <4> HIDE DEF p
            <4>4. Moved(c, p)
                BY <3>1, <4>1, <4>2, MovesTo DEF IInv, Reasons
            <4>5. CASE UNCHANGED jobs
                BY <3>2, <3>10, <4>1, <4>3, <4>4, <4>5, NoJobKeeps DEF HandlerError
            <4>6. CASE /\ JobRefusal(lane, doc[m]) = "OK"
                       /\ jobs' = [jobs EXCEPT ![m] = @ + 1]
                BY <3>2, <3>10, <4>1, <4>3, <4>4, <4>6, PublishJobKeeps DEF HandlerError
            <4> QED
                BY <3>2, <3>10, <4>5, <4>6 DEF HandlerError
        <3>11. CASE Abandon(c)
            <4>1. faults' \in 0..MaxFaults
                BY <3>11, SMT DEF Abandon, Fault, IInv, TypeOK
            <4> QED
                BY <3>11, <4>1, QueueStep DEF Abandon, Done, IInv, TypeOK
        <3> QED
            BY <1>2, <2>2, <3>3, <3>4, <3>5, <3>6, <3>7, <3>8, <3>9, <3>10, <3>11 DEF Step, Receive
    <2> QED
        BY <2>1, <2>2
<1>3. ASSUME NEW m \in Messages, Redeliver(m) \/ RedeliverEarly(m) PROVE IInv'
    <2>1. queue' \in [Messages -> Entry] /\ faults' \in 0..MaxFaults
        <3>1. queue' = [queue EXCEPT ![m].visible = TRUE]
            BY <1>3 DEF Redeliver, RedeliverEarly
        <3>2. queue' \in [Messages -> Entry]
            BY <3>1, EntryUpdate DEF IInv
        <3>3. faults' \in 0..MaxFaults
            BY <1>3, SMT DEF Redeliver, RedeliverEarly, Fault, IInv, TypeOK
        <3> QED
            BY <3>2, <3>3
    <2> QED
        BY <1>3, <2>1, QueueStep DEF Redeliver, RedeliverEarly, IInv, TypeOK
<1>4. ASSUME NEW m \in Messages, ClaimLapse(m) PROVE IInv'
    <2>1. UNCHANGED <<lane, doc, queue, jobs, dead, at, faults>>
        BY <1>4 DEF ClaimLapse
    <2>2. receipt' \in [Messages -> Receipt] /\ \A n \in Messages : receipt'[n].status = receipt[n].status
        BY <1>4 DEF ClaimLapse, IInv, TypeOK, Receipt
    <2>3. TypeOK' /\ Grows
        BY <2>1, <2>2 DEF IInv, TypeOK, Grows, Admitted
    <2>4. AdmittedAlone' /\ PublishedAdmitted' /\ CompletedHasJob'
        BY <2>1, <2>2, RivalsConstant
        DEF IInv, AdmittedAlone, PublishedAdmitted, CompletedHasJob, Admitted, Rivals
    <2> QED
        BY <2>1, <2>3, <2>4, OthersKeep DEF IInv
<1> QED
    BY <1>1, <1>2, <1>3, <1>4 DEF Next

\* The inductive invariant holds in every reachable state.
THEOREM Invariance == Spec => []IInv
BY InitInvariant, StepInvariant, PTL DEF Spec

\* The queue, the receipts and the consumers keep their types.
THEOREM TypeCorrect == Spec => []TypeOK
BY Invariance, PTL DEF IInv

\* claim answers DUPLICATE to a completed receipt and _transition asks for PROCESSING, so
\* no step of a consumer, nor the end of a claim, moves a receipt on from COMPLETED.
LEMMA CompletedStays ==
    ASSUME IInv, Next, NEW m \in Messages, receipt[m].status = "COMPLETED"
    PROVE  receipt'[m].status = "COMPLETED"
<1>0. receipt \in [Messages -> Receipt]
    BY DEF IInv, TypeOK
<1>1. ASSUME NEW c \in Consumers, Claim(c) PROVE receipt'[m] = receipt[m]
    <2>1. CASE Disposition(at[c].msg) # "CLAIMED"
        BY <1>1, <2>1 DEF Claim
    <2>2. CASE Disposition(at[c].msg) = "CLAIMED"
        <3>1. at[c].msg # m
            BY <2>2 DEF Disposition
        <3> QED
            BY <1>0, <1>1, <2>2, <3>1 DEF Claim
    <2> QED
        BY <2>1, <2>2
<1>2. ASSUME NEW c \in Consumers, Settle(c) PROVE receipt'[m] = receipt[m]
    <2>1. CASE receipt[at[c].msg].status # "PROCESSING"
        BY <1>2, <2>1 DEF Settle
    <2>2. CASE receipt[at[c].msg].status = "PROCESSING"
        <3>1. at[c].msg # m
            BY <2>2
        <3> QED
            BY <1>0, <1>2, <2>2, <3>1 DEF Settle
    <2> QED
        BY <2>1, <2>2
<1>3. ASSUME NEW n \in Messages, ClaimLapse(n) PROVE receipt'[m].status = receipt[m].status
    BY <1>0, <1>3 DEF ClaimLapse, Receipt
<1>4. CASE UNCHANGED receipt
    BY <1>4
<1> QED
    BY <1>1, <1>2, <1>3, <1>4
    DEF Next, Step, Receive, RefuseDelivery, PublishJob, RefuseJob, DeadLetter, Delete, Return,
        HandlerError, Abandon, Redeliver, RedeliverEarly

\* A completed receipt has a job behind it, and stays completed (claim, _transition).
THEOREM CompletionIsReal == Spec => CompletedIsPublished
<1>1. IInv /\ [Next]_vars => [\A m \in Messages :
          receipt[m].status = "COMPLETED" => receipt'[m].status = "COMPLETED"]_vars
    BY CompletedStays
<1>2. IInv => CompletedHasJob
    BY DEF IInv
<1> QED
    BY <1>1, <1>2, Invariance, PTL DEF Spec, CompletedIsPublished

\* Only a sound request is served, and one of an aggregate at most
\* (PostgresRequestReceiptStore.claim).
THEOREM ServedOnce == Spec => []PublishedIsAuthorized
<1>1. IInv => PublishedIsAuthorized
    BY SMT DEF IInv, PublishedIsAuthorized, PublishedAdmitted, AdmittedAlone, TypeOK, Rivals
<1> QED
    BY <1>1, Invariance, PTL
--------------------------------------------------------------------------------
(* Intake implements RequestOutcomes.                                      *)

\* What the outcomes show of a state.
AdmittedSet == {m \in Messages : receipt[m].status # "NONE"}
PublishedSet == {m \in Messages : jobs[m] > 0}
RefusedSet == {m \in Messages : dead[m] # {} \/ receipt[m].status = "PERMANENT_FAILURE"}
LeftSet == {m \in Messages : ~queue[m].there}

\* The outcomes do not change.
Silent == UNCHANGED <<doc, AdmittedSet, PublishedSet, RefusedSet, LeftSet>>

\* Then the step is a stutter of RequestOutcomes.
LEMMA SilentStutters ==
    ASSUME Silent
    PROVE  UNCHANGED Outcomes!outcomes
BY RivalsConstant DEF Silent, AdmittedSet, PublishedSet, RefusedSet, LeftSet, Outcomes!outcomes

\* A first claim is an admission.
LEMMA AdmitShows ==
    ASSUME NEW m \in Messages, UNCHANGED <<doc, PublishedSet, RefusedSet, LeftSet>>,
           m \notin AdmittedSet, Rivals(m) \cap AdmittedSet = {},
           AdmittedSet' = AdmittedSet \cup {m}
    PROVE  Outcomes!Next
<1>1. Outcomes!Admit(m)
    BY RivalsConstant DEF AdmittedSet, PublishedSet, RefusedSet, LeftSet, Outcomes!Admit
<1> QED
    BY <1>1 DEF Outcomes!Next

\* A job is a publication.
LEMMA PublishShows ==
    ASSUME NEW m \in Messages, UNCHANGED <<doc, AdmittedSet, RefusedSet, LeftSet>>,
           m \in AdmittedSet, PublishedSet' = PublishedSet \cup {m}
    PROVE  Outcomes!Next
<1>1. Outcomes!Publish(m)
    BY RivalsConstant DEF AdmittedSet, PublishedSet, RefusedSet, LeftSet, Outcomes!Publish
<1> QED
    BY <1>1 DEF Outcomes!Next

\* A dead letter and a permanent failure are refusals.
LEMMA RefuseShows ==
    ASSUME NEW m \in Messages, UNCHANGED <<doc, AdmittedSet, PublishedSet, LeftSet>>,
           RefusedSet' = RefusedSet \cup {m}
    PROVE  Outcomes!Next
<1>1. Outcomes!Refuse(m)
    BY RivalsConstant DEF AdmittedSet, PublishedSet, RefusedSet, LeftSet, Outcomes!Refuse
<1> QED
    BY <1>1 DEF Outcomes!Next

\* A delete lets an answered request leave.
LEMMA LeaveShows ==
    ASSUME NEW m \in Messages, UNCHANGED <<doc, AdmittedSet, PublishedSet, RefusedSet>>,
           Answered(m), LeftSet' = LeftSet \cup {m}
    PROVE  Outcomes!Next
<1>1. Rivals(m) \subseteq Messages
    BY DEF Rivals
<1>2. Outcomes!Leave(m)
    BY <1>1, RivalsConstant
    DEF Answered, Admitted, AdmittedSet, PublishedSet, RefusedSet, LeftSet, Outcomes!Leave
<1> QED
    BY <1>2 DEF Outcomes!Next

\* Every step of intake is a step of the outcomes, or leaves them as they are.
THEOREM StepOutcome == IInv /\ [Next]_vars => [Outcomes!Next]_(Outcomes!outcomes)
<1> SUFFICES ASSUME IInv, [Next]_vars PROVE Outcomes!Next \/ Silent
    BY SilentStutters
<1> USE DEF AdmittedSet, PublishedSet, RefusedSet, LeftSet
<1>1. CASE UNCHANGED vars
    BY <1>1 DEF vars, Silent
<1>2. ASSUME NEW c \in Consumers, Step(c) \/ HandlerError(c) \/ Abandon(c)
      PROVE  Outcomes!Next \/ Silent
    <2>1. ASSUME NEW m \in Messages, Receive(c, m) PROVE Silent
        <3>1. \A n \in Messages : queue'[n].there = queue[n].there
            BY <2>1 DEF Receive, IInv, TypeOK, Entry
        <3> QED
            BY <2>1, <3>1 DEF Receive, Silent
    <2>2. CASE RefuseDelivery(c)
        BY <2>2 DEF RefuseDelivery, Silent
    <2>3. CASE RefuseJob(c)
        BY <2>3 DEF RefuseJob, Silent
    <2>4. CASE Abandon(c)
        BY <2>4 DEF Abandon, Silent
    <2>5. ASSUME NEW m \in Messages, at[c].msg = m, Claim(c) PROVE Outcomes!Next \/ Silent
        <3>1. UNCHANGED <<doc, queue, jobs, dead>>
            BY <2>5 DEF Claim
        <3>2. CASE Disposition(m) # "CLAIMED"
            BY <2>5, <3>1, <3>2 DEF Claim, Silent
        <3>3. CASE Disposition(m) = "CLAIMED"
            <4>1. /\ receipt'[m].status = "PROCESSING"
                  /\ \A n \in Messages \ {m} : receipt'[n] = receipt[n]
                BY <2>5, <3>3 DEF Claim, IInv, TypeOK
            <4>2. /\ receipt[m].status # "PERMANENT_FAILURE"
                  /\ receipt[m].status = "NONE" => \A n \in Rivals(m) : receipt[n].status = "NONE"
                BY <3>3 DEF Disposition
            <4>3. UNCHANGED <<PublishedSet, RefusedSet, LeftSet>>
                BY <3>1, <4>1, <4>2
            <4>4. CASE receipt[m].status = "NONE"
                <5>1. m \notin AdmittedSet /\ Rivals(m) \cap AdmittedSet = {}
                    BY <4>2, <4>4
                <5>2. AdmittedSet' = AdmittedSet \cup {m}
                    BY <4>1
                <5> QED
                    BY <3>1, <4>3, <5>1, <5>2, AdmitShows
            <4>5. CASE receipt[m].status # "NONE"
                <5>1. AdmittedSet' = AdmittedSet
                    BY <4>1, <4>5
                <5> QED
                    BY <3>1, <4>3, <5>1 DEF Silent
            <4> QED
                BY <4>4, <4>5
        <3> QED
            BY <3>2, <3>3
    <2>6. ASSUME NEW m \in Messages, at[c].msg = m, PublishJob(c) \/ HandlerError(c)
          PROVE  Outcomes!Next \/ Silent
        <3>1. UNCHANGED <<doc, queue, receipt, dead>> /\ at[c].pc = "claimed"
            BY <2>6 DEF PublishJob, HandlerError
        <3>2. CASE UNCHANGED jobs
            BY <3>1, <3>2 DEF Silent
        <3>3. CASE jobs' = [jobs EXCEPT ![m] = @ + 1]
            <4>1. m \in AdmittedSet
                BY <2>6, <3>1, NotIdle DEF IInv, WorkOK, Pcs, Admitted
            <4>2. PublishedSet' = PublishedSet \cup {m}
                BY <3>3, SMT DEF IInv, TypeOK
            <4> QED
                BY <3>1, <4>1, <4>2, PublishShows
        <3> QED
            BY <2>6, <3>2, <3>3 DEF PublishJob, HandlerError
    <2>7. ASSUME NEW m \in Messages, at[c].msg = m, Settle(c) PROVE Outcomes!Next \/ Silent
        <3>1. UNCHANGED <<doc, queue, jobs, dead>> /\ at[c].pc \in Settling
            BY <2>7 DEF Settle, Settling
        <3>2. CASE receipt[m].status # "PROCESSING"
            BY <2>7, <3>1, <3>2 DEF Settle, Silent
        <3>3. CASE receipt[m].status = "PROCESSING"
            <4>1. receipt' = [receipt EXCEPT ![m].status = at[c].pc, ![m].live = FALSE]
                BY <2>7, <3>3 DEF Settle
            <4>2. receipt'[m].status = at[c].pc /\ \A n \in Messages \ {m} : receipt'[n] = receipt[n]
                <5> DEFINE r == [receipt[m] EXCEPT !.status = at[c].pc, !.live = FALSE]
                <5>1. receipt[m] \in Receipt /\ receipt' = [receipt EXCEPT ![m] = r]
                    BY <4>1 DEF IInv, TypeOK
                <5>2. r.status = at[c].pc
                    BY <5>1 DEF Receipt
                <5> QED
                    BY <5>1, <5>2 DEF IInv, TypeOK
            <4>3. UNCHANGED <<AdmittedSet, PublishedSet, LeftSet>>
                BY <3>1, <3>3, <4>2 DEF Settling
            <4>4. CASE at[c].pc = "PERMANENT_FAILURE"
                <5>1. RefusedSet' = RefusedSet \cup {m}
                    BY <3>1, <4>2, <4>4
                <5> QED
                    BY <3>1, <4>3, <5>1, RefuseShows
            <4>5. CASE at[c].pc # "PERMANENT_FAILURE"
                <5>1. RefusedSet' = RefusedSet
                    BY <3>1, <3>3, <4>2, <4>5
                <5> QED
                    BY <3>1, <4>3, <5>1 DEF Silent
            <4> QED
                BY <4>4, <4>5
        <3> QED
            BY <3>2, <3>3
    <2>8. ASSUME NEW m \in Messages, at[c].msg = m, DeadLetter(c) PROVE Outcomes!Next
        <3>1. RefusedSet' = RefusedSet \cup {m}
            BY <2>8 DEF DeadLetter, IInv, TypeOK
        <3> QED
            BY <2>8, <3>1, RefuseShows DEF DeadLetter
    <2>9. ASSUME NEW m \in Messages, at[c].msg = m, Delete(c) PROVE Outcomes!Next \/ Silent
        <3>1. UNCHANGED <<doc, receipt, jobs, dead>> /\ at[c].pc = "delete"
            BY <2>9 DEF Delete
        <3>2. CASE UNCHANGED queue
            BY <3>1, <3>2 DEF Silent
        <3>3. CASE queue' = [queue EXCEPT ![m].there = FALSE]
            <4>1. LeftSet' = LeftSet \cup {m}
                BY <3>3 DEF IInv, TypeOK, Entry
            <4>2. Answered(m)
                BY <2>9, <3>1, NotIdle DEF IInv, WorkOK, Pcs
            <4> QED
                BY <3>1, <4>1, <4>2, LeaveShows
        <3> QED
            BY <2>9, <3>2, <3>3 DEF Delete
    <2>10. ASSUME NEW m \in Messages, at[c].msg = m, Return(c) PROVE Silent
        <3>1. \A n \in Messages : queue'[n].there = queue[n].there
            BY <2>10, SMT DEF Return, IInv, TypeOK, Entry
        <3> QED
            BY <2>10, <3>1 DEF Return, Silent
    <2>11. CASE at[c] = Idle
        <3>1. PICK m \in Messages : Receive(c, m)
            BY <1>2, <2>11, SMT DEF Step, RefuseDelivery, Claim, PublishJob, RefuseJob, Settle, DeadLetter,
               Delete, Return, HandlerError, Abandon, Idle
        <3> QED
            BY <2>1, <3>1
    <2>12. CASE at[c] # Idle
        <3>1. PICK m \in Messages : at[c].msg = m
            BY <2>12, Working DEF IInv
        <3> QED
            BY <1>2, <2>12, <3>1, <2>2, <2>3, <2>4, <2>5, <2>6, <2>7, <2>8, <2>9, <2>10
            DEF Step, Receive
    <2> QED
        BY <2>11, <2>12
<1>3. ASSUME NEW m \in Messages, Redeliver(m) \/ RedeliverEarly(m) PROVE Silent
    <2>1. \A n \in Messages : queue'[n].there = queue[n].there
        BY <1>3 DEF Redeliver, RedeliverEarly, IInv, TypeOK, Entry
    <2> QED
        BY <1>3, <2>1 DEF Redeliver, RedeliverEarly, Silent
<1>4. ASSUME NEW m \in Messages, ClaimLapse(m) PROVE Silent
    <2>1. \A n \in Messages : receipt'[n].status = receipt[n].status
        BY <1>4 DEF ClaimLapse, IInv, TypeOK, Receipt
    <2> QED
        BY <1>4, <2>1 DEF ClaimLapse, Silent
<1> QED
    BY <1>1, <1>2, <1>3, <1>4 DEF Next

\* Intake keeps the promise of RequestOutcomes (handle): admissions exclude rivals, jobs
\* follow admissions, and nothing leaves the queue unanswered.
THEOREM Refinement == Spec => ImplementsOutcomes
<1>1. Init => Outcomes!Init
    BY SMT DEF Init, Outcomes!Init, NoReceipt, Rivals
<1> QED
    BY <1>1, StepOutcome, Invariance, PTL DEF Spec, ImplementsOutcomes, Outcomes!Spec
================================================================================
