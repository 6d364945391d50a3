---------------------------- MODULE RequestIntake ----------------------------
(***************************************************************************)
(* The intake of backtest requests: several consumers of one lane's queue, *)
(* the receipts that make a request count once, the handler that turns it  *)
(* into an execution job, retries and the dead-letter queue.               *)
(*                                                                         *)
(* A request is a record of facts: what each test of the envelope, of the  *)
(* document and of the stored run finds.  Every replica of a lane has the  *)
(* same consumer_id, so a message has one receipt.  The queue delivers at  *)
(* least once; a handle that is no longer the newest may or may not work.  *)
(* A consumer may stop anywhere (a crash, or an exception that leaves      *)
(* handle), and a delivery may become visible again while its consumer is  *)
(* still at work: MaxFaults bounds how often.                              *)
(***************************************************************************)
EXTENDS Naturals, FiniteSets

CONSTANTS Consumers,        \* the replicas that poll the lane's queue
          Messages,         \* the messages relayed to it
          Deliveries,       \* a lane, and the facts about each message: [lane, doc]
          MaxReceiveCount,  \* RequestIntakeConfig.max_receive_count
          MaxFaults         \* bound: crashes, exceptions and early redeliveries

\* RequestIntakeConfig.__post_init__.
ValidConfig == MaxReceiveCount \in Nat /\ MaxReceiveCount >= 1

ASSUME IntakeAssumption == ValidConfig /\ MaxFaults \in Nat /\ IsFiniteSet(Messages)

VARIABLES lane,     \* the lane of the queue and of its consumers
          doc,      \* doc[m]: the facts about message m
          queue,    \* queue[m]: there, visible, and how often received
          receipt,  \* receipt[m]: operations.outbox_consumer_receipts
          jobs,     \* jobs[m]: how many execution jobs were published for m
          dead,     \* dead[m]: the reasons of its copies in the dead-letter queue
          at,       \* at[c]: where consumer c is in handle, and with what
          faults    \* how many faults have happened

vars == <<lane, doc, queue, receipt, jobs, dead, at, faults>>

Idle == [pc |-> "idle"]

NoReceipt == [status |-> "NONE", count |-> 0, live |-> FALSE]

---------------------------------------------------------------------------
(* The tests a request passes or fails, in the order of the code.          *)

\* validate_backtest_request: the official contract of the Basic lane, or the
\* Custom and Competition contract with its content-bound identities.  Only a
\* Competition key can be recomputed from the request.
ValidRequest(l, d) ==
    /\ d.json /\ d.shape
    /\ \/ l = "BASIC"
       \/ d.requestHash /\ d.correlation /\ d.messageId /\ (d.key \/ l = "CUSTOM")

\* handle, up to the claim: the reason a request is dead-lettered, or OK.
Verdict(l, d) ==
    IF ~d.attributes THEN "TRANSPORT_ENVELOPE_INVALID"
    ELSE IF ~d.hash THEN "PAYLOAD_HASH_MISMATCH"
    ELSE IF d.json /\ ~d.version THEN "UNSUPPORTED_CONTRACT_VERSION"
    ELSE IF ~ValidRequest(l, d) THEN "CONTRACT_VIOLATION"
    ELSE IF ~d.type THEN "UNEXPECTED_MESSAGE_TYPE"
    ELSE IF ~d.envelope THEN "TRANSPORT_ENVELOPE_MISMATCH"
    ELSE "OK"

\* The schema and validate_backtest_request admit no aggregateSequence but 1.
ASSUME SequenceAssumption ==
    \A d \in Deliveries : \A m \in Messages :
        Verdict(d.lane, d.doc[m]) = "OK" => d.doc[m].sequence = 1

\* _request_period: the requested datasets and features, and the dates.  Of a
\* Competition request's datasets, which requested counts, one is MARKET_BARS;
\* that it has one period is part of its shape.
RequestPeriod(l, d) ==
    IF ~d.pins THEN "REQUEST_JOB_INPUT_INVALID"
    ELSE IF l = "COMPETITION" /\ d.requested # 1 THEN "MARKET_BARS_DATASET_INVALID"
    ELSE IF ~d.dates THEN "REQUEST_JOB_INPUT_INVALID"
    ELSE "OK"

\* BacktestRequestJobPublisher.__call__: the request against the stored run.
\* bars counts the run's MARKET_BARS datasets, named those the request names.
JobRefusal(l, d) ==
    IF ~d.ids THEN "REQUEST_JOB_INPUT_INVALID"
    ELSE IF ~d.run THEN "RUN_NOT_FOUND"
    ELSE IF d.bars = 0 \/ (l = "COMPETITION" /\ d.bars # 1) THEN "MARKET_BARS_DATASET_INVALID"
    ELSE IF d.named # 1 THEN "MARKET_BARS_DATASET_INVALID"
    ELSE IF RequestPeriod(l, d) # "OK" THEN RequestPeriod(l, d)
    ELSE IF ~d.same THEN "RUN_IDENTITY_MISMATCH"
    ELSE IF ~d.fingerprint THEN "RUN_CONFIGURATION_HASH_INVALID"
    ELSE "OK"

---------------------------------------------------------------------------
(* Receipts.                                                               *)

\* The requests of m's aggregate that m must come after: a run's identifier
\* in the Custom and Competition lanes, the bot's in the Basic lane.
Rivals(m) ==
    {n \in Messages \ {m} : /\ doc[n].aggregate = doc[m].aggregate
                            /\ doc[m].sequence <= doc[n].sequence}

\* Defective variant: a sequence number that repeats is taken as new.
DispositionAcceptsRepeats(m) ==
    LET r == receipt[m] IN
    IF ~doc[m].outbox THEN "CONFLICT"
    ELSE IF r.status \in {"COMPLETED", "PERMANENT_FAILURE"} THEN "DUPLICATE"
    ELSE IF r.status = "PROCESSING" /\ r.live THEN "BUSY"
    ELSE "CLAIMED"

\* PostgresRequestReceiptStore.claim, under the aggregate's advisory lock.  A
\* message that has a receipt is not compared with the aggregate's sequence.
Disposition(m) ==
    LET r == receipt[m] IN
    IF ~doc[m].outbox THEN "CONFLICT"
    ELSE IF r.status \in {"COMPLETED", "PERMANENT_FAILURE"} THEN "DUPLICATE"
    ELSE IF r.status = "PROCESSING" /\ r.live THEN "BUSY"
    ELSE IF r.status = "NONE" /\ \E n \in Rivals(m) : receipt[n].status # "NONE" THEN "STALE"
    ELSE "CLAIMED"

\* The step of handle that follows each answer of claim.
\* Defective variant: a message that another consumer is working on is deleted.
AfterClaimDropsBusy(disposition) ==
    CASE disposition = "CONFLICT" -> "dead"
      [] disposition \in {"DUPLICATE", "STALE", "BUSY"} -> "delete"
      [] disposition = "CLAIMED" -> "claimed"

AfterClaim(disposition) ==
    CASE disposition = "CONFLICT" -> "dead"
      [] disposition \in {"DUPLICATE", "STALE"} -> "delete"
      [] disposition = "BUSY" -> "return"
      [] disposition = "CLAIMED" -> "claimed"

---------------------------------------------------------------------------
(* The queue.                                                              *)

Visible(m) == queue[m].there /\ queue[m].visible

\* The delivery that consumer c works on is the newest one of its message.
Newest(c) == queue[at[c].msg].there /\ queue[at[c].msg].count = at[c].count

Goto(c, pc) == at' = [at EXCEPT ![c].pc = pc]

Done(c) == at' = [at EXCEPT ![c] = Idle]

Fault == faults < MaxFaults /\ faults' = faults + 1

Init ==
    /\ \E d \in Deliveries : lane = d.lane /\ doc = d.doc
    /\ queue = [m \in Messages |-> [there |-> TRUE, visible |-> TRUE, count |-> 0]]
    /\ receipt = [m \in Messages |-> NoReceipt]
    /\ jobs = [m \in Messages |-> 0]
    /\ dead = [m \in Messages |-> {}]
    /\ at = [c \in Consumers |-> Idle]
    /\ faults = 0

\* poll_once: one message, invisible to others for a while.
Receive(c, m) ==
    /\ at[c] = Idle
    /\ Visible(m)
    /\ queue' = [queue EXCEPT ![m].visible = FALSE, ![m].count = @ + 1]
    /\ at' = [at EXCEPT ![c] = [pc |-> "received", msg |-> m,
                                count |-> queue[m].count + 1, reason |-> "OK"]]
    /\ UNCHANGED <<lane, doc, receipt, jobs, dead, faults>>

\* handle, from the receive count to a refusal before any receipt is touched.
\* Defective variant: nothing is done with a message received too often.
RefuseDeliveryIgnoresLimit(c) ==
    LET a == at[c] IN
    /\ a.pc = "received"
    /\ Verdict(lane, doc[a.msg]) # "OK"
    /\ at' = [at EXCEPT ![c].pc = "dead", ![c].reason = Verdict(lane, doc[a.msg])]
    /\ UNCHANGED <<lane, doc, queue, receipt, jobs, dead, faults>>

RefuseDelivery(c) ==
    LET a == at[c]
        reason == IF a.count > MaxReceiveCount THEN "MAX_RECEIVE_COUNT_EXCEEDED"
                  ELSE Verdict(lane, doc[a.msg])
    IN  /\ a.pc = "received"
        /\ reason # "OK"
        /\ at' = [at EXCEPT ![c].pc = "dead", ![c].reason = reason]
        /\ UNCHANGED <<lane, doc, queue, receipt, jobs, dead, faults>>

\* handle: the claim and what its answer leads to.
Claim(c) ==
    LET a == at[c]
        m == a.msg
    IN  /\ a.pc = "received"
        /\ a.count <= MaxReceiveCount
        /\ Verdict(lane, doc[m]) = "OK"
        /\ at' = [at EXCEPT ![c].pc = AfterClaim(Disposition(m)),
                            ![c].reason = IF Disposition(m) = "CONFLICT"
                                          THEN "IDEMPOTENCY_CONFLICT" ELSE @]
        /\ receipt' = IF Disposition(m) = "CLAIMED"
                      THEN [receipt EXCEPT ![m] = [status |-> "PROCESSING",
                                                   count |-> a.count, live |-> TRUE]]
                      ELSE receipt
        /\ UNCHANGED <<lane, doc, queue, jobs, dead, faults>>

\* The handler publishes the job.
PublishJob(c) ==
    LET m == at[c].msg IN
    /\ at[c].pc = "claimed"
    /\ JobRefusal(lane, doc[m]) = "OK"
    /\ jobs' = [jobs EXCEPT ![m] = @ + 1]
    /\ Goto(c, "COMPLETED")
    /\ UNCHANGED <<lane, doc, queue, receipt, dead, faults>>

\* The handler refuses the request: RequestProcessingError, not retryable.
RefuseJob(c) ==
    LET m == at[c].msg IN
    /\ at[c].pc = "claimed"
    /\ JobRefusal(lane, doc[m]) # "OK"
    /\ at' = [at EXCEPT ![c].pc = "PERMANENT_FAILURE", ![c].reason = JobRefusal(lane, doc[m])]
    /\ UNCHANGED <<lane, doc, queue, receipt, jobs, dead, faults>>

\* The handler raises anything else, before or after the queue took the job.
HandlerError(c) ==
    LET a == at[c] IN
    /\ a.pc = "claimed"
    /\ Fault
    /\ \/ UNCHANGED jobs
       \/ /\ JobRefusal(lane, doc[a.msg]) = "OK"
          /\ jobs' = [jobs EXCEPT ![a.msg] = @ + 1]
    /\ at' = [at EXCEPT ![c].pc = IF a.count < MaxReceiveCount
                                  THEN "RETRYABLE_FAILURE" ELSE "PERMANENT_FAILURE",
                        ![c].reason = "INTAKE_ERROR"]
    /\ UNCHANGED <<lane, doc, queue, receipt, dead>>

\* Defective variant: the UPDATE does not ask for the status PROCESSING.
SettleAnyStatus(c) ==
    LET a == at[c] IN
    /\ a.pc \in {"COMPLETED", "RETRYABLE_FAILURE", "PERMANENT_FAILURE"}
    /\ receipt' = [receipt EXCEPT ![a.msg].status = a.pc, ![a.msg].live = FALSE]
    /\ Goto(c, CASE a.pc = "COMPLETED" -> "delete"
                 [] a.pc = "RETRYABLE_FAILURE" -> "return"
                 [] a.pc = "PERMANENT_FAILURE" -> "dead")
    /\ UNCHANGED <<lane, doc, queue, jobs, dead, faults>>

\* complete, retry and fail: one UPDATE of a receipt that is PROCESSING, whoever
\* holds its claim.  When it changes no row, RuntimeError leaves handle.
Settle(c) ==
    LET a == at[c] IN
    /\ a.pc \in {"COMPLETED", "RETRYABLE_FAILURE", "PERMANENT_FAILURE"}
    /\ IF receipt[a.msg].status = "PROCESSING"
       THEN /\ receipt' = [receipt EXCEPT ![a.msg].status = a.pc, ![a.msg].live = FALSE]
            /\ Goto(c, CASE a.pc = "COMPLETED" -> "delete"
                         [] a.pc = "RETRYABLE_FAILURE" -> "return"
                         [] a.pc = "PERMANENT_FAILURE" -> "dead")
       ELSE Done(c) /\ UNCHANGED receipt
    /\ UNCHANGED <<lane, doc, queue, jobs, dead, faults>>

\* _dead_letter: the copy first, then the delete.
DeadLetter(c) ==
    /\ at[c].pc = "dead"
    /\ dead' = [dead EXCEPT ![at[c].msg] = @ \cup {at[c].reason}]
    /\ Goto(c, "delete")
    /\ UNCHANGED <<lane, doc, queue, receipt, jobs, faults>>

\* _delete.
Delete(c) ==
    LET m == at[c].msg IN
    /\ at[c].pc = "delete"
    /\ \/ queue' = [queue EXCEPT ![m].there = FALSE]
       \/ ~Newest(c) /\ UNCHANGED queue
    /\ Done(c)
    /\ UNCHANGED <<lane, doc, receipt, jobs, dead, faults>>

\* _return: the visibility timeout of the delivery is set to zero.
Return(c) ==
    LET m == at[c].msg IN
    /\ at[c].pc = "return"
    /\ \/ queue' = [queue EXCEPT ![m].visible = TRUE]
       \/ ~Newest(c) /\ UNCHANGED queue
    /\ Done(c)
    /\ UNCHANGED <<lane, doc, receipt, jobs, dead, faults>>

\* The process dies, or a call raises and run logs it and polls again.
Abandon(c) ==
    /\ at[c] # Idle
    /\ Fault
    /\ Done(c)
    /\ UNCHANGED <<lane, doc, queue, receipt, jobs, dead>>

\* Some consumer works on the newest delivery of m.
AtWork(m) == \E c \in Consumers : at[c] # Idle /\ at[c].msg = m /\ Newest(c)

\* The visibility timeout of a delivery ends, and nobody works on it any more.
Redeliver(m) ==
    /\ queue[m].there /\ ~queue[m].visible
    /\ ~AtWork(m)
    /\ queue' = [queue EXCEPT ![m].visible = TRUE]
    /\ UNCHANGED <<lane, doc, receipt, jobs, dead, at, faults>>

\* It ends while its consumer is still at work.
RedeliverEarly(m) ==
    /\ queue[m].there /\ ~queue[m].visible
    /\ AtWork(m)
    /\ Fault
    /\ queue' = [queue EXCEPT ![m].visible = TRUE]
    /\ UNCHANGED <<lane, doc, receipt, jobs, dead, at>>

\* A claim ends one visibility timeout after it was made, which is later than
\* the end of the delivery it was made for.
ClaimLapse(m) ==
    /\ receipt[m].live
    /\ queue[m].visible \/ queue[m].count > receipt[m].count \/ ~queue[m].there
    /\ receipt' = [receipt EXCEPT ![m].live = FALSE]
    /\ UNCHANGED <<lane, doc, queue, jobs, dead, at, faults>>

\* What consumer c does of itself.
Step(c) ==
    \/ \E m \in Messages : Receive(c, m)
    \/ RefuseDelivery(c) \/ Claim(c) \/ PublishJob(c) \/ RefuseJob(c)
    \/ Settle(c) \/ DeadLetter(c) \/ Delete(c) \/ Return(c)

Next ==
    \/ \E c \in Consumers : Step(c) \/ HandlerError(c) \/ Abandon(c)
    \/ \E m \in Messages : Redeliver(m) \/ RedeliverEarly(m) \/ ClaimLapse(m)

Spec == Init /\ [][Next]_vars

\* Every consumer polls until it is stopped, and a delivery that nobody works
\* on becomes visible again.
FairSpec ==
    /\ Spec
    /\ \A c \in Consumers : WF_vars(Step(c))
    /\ \A m \in Messages : WF_vars(Redeliver(m))

---------------------------------------------------------------------------
(* Properties.                                                             *)

\* The terminal answers of the handler are also the receipt statuses they lead to.
Settling == {"COMPLETED", "RETRYABLE_FAILURE", "PERMANENT_FAILURE"}
Entry == [there : BOOLEAN, visible : BOOLEAN, count : Nat]
Receipt == [status : {"NONE", "PROCESSING"} \cup Settling, count : Nat, live : BOOLEAN]
Reasons == {"OK", "MAX_RECEIVE_COUNT_EXCEEDED", "TRANSPORT_ENVELOPE_INVALID",
            "PAYLOAD_HASH_MISMATCH", "UNSUPPORTED_CONTRACT_VERSION", "CONTRACT_VIOLATION",
            "UNEXPECTED_MESSAGE_TYPE", "TRANSPORT_ENVELOPE_MISMATCH", "IDEMPOTENCY_CONFLICT",
            "REQUEST_JOB_INPUT_INVALID", "RUN_NOT_FOUND", "MARKET_BARS_DATASET_INVALID",
            "RUN_IDENTITY_MISMATCH", "RUN_CONFIGURATION_HASH_INVALID", "INTAKE_ERROR"}
Pcs == {"received", "claimed", "delete", "return", "dead"} \cup Settling
Work == [pc : Pcs, msg : Messages, count : Nat, reason : Reasons]

\* The types of the queue, the receipts and the consumers.
TypeOK ==
    /\ \E d \in Deliveries : lane = d.lane /\ doc = d.doc
    /\ queue \in [Messages -> Entry]
    /\ receipt \in [Messages -> Receipt]
    /\ jobs \in [Messages -> Nat]
    /\ dead \in [Messages -> SUBSET Reasons]
    /\ at \in [Consumers -> {Idle} \cup Work]
    /\ faults \in 0..MaxFaults

\* A job is published only for a request that passed every test of the envelope,
\* the contract, the Outbox row and the stored run, and for one request of an
\* aggregate at most, whatever claims race, lapse or are retried
\* (PostgresRequestReceiptStore.claim, BacktestRequestJobPublisher.__call__).
PublishedIsAuthorized ==
    \A m \in Messages : jobs[m] > 0 =>
        /\ Verdict(lane, doc[m]) = "OK" /\ doc[m].outbox /\ JobRefusal(lane, doc[m]) = "OK"
        /\ \A n \in Rivals(m) : jobs[n] = 0

CompletedHasJob ==
    \A m \in Messages : receipt[m].status = "COMPLETED" => jobs[m] > 0

\* A receipt that says COMPLETED stands for a published job although a receipt
\* may be settled by a consumer whose claim has passed to another, and it is
\* the last word: neither a later delivery nor the late retry or failure of a
\* consumer that lost its claim changes it (claim, _transition).
CompletedIsPublished ==
    /\ []CompletedHasJob
    /\ [][\A m \in Messages :
            receipt[m].status = "COMPLETED" => receipt'[m].status = "COMPLETED"]_vars

\* Every request leaves its queue, whatever faults it meets: poll_once goes on
\* and the receive count bounds the retries (handle).
QueueDrains == \A m \in Messages : <>[](~queue[m].there)

\* Intake does what RequestOutcomes promises: a request is admitted at most once
\* and before any rival of its aggregate, a job follows an admission, and a request
\* leaves the queue only with a job, a refusal or an admitted rival (handle).
Outcomes == INSTANCE RequestOutcomes WITH
    rivals <- [m \in Messages |-> Rivals(m)],
    admitted <- {m \in Messages : receipt[m].status # "NONE"},
    published <- {m \in Messages : jobs[m] > 0},
    refused <- {m \in Messages : dead[m] # {} \/ receipt[m].status = "PERMANENT_FAILURE"},
    left <- {m \in Messages : ~queue[m].there}

ImplementsOutcomes == Outcomes!Spec
=============================================================================
