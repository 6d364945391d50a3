---------------------------- MODULE RunLifecycle ----------------------------
(***************************************************************************)
(* One official run from its release to its result: the consumers of the   *)
(* release queue that accept it, BacktestLifecycleService as several       *)
(* servers run it, the owner's requests and the result events that workers *)
(* post.                                                                   *)
(*                                                                         *)
(* Every release modelled names the same idempotency key, so there is one  *)
(* run row.  accept looks the plan up, to validate the request, and then   *)
(* the inputs of the run; it commits the row and then publishes the job;   *)
(* ingest reads the run and then writes it; request_cancellation reads the *)
(* run and then locks it.  Between the two anything may happen.  The set   *)
(* of applied events is in a server's memory: a restart forgets it, and    *)
(* the servers do not share it.                                            *)
(***************************************************************************)
EXTENDS Naturals, FiniteSets

CONSTANTS Consumers,          \* processes that run OfficialBacktestIntake
          Releases,           \* the messages of the release queue
          Documents,          \* what a release may hold: records of facts
          Servers,            \* processes that run the HTTP surface
          Events,             \* the result events that workers may post
          MaxReceiveCount,    \* IntakeConfig.max_receive_count
          MaxAttempts,        \* bound: attempts that workers start
          MaxPosts,           \* bound: result events posted
          MaxFaults           \* bound: crashes, restarts and failed calls

Status == {"QUEUED", "RUNNING", "COMPLETED", "FAILED", "CANCELLED", "UNAVAILABLE"}

Terminal == {"COMPLETED", "FAILED", "CANCELLED", "UNAVAILABLE"}

\* IntakeConfig.__post_init__.
ValidConfig == MaxReceiveCount \in Nat /\ MaxReceiveCount >= 1

\* backtest_result_operation_key, compute_message_idempotency_key: a result event is
\* identified by its status, its attempt and what it reports; payload stands for the
\* rest of the document, which the key does not cover.
KeyOf(ev) == <<ev.status, ev.attempt, ev.detail>>

ASSUME LifecycleAssumption ==
    /\ ValidConfig
    /\ MaxAttempts \in Nat /\ MaxPosts \in Nat /\ MaxFaults \in Nat
    /\ \A ev \in Events : ev.status \in Status /\ ev.sound \in BOOLEAN

VARIABLES row,      \* the row of backtest.runs, its pins and its attempts' number
          jobs,     \* how many jobs were published for the run
          inputs,   \* what can be resolved of Inputs
          doc,      \* doc[m]: the facts about release m
          queue,    \* queue[m]: there, visible, and how often received
          dead,     \* the releases copied to the dead-letter queue
          at,       \* at[c]: where consumer c is in handle
          applied,  \* applied[s]: BacktestLifecycleService._applied_events of server s
          call,     \* call[s]: the result event server s is applying
          owner,    \* the owner's request under way
          answers,  \* the answers given to result events and to the owner
          posts, faults

vars == <<row, jobs, inputs, doc, queue, dead, at, applied, call, owner, answers, posts, faults>>

intake == <<inputs, doc, queue, dead, at>>

service == <<applied, call, owner, answers, posts>>

NoRow == [status |-> "NONE"]

\* _build_run: the row, whose content stands for the fields that identify a request.
NewRow(d) ==
    [status |-> "QUEUED", content |-> d.content, attempts |-> 0, cancel |-> FALSE,
     deletion |-> FALSE, hidden |-> FALSE, outcome |-> "none"]

\* What a run is built from: its plan, and its owner, manifest and policy.
Inputs == {"plan", "rest"}

Idle == [pc |-> "idle"]

Fault == faults < MaxFaults /\ faults' = faults + 1

\* The run r with j jobs, releases that wait or have been consumed, p events posted.
Begin(r, j, waiting, p) ==
    /\ row = r
    /\ jobs = j
    /\ inputs \in SUBSET Inputs
    /\ doc \in [Releases -> Documents]
    /\ queue = [m \in Releases |-> [there |-> waiting, visible |-> TRUE, count |-> 0]]
    /\ dead = {}
    /\ at = [c \in Consumers |-> Idle]
    /\ applied = [s \in Servers |-> {}]
    /\ call = [s \in Servers |-> Idle]
    /\ owner = Idle
    /\ answers = {}
    /\ posts = p /\ faults = 0

Init == Begin(NoRow, 0, TRUE, 0)

---------------------------------------------------------------------------
(* The run row.                                                            *)

\* RUN_STATUS_TRANSITIONS.
Allowed(from, to) ==
    \/ from = "QUEUED" /\ to \in {"RUNNING", "CANCELLED", "UNAVAILABLE", "FAILED"}
    \/ from = "RUNNING" /\ to \in Terminal

\* Defective variant: a terminal status may be replaced by another one.
TransitionAny(r, ev) ==
    IF r.status # ev.status
    THEN [r EXCEPT !.status = ev.status, !.outcome = ev.detail, !.hidden = @ \/ r.deletion]
    ELSE r

\* RunRepository._transition and mark_*: a status the table allows, hiding a run whose
\* deletion was requested; the target status itself is left as it is.
Transition(r, ev) ==
    IF Allowed(r.status, ev.status)
    THEN IF ev.status \in Terminal
         THEN [r EXCEPT !.status = ev.status, !.outcome = ev.detail,
                        !.cancel = @ \/ ev.status = "CANCELLED", !.hidden = @ \/ r.deletion]
         ELSE [r EXCEPT !.status = ev.status]
    ELSE r

\* BacktestRun.etag: the run's status and how many attempts it has.
ETag(r) == <<r.status, r.attempts>>

\* The If-Match of a post: none, or an entity tag read at some earlier time.
IfMatch == {<<>>} \cup {"QUEUED", "RUNNING", "COMPLETED"} \X (0..MaxAttempts)

Matches(ifMatch) == ifMatch \in {<<>>, ETag(row)}

\* RunRepository.request_cancellation, under the row's lock.
Cancelled(r) ==
    IF r.status \in Terminal THEN r
    ELSE [r EXCEPT !.cancel = TRUE,
                   !.status = IF @ = "QUEUED" THEN "CANCELLED" ELSE @]

\* RunRepository.request_deletion, under the row's lock.
Deleted(r) ==
    IF r.hidden THEN r
    ELSE [r EXCEPT !.deletion = TRUE,
                   !.cancel = @ \/ r.status \notin Terminal,
                   !.status = IF @ = "QUEUED" THEN "CANCELLED" ELSE @,
                   !.hidden = r.status # "RUNNING"]

\* A worker claims the run: backtest.claim_run_attempt.
StartAttempt ==
    /\ row.status = "QUEUED" /\ ~row.cancel /\ jobs > 0
    /\ row.attempts < MaxAttempts
    /\ row' = [row EXCEPT !.status = "RUNNING", !.attempts = @ + 1]
    /\ UNCHANGED <<jobs, faults>> /\ UNCHANGED intake /\ UNCHANGED service

\* A worker gives the run back, or recovery requeues it: backtest.close_run_attempt.
Requeue ==
    /\ row.status = "RUNNING" /\ ~row.cancel
    /\ row' = [row EXCEPT !.status = "QUEUED"]
    /\ UNCHANGED <<jobs, faults>> /\ UNCHANGED intake /\ UNCHANGED service

---------------------------------------------------------------------------
(* Release intake and acceptance.                                          *)

\* OfficialBacktestIntake._parse.
ParseVerdict(d) ==
    IF ~d.parseable THEN "MESSAGE_NOT_PARSEABLE"
    ELSE IF ~d.type THEN "UNEXPECTED_MESSAGE_TYPE"
    ELSE "OK"

\* validate_basic_compiled_plan and cross_check_request_against_plan: the plan's own checksum
\* and the one that the request names, if _resolve_plan finds the plan.
PlanMatches(d) == "plan" \in inputs => d.plan

\* validate_official_backtest_request: the version, then the request's own digests and keys.
ContractVerdict(d) ==
    IF ~d.version THEN "UNSUPPORTED_CONTRACT_VERSION"
    ELSE IF ~d.digests \/ ~PlanMatches(d) THEN "CONTRACT_VIOLATION"
    ELSE "OK"

\* _build_run: every input must be there, a plan that was not found before included, and
\* then what the request fixes (lane, sequence, policy) is compared.
BuildVerdict(d) ==
    IF inputs # Inputs THEN "NOT_YET"
    ELSE IF ~d.envelope THEN "CONTRACT_VIOLATION"
    ELSE "OK"

\* handle and accept as far as _build_run.
Valid(d) == ParseVerdict(d) = "OK" /\ ContractVerdict(d) = "OK"

Newest(c) == queue[at[c].msg].there /\ queue[at[c].msg].count = at[c].count

Goto(c, pc) == at' = [at EXCEPT ![c].pc = pc]

Receive(c, m) ==
    /\ at[c] = Idle
    /\ queue[m].there /\ queue[m].visible
    /\ queue' = [queue EXCEPT ![m].visible = FALSE, ![m].count = @ + 1]
    /\ at' = [at EXCEPT ![c] = [pc |-> "received", msg |-> m, count |-> queue[m].count + 1]]
    /\ UNCHANGED <<row, jobs, inputs, doc, dead, faults>> /\ UNCHANGED service

\* accept: the plan is resolved and the request validated.
Validate(c) ==
    /\ at[c].pc = "received" /\ at[c].count <= MaxReceiveCount
    /\ Valid(doc[at[c].msg])
    /\ Goto(c, "validated")
    /\ UNCHANGED <<row, jobs, inputs, doc, queue, dead, faults>> /\ UNCHANGED service

\* handle: too many receives, poison, or an input that is still missing at the last one.
Refuse(c) ==
    LET a == at[c] d == doc[at[c].msg] IN
    /\ \/ a.pc = "received" /\ (a.count > MaxReceiveCount \/ ~Valid(d))
       \/ /\ a.pc = "validated"
          /\ \/ BuildVerdict(d) \notin {"OK", "NOT_YET"}
             \/ BuildVerdict(d) = "NOT_YET" /\ a.count >= MaxReceiveCount
    /\ Goto(c, "dead")
    /\ UNCHANGED <<row, jobs, inputs, doc, queue, dead, faults>> /\ UNCHANGED service

\* _not_yet: back to the queue.
\* Defective variant: a release that cannot be satisfied yet is deleted.
NotYetDropped(c) ==
    LET a == at[c] IN
    /\ a.pc = "validated" /\ a.count < MaxReceiveCount
    /\ BuildVerdict(doc[a.msg]) = "NOT_YET"
    /\ queue' = [queue EXCEPT ![a.msg].there = @ /\ ~Newest(c)]
    /\ at' = [at EXCEPT ![c] = Idle]
    /\ UNCHANGED <<row, jobs, inputs, doc, dead, faults>> /\ UNCHANGED service

NotYet(c) ==
    LET a == at[c] IN
    /\ a.pc = "validated" /\ a.count < MaxReceiveCount
    /\ BuildVerdict(doc[a.msg]) = "NOT_YET"
    /\ \/ queue' = [queue EXCEPT ![a.msg].visible = TRUE]
       \/ ~Newest(c) /\ UNCHANGED queue
    /\ at' = [at EXCEPT ![c] = Idle]
    /\ UNCHANGED <<row, jobs, inputs, doc, dead, faults>> /\ UNCHANGED service

\* RunRepository.accept: no field that identifies the request differs.
SameRequest(d) == row.content = d.content

\* RunRepository.accept and PersistenceRunGateway.accept: one transaction inserts the row
\* and its pins, finds the same request, or finds another one under the same key.
\* Defective variant: whoever accepts publishes, whether or not the row is new.
AcceptAlwaysPublishes(c) ==
    LET a == at[c] d == doc[at[c].msg] IN
    /\ a.pc = "validated"
    /\ BuildVerdict(d) = "OK"
    /\ IF row = NoRow THEN row' = NewRow(d) ELSE UNCHANGED row
    /\ Goto(c, IF row # NoRow /\ ~SameRequest(d) THEN "dead" ELSE "publish")
    /\ UNCHANGED <<jobs, inputs, doc, queue, dead, faults>> /\ UNCHANGED service

Accept(c) ==
    LET a == at[c] d == doc[at[c].msg] IN
    /\ a.pc = "validated"
    /\ BuildVerdict(d) = "OK"
    /\ IF row = NoRow THEN row' = NewRow(d) ELSE UNCHANGED row
    /\ Goto(c, IF row = NoRow THEN "publish"
               ELSE IF SameRequest(d) THEN "delete"
               ELSE "dead")
    /\ UNCHANGED <<jobs, inputs, doc, queue, dead, faults>> /\ UNCHANGED service

\* BacktestLifecycleService.accept: the job, after the row was committed.
Publish(c) ==
    /\ at[c].pc = "publish"
    /\ jobs' = jobs + 1
    /\ Goto(c, "delete")
    /\ UNCHANGED <<row, inputs, doc, queue, dead, faults>> /\ UNCHANGED service

DeadLetter(c) ==
    /\ at[c].pc = "dead"
    /\ dead' = dead \cup {at[c].msg}
    /\ Goto(c, "delete")
    /\ UNCHANGED <<row, jobs, inputs, doc, queue, faults>> /\ UNCHANGED service

Delete(c) ==
    /\ at[c].pc = "delete"
    /\ \/ queue' = [queue EXCEPT ![at[c].msg].there = FALSE]
       \/ ~Newest(c) /\ UNCHANGED queue
    /\ at' = [at EXCEPT ![c] = Idle]
    /\ UNCHANGED <<row, jobs, inputs, doc, dead, faults>> /\ UNCHANGED service

\* The consumer dies, or a call it makes raises: run does not catch it.
Abandon(c) ==
    /\ at[c] # Idle
    /\ Fault
    /\ at' = [at EXCEPT ![c] = Idle]
    /\ UNCHANGED <<row, jobs, inputs, doc, queue, dead>> /\ UNCHANGED service

\* The visibility timeout of a delivery ends; a consumer still at work has been slow.
Redeliver(m) ==
    /\ queue[m].there /\ ~queue[m].visible
    /\ IF \E c \in Consumers : at[c] # Idle /\ at[c].msg = m /\ Newest(c)
       THEN Fault
       ELSE faults' = faults
    /\ queue' = [queue EXCEPT ![m].visible = TRUE]
    /\ UNCHANGED <<row, jobs, inputs, doc, dead, at>> /\ UNCHANGED service

\* A bot is replicated, a policy published, a manifest written.
Resolve ==
    /\ \E i \in Inputs \ inputs : inputs' = inputs \cup {i}
    /\ UNCHANGED <<row, jobs, doc, queue, dead, at, faults>> /\ UNCHANGED service

---------------------------------------------------------------------------
(* Result events.                                                          *)

\* What an answer to the owner is about.
Cancellation == [status |-> "request"]

Answer(to, what) == answers' = answers \cup {[to |-> to, what |-> what]}

\* ingest_result as far as _apply: validation, the events this server has applied, the
\* If-Match precondition against the run it reads.
Ingest(s, ev, ifMatch) ==
    /\ call[s] = Idle
    /\ posts < MaxPosts /\ posts' = posts + 1
    /\ LET seen == {a \in applied[s] : KeyOf(a) = KeyOf(ev)} IN
       IF ~ev.sound
       THEN Answer(ev, "contract") /\ UNCHANGED call
       ELSE IF seen # {}
       THEN Answer(ev, IF ev \in seen THEN "duplicate" ELSE "conflict") /\ UNCHANGED call
       ELSE IF row = NoRow
       THEN Answer(ev, "notfound") /\ UNCHANGED call
       ELSE IF ~Matches(ifMatch)
       THEN Answer(ev, "precondition") /\ UNCHANGED call
       ELSE call' = [call EXCEPT ![s] = [pc |-> "apply", ev |-> ev]] /\ UNCHANGED answers
    /\ UNCHANGED <<row, jobs, applied, owner, faults>> /\ UNCHANGED intake

\* _apply and what follows it.
Apply(s) ==
    LET ev == call[s].ev
        done == ev.status \in {"QUEUED", row.status} \/ Allowed(row.status, ev.status)
    IN  /\ call[s].pc = "apply"
        /\ row' = IF ev.status = "QUEUED" THEN row ELSE Transition(row, ev)
        /\ applied' = IF done THEN [applied EXCEPT ![s] = @ \cup {ev}] ELSE applied
        /\ Answer(ev, IF done THEN "applied" ELSE "invalid")
        /\ call' = [call EXCEPT ![s] = Idle]
        /\ UNCHANGED <<jobs, owner, posts, faults>> /\ UNCHANGED intake

\* A server is replaced: its set of applied events is empty again.
Restart(s) ==
    /\ Fault
    /\ applied' = [applied EXCEPT ![s] = {}]
    /\ call' = [call EXCEPT ![s] = Idle]
    /\ UNCHANGED <<row, jobs, owner, answers, posts>> /\ UNCHANGED intake

---------------------------------------------------------------------------
(* The owner.                                                              *)

\* request_cancellation: the read without a lock, and its early answers.
RequestCancellation ==
    /\ owner = Idle
    /\ row # NoRow
    /\ IF row.hidden \/ row.status \in Terminal \ {"CANCELLED"}
       THEN Answer(Cancellation, "refused") /\ UNCHANGED owner
       ELSE owner' = [pc |-> "cancel"] /\ UNCHANGED answers
    /\ UNCHANGED <<row, jobs, applied, call, posts, faults>> /\ UNCHANGED intake

\* Its second half: the gateway's locked update and the answer from what it returned.
\* Defective variant: the answer does not look at the row that the lock returned.
CancelAnyway ==
    /\ owner.pc = "cancel"
    /\ row' = Cancelled(row)
    /\ Answer(Cancellation, "accepted")
    /\ owner' = Idle
    /\ UNCHANGED <<jobs, applied, call, posts, faults>> /\ UNCHANGED intake

Cancel ==
    /\ owner.pc = "cancel"
    /\ row' = Cancelled(row)
    /\ Answer(Cancellation, IF row.status \in Terminal \ {"CANCELLED"} THEN "refused" ELSE "accepted")
    /\ owner' = Idle
    /\ UNCHANGED <<jobs, applied, call, posts, faults>> /\ UNCHANGED intake

\* request_deletion.
RequestDeletion ==
    /\ owner = Idle
    /\ row # NoRow /\ ~row.hidden
    /\ row' = Deleted(row)
    /\ UNCHANGED <<jobs, applied, call, owner, answers, posts, faults>> /\ UNCHANGED intake

---------------------------------------------------------------------------

ConsumerStep(c) ==
    \/ \E m \in Releases : Receive(c, m)
    \/ Validate(c) \/ Refuse(c) \/ NotYet(c) \/ Accept(c) \/ Publish(c) \/ DeadLetter(c) \/ Delete(c)

Next ==
    \/ \E c \in Consumers : ConsumerStep(c) \/ Abandon(c)
    \/ \E m \in Releases : Redeliver(m)
    \/ Resolve \/ StartAttempt \/ Requeue
    \/ \E s \in Servers : Apply(s) \/ Restart(s) \/ \E ev \in Events, i \in IfMatch : Ingest(s, ev, i)
    \/ RequestCancellation \/ Cancel \/ RequestDeletion

Spec == Init /\ [][Next]_vars

---------------------------------------------------------------------------
(* Properties.                                                             *)

Row == [status : Status, content : {d.content : d \in Documents}, attempts : Nat,
        cancel : BOOLEAN, deletion : BOOLEAN, hidden : BOOLEAN,
        outcome : {"none"} \cup {ev.detail : ev \in Events}]

Delivery == [pc : {"received", "validated", "publish", "dead", "delete"}, msg : Releases, count : Nat]

Reply == [to : Events \cup {Cancellation},
          what : {"contract", "duplicate", "conflict", "notfound", "precondition", "applied",
                  "invalid", "refused", "accepted"}]

\* The types of the run, the queue, the consumers and the service.
TypeOK ==
    /\ row \in {NoRow} \cup Row
    /\ jobs \in Nat
    /\ inputs \subseteq Inputs
    /\ doc \in [Releases -> Documents]
    /\ queue \in [Releases -> [there : BOOLEAN, visible : BOOLEAN, count : Nat]]
    /\ dead \subseteq Releases
    /\ at \in [Consumers -> {Idle} \cup Delivery]
    /\ applied \in [Servers -> SUBSET Events]
    /\ call \in [Servers -> {Idle} \cup [pc : {"apply"}, ev : Events]]
    /\ owner \in {Idle, [pc |-> "cancel"]}
    /\ answers \subseteq Reply
    /\ posts \in Nat /\ faults \in Nat

\* However often a release is delivered, and however many consumers accept it at once,
\* its run has one row and at most one job (lifecycle.accept: only the insert publishes).
OneJobPerRun == jobs <= 1 /\ (jobs = 1 => row # NoRow)

\* A release that has left its queue became the run, or is in the dead-letter queue:
\* none disappears, and none is taken for the run of another content (handle).
ReleaseAccounted ==
    \A m \in Releases : ~queue[m].there =>
        m \in dead \/ (row # NoRow /\ row.content = doc[m].content)

\* "The plan is resolved before validation": a run is made of a plan that its request was
\* compared with (BacktestLifecycleService.accept).
PlanWasCompared == \A c \in Consumers : at[c].pc = "publish" => doc[at[c].msg].plan

\* What was accepted stays: the request's content never changes, a terminal run keeps its
\* status and its outcome, and no request of the owner is forgotten, whatever events are
\* replayed to whichever server (_transition, _applied_events).
NothingOverwritten ==
    [][row # NoRow =>
        /\ row'.content = row.content
        /\ row.status \in Terminal => row'.status = row.status /\ row'.outcome = row.outcome
        /\ (row.cancel => row'.cancel) /\ (row.deletion => row'.deletion)
        /\ (row.hidden => row'.hidden)]_vars

\* An answer is true: a terminal event answered as applied or as a duplicate is the run's
\* status, and a cancellation answered as accepted is recorded, although the run may have
\* changed between the read and the write (ingest_result, request_cancellation).
AnswersAreTrue ==
    \A a \in answers :
        /\ a.what \in {"applied", "duplicate"} /\ a.to.status \in Terminal
            => row.status = a.to.status
        /\ a.what = "accepted" => row.cancel
=============================================================================
