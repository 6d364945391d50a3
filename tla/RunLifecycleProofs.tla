------------------------- MODULE RunLifecycleProofs -------------------------
(***************************************************************************)
(* Proofs, for every number of consumers, releases, servers, events and    *)
(* faults, that a run has one job, that no release disappears, that        *)
(* nothing accepted is overwritten and that the answers given are true.    *)
(***************************************************************************)
EXTENDS RunLifecycle, TLAPS

\* Most steps are first-order; a step that needs arithmetic or records says SMT.
USE Zenon

\* A release that has something to show for it.
Served(m) == m \in dead \/ (row # NoRow /\ row.content = doc[m].content)

\* What a consumer relies on: it is to publish only a run that it made and that has no
\* job yet, and to delete only a release that is served.
ConsumerOK(c) ==
    /\ at[c].pc = "publish" => jobs = 0 /\ row # NoRow /\ Served(at[c].msg)
    /\ at[c].pc = "delete" => Served(at[c].msg)

\* Only the insert publishes, so no two consumers do.
OnePublisher == \A c, d \in Consumers : at[c].pc = "publish" /\ at[d].pc = "publish" => c = d

\* What a server relies on: the run it read is there, and the terminal events it has
\* applied are the run's status.
ServerOK(s) ==
    /\ call[s].pc = "apply" => row # NoRow
    /\ \A ev \in applied[s] : ev.status \in Terminal => row.status = ev.status

ServiceOK ==
    /\ \A s \in Servers : ServerOK(s)
    /\ owner.pc = "cancel" => row # NoRow
    /\ \A a \in answers : a.what = "accepted" => row # NoRow
    /\ AnswersAreTrue

\* A CANCELLED run says that its cancellation was asked for.
RowOK == row \in {NoRow} \cup Row /\ (row.status = "CANCELLED" => row.cancel)

\* The inductive invariant.
IInv ==
    /\ TypeOK /\ RowOK
    /\ OneJobPerRun /\ OnePublisher
    /\ \A c \in Consumers : ConsumerOK(c)
    /\ ReleaseAccounted
    /\ ServiceOK

\* What no step undoes.
RowStep ==
    row # NoRow =>
        /\ row' # NoRow
        /\ row'.content = row.content
        /\ row.status \in Terminal => row'.status = row.status /\ row'.outcome = row.outcome
        /\ row.cancel => row'.cancel
        /\ row.deletion => row'.deletion
        /\ row.hidden => row'.hidden
---------------------------------------------------------------------------
(* The run row.                                                            *)

\* A row is not the absence of one.
LEMMA RowExists ==
    ASSUME NEW r \in Row PROVE r # NoRow /\ r.status \in Status
BY SMT DEF Row, NoRow, Status

\* _build_run makes a row.
LEMMA NewRowFacts ==
    ASSUME NEW d \in Documents
    PROVE  NewRow(d) \in Row /\ NewRow(d).content = d.content /\ NewRow(d).status = "QUEUED"
BY DEF NewRow, Row, Status

\* Updating a row's status, as a worker's claim or close does.
LEMMA StatusStep ==
    ASSUME row \in Row, row.status \notin Terminal, NEW st \in Status \ {"CANCELLED"}, NEW n \in Nat,
           row' = [row EXCEPT !.status = st, !.attempts = n]
    PROVE  RowOK' /\ RowStep
<1>1. row' \in Row /\ row'.status = st
    BY DEF Row
<1>2. RowStep
    BY <1>1, RowExists DEF Row, RowStep
<1> QED
    BY <1>1, <1>2 DEF RowOK

\* _transition.
LEMMA TransitionStep ==
    ASSUME row \in Row, RowOK, NEW ev \in Events, ev.status # "QUEUED", row' = Transition(row, ev)
    PROVE  /\ RowOK' /\ RowStep
           /\ Allowed(row.status, ev.status) => row'.status = ev.status
           /\ ~Allowed(row.status, ev.status) => row' = row
<1>0. ev.status \in Status /\ ev.detail \in {"none"} \cup {e.detail : e \in Events}
    BY LifecycleAssumption
<1>1. CASE ~Allowed(row.status, ev.status)
    BY <1>1, RowExists DEF Transition, RowStep, RowOK
<1>2. CASE Allowed(row.status, ev.status) /\ ev.status \notin Terminal
    <2>1. row' = [row EXCEPT !.status = ev.status]
        BY <1>2 DEF Transition
    <2>2. row' \in Row /\ row'.status = ev.status
        BY <1>0, <2>1 DEF Row
    <2>3. RowStep
        BY <1>2, <2>1, <2>2, RowExists DEF Row, RowStep, Allowed, Terminal
    <2> QED
        BY <1>2, <2>2, <2>3 DEF RowOK, Terminal
<1>3. CASE Allowed(row.status, ev.status) /\ ev.status \in Terminal
    <2>1. row' = [row EXCEPT !.status = ev.status, !.outcome = ev.detail,
                             !.cancel = @ \/ ev.status = "CANCELLED", !.hidden = @ \/ row.deletion]
        BY <1>3 DEF Transition
    <2>2. row' \in Row /\ row'.status = ev.status /\ (ev.status = "CANCELLED" => row'.cancel)
        BY <1>0, <2>1 DEF Row
    <2>3. RowStep
        BY <1>3, <2>1, <2>2, RowExists DEF Row, RowStep, Allowed, Terminal
    <2> QED
        BY <1>3, <2>2, <2>3 DEF RowOK
<1> QED
    BY <1>1, <1>2, <1>3

\* request_cancellation: a run that is not over, or is CANCELLED, has it recorded.
LEMMA CancelledStep ==
    ASSUME row \in Row, RowOK, row' = Cancelled(row)
    PROVE  /\ RowOK' /\ RowStep
           /\ row.status \notin Terminal \ {"CANCELLED"} => row'.cancel
<1>1. CASE row.status \in Terminal
    BY <1>1, RowExists DEF Cancelled, RowStep, RowOK
<1>2. CASE row.status \notin Terminal
    <2>1. row' \in Row /\ row'.cancel
        BY <1>2 DEF Cancelled, Row, Status
    <2>2. RowStep
        BY <1>2, <2>1, RowExists DEF Cancelled, Row, RowStep
    <2> QED
        BY <2>1, <2>2 DEF RowOK
<1> QED
    BY <1>1, <1>2

\* request_deletion.
LEMMA DeletedStep ==
    ASSUME row \in Row, RowOK, row' = Deleted(row), ~row.hidden
    PROVE  RowOK' /\ RowStep
<1>1. row' \in Row
    BY DEF Deleted, Row, Status
<1>2. row'.status = "CANCELLED" => row'.cancel
    BY DEF Deleted, Row, RowOK, Terminal
<1>3. RowStep
    BY <1>1, RowExists DEF Deleted, Row, RowStep, Terminal
<1> QED
    BY <1>1, <1>2, <1>3 DEF RowOK
---------------------------------------------------------------------------
(* What stays true when the row takes a step.                              *)

\* A release that is served stays served.
LEMMA ServedStays ==
    ASSUME RowStep, doc' = doc, dead \subseteq dead', NEW m, Served(m)
    PROVE  Served(m)'
BY DEF Served, RowStep

\* A consumer that does not move relies on what it did.
LEMMA ConsumerStays ==
    ASSUME IInv, RowStep, doc' = doc, dead \subseteq dead', NEW c \in Consumers, at'[c] = at[c],
           at[c].pc = "publish" => jobs' = 0
    PROVE  ConsumerOK(c)'
BY ServedStays DEF IInv, ConsumerOK, RowStep

\* A release that stays in the queue, or was served, is accounted for.
LEMMA ReleasesStay ==
    ASSUME IInv, RowStep, doc' = doc, dead \subseteq dead',
           \A m \in Releases : ~queue'[m].there => ~queue[m].there \/ Served(m)
    PROVE  ReleaseAccounted'
<1>1. \A m \in Releases : ~queue'[m].there => Served(m)
    BY DEF IInv, ReleaseAccounted, Served
<1>2. \A m \in Releases : ~queue'[m].there => Served(m)'
    BY <1>1, ServedStays
<1> QED
    BY <1>2 DEF ReleaseAccounted, Served

\* The service relies on what it did, and its answers stay true.
LEMMA ServiceStays ==
    ASSUME IInv, RowStep, UNCHANGED service, row = NoRow => row' = NoRow \/ row'.status = "QUEUED"
    PROVE  ServiceOK'
<1>1. ASSUME row # NoRow PROVE ServiceOK'
    BY <1>1 DEF IInv, ServiceOK, ServerOK, AnswersAreTrue, service, RowStep
<1>2. ASSUME row = NoRow PROVE ServiceOK'
    <2>1. row.status \notin Terminal
        BY <1>2 DEF NoRow, Terminal
    <2> QED
        BY <1>2, <2>1 DEF IInv, ServiceOK, ServerOK, AnswersAreTrue, service
<1> QED
    BY <1>1, <1>2
---------------------------------------------------------------------------
(* The steps of the consumers.                                             *)

\* The facts every step starts from.
LEMMA Known ==
    ASSUME IInv
    PROVE  /\ TypeOK /\ RowOK
           /\ row # NoRow => row \in Row /\ row.status \in Status
           /\ row = NoRow => row.status = "NONE" /\ jobs = 0
           /\ \A c \in Consumers : at[c].pc # "idle" => at[c] \in Delivery
           /\ Idle.pc = "idle" /\ Idle \notin Delivery
<1>1. row # NoRow => row \in Row /\ row.status \in Status
    BY RowExists DEF IInv, RowOK
<1>2. row = NoRow => row.status = "NONE" /\ jobs = 0
    BY SMT DEF IInv, OneJobPerRun, NoRow, TypeOK
<1>3. Idle.pc = "idle" /\ Idle \notin Delivery
    BY DEF Idle, Delivery
<1>4. \A c \in Consumers : at[c].pc # "idle" => at[c] \in Delivery
    BY <1>3 DEF IInv, TypeOK
<1> QED
    BY <1>1, <1>2, <1>3, <1>4 DEF IInv

\* A step that leaves the run, the jobs, the dead letters and the service alone, takes no
\* release from the queue, and moves consumers only to where they rely on nothing.
LEMMA QuietStep ==
    ASSUME IInv, UNCHANGED <<row, jobs, doc, dead>>, UNCHANGED service,
           inputs' \subseteq Inputs, faults' \in Nat,
           queue' \in [Releases -> [there : BOOLEAN, visible : BOOLEAN, count : Nat]],
           \A m \in Releases : queue'[m].there = queue[m].there,
           at' \in [Consumers -> {Idle} \cup Delivery],
           \A c \in Consumers : at'[c] = at[c] \/ at'[c].pc \notin {"publish", "delete"}
    PROVE  IInv'
<1>1. RowStep /\ RowOK'
    BY DEF RowStep, IInv, RowOK
<1>2. TypeOK'
    BY DEF IInv, TypeOK, service
<1>3. OneJobPerRun' /\ OnePublisher'
    BY DEF IInv, OneJobPerRun, OnePublisher
<1>4. \A c \in Consumers : ConsumerOK(c)'
    <2> SUFFICES ASSUME NEW c \in Consumers PROVE ConsumerOK(c)'
        OBVIOUS
    <2>1. CASE at'[c] = at[c]
        BY <1>1, <2>1, ConsumerStays DEF IInv, ConsumerOK
    <2>2. CASE at'[c].pc \notin {"publish", "delete"}
        BY <2>2 DEF ConsumerOK
    <2> QED
        BY <2>1, <2>2
<1>5. ReleaseAccounted'
    BY <1>1, ReleasesStay
<1>6. ServiceOK'
    BY <1>1, ServiceStays
<1> QED
    BY <1>1, <1>2, <1>3, <1>4, <1>5, <1>6 DEF IInv

\* A consumer takes a delivery, drops it, or decides what to do with it.
LEMMA DeliveryStep ==
    ASSUME IInv, NEW c \in Consumers,
           (\E m \in Releases : Receive(c, m)) \/ Validate(c) \/ Refuse(c) \/ NotYet(c) \/ Abandon(c)
    PROVE  IInv'
<1>0. /\ UNCHANGED <<row, jobs, doc, dead>> /\ UNCHANGED service /\ inputs' \subseteq Inputs
      /\ faults' \in Nat
    <2>1. faults \in Nat /\ inputs \subseteq Inputs
        BY DEF IInv, TypeOK
    <2>2. faults' = faults \/ faults' = faults + 1
        BY DEF Receive, Validate, Refuse, NotYet, Abandon, Fault
    <2>3. UNCHANGED <<row, jobs, doc, dead, inputs>> /\ UNCHANGED service
        BY DEF Receive, Validate, Refuse, NotYet, Abandon
    <2> QED
        BY <2>1, <2>2, <2>3, SMT
<1>1. ASSUME NEW m \in Releases, Receive(c, m) PROVE IInv'
    <2>1. queue[m] \in [there : BOOLEAN, visible : BOOLEAN, count : Nat]
        BY DEF IInv, TypeOK
    <2>n. PICK n \in Nat : n = queue[m].count + 1
        BY <2>1, SMT
    <2> DEFINE q == [queue[m] EXCEPT !.visible = FALSE, !.count = n]
               a == [pc |-> "received", msg |-> m, count |-> n]
    <2>2. q \in [there : BOOLEAN, visible : BOOLEAN, count : Nat] /\ q.there = queue[m].there
        BY <2>1
    <2>3. a \in Delivery /\ a.pc = "received"
        BY DEF Delivery
    <2>4. queue' = [queue EXCEPT ![m] = q] /\ at' = [at EXCEPT ![c] = a]
        BY <1>1, <2>n DEF Receive
    <2> HIDE DEF q, a
    <2>5. /\ queue' \in [Releases -> [there : BOOLEAN, visible : BOOLEAN, count : Nat]]
          /\ \A r \in Releases : queue'[r].there = queue[r].there
        BY <2>2, <2>4 DEF IInv, TypeOK
    <2>6. /\ at' \in [Consumers -> {Idle} \cup Delivery]
          /\ \A d \in Consumers : at'[d] = at[d] \/ at'[d].pc \notin {"publish", "delete"}
        BY <2>3, <2>4 DEF IInv, TypeOK
    <2> QED
        BY <1>0, <2>5, <2>6, QuietStep
<1>2. CASE Validate(c) \/ Refuse(c)
    <2>1. at[c] \in Delivery
        BY <1>2, Known DEF Validate, Refuse
    <2>m. PICK pc \in {"validated", "dead"} : at' = [at EXCEPT ![c].pc = pc]
        BY <1>2 DEF Validate, Refuse, Goto
    <2>2. /\ at' \in [Consumers -> {Idle} \cup Delivery]
          /\ \A d \in Consumers : at'[d] = at[d] \/ at'[d].pc \notin {"publish", "delete"}
        BY <2>1, <2>m DEF IInv, TypeOK, Delivery
    <2> QED
        BY <1>0, <1>2, <2>2, QuietStep DEF Validate, Refuse, IInv, TypeOK
<1>3. CASE NotYet(c) \/ Abandon(c)
    <2>1. /\ at' \in [Consumers -> {Idle} \cup Delivery]
          /\ \A d \in Consumers : at'[d] = at[d] \/ at'[d].pc \notin {"publish", "delete"}
        BY <1>3, Known DEF NotYet, Abandon, IInv, TypeOK
    <2>2. /\ queue' \in [Releases -> [there : BOOLEAN, visible : BOOLEAN, count : Nat]]
          /\ \A n \in Releases : queue'[n].there = queue[n].there
        <3>1. CASE queue' = queue
            BY <3>1 DEF IInv, TypeOK
        <3>2. CASE queue' # queue
            <4>1. PICK m \in Releases : queue' = [queue EXCEPT ![m].visible = TRUE]
                BY <1>3, <3>2, Known DEF NotYet, Abandon, Delivery
            <4> QED
                BY <4>1 DEF IInv, TypeOK
        <3> QED
            BY <3>1, <3>2
    <2> QED
        BY <1>0, <2>1, <2>2, QuietStep
<1> QED
    BY <1>1, <1>2, <1>3

\* Accepting: only the consumer that inserts the row goes on to publish its job.
LEMMA AcceptStep ==
    ASSUME IInv, NEW c \in Consumers, Accept(c) PROVE IInv' /\ RowStep
<1>1. /\ UNCHANGED <<jobs, inputs, doc, queue, dead, faults>> /\ UNCHANGED service
      /\ at[c].pc = "validated" /\ at[c] \in Delivery
    BY Known DEF Accept
<1>2. PICK m \in Releases : m = at[c].msg
    BY <1>1 DEF Delivery
<1>3. doc[m] \in Documents
    BY DEF IInv, TypeOK
<1>4. PICK pc \in {"publish", "delete", "dead"} :
        /\ at' = [at EXCEPT ![c].pc = pc]
        /\ pc = "publish" => row = NoRow /\ row' = NewRow(doc[m])
        /\ pc # "publish" => row # NoRow /\ row' = row
        /\ pc = "delete" => row.content = doc[m].content
    BY <1>2 DEF Accept, Goto, SameRequest
<1>5. RowStep /\ RowOK' /\ (row = NoRow => row'.status = "QUEUED")
    <2>1. CASE pc = "publish"
        BY <1>3, <1>4, <2>1, NewRowFacts DEF RowStep, RowOK
    <2>2. CASE pc # "publish"
        BY <1>4, <2>2 DEF RowStep, RowOK, IInv
    <2> QED
        BY <2>1, <2>2
<1>6. /\ at' \in [Consumers -> {Idle} \cup Delivery] /\ at'[c].pc = pc /\ at'[c].msg = m
      /\ \A d \in Consumers : d # c => at'[d] = at[d]
    BY <1>1, <1>2, <1>4 DEF IInv, TypeOK, Delivery
<1>7. TypeOK'
    BY <1>1, <1>5, <1>6 DEF IInv, TypeOK, RowOK, service
<1>8. pc = "publish" => jobs = 0 /\ row' # NoRow /\ row'.content = doc[m].content
    BY <1>3, <1>4, Known, NewRowFacts, RowExists
<1>9. OneJobPerRun' /\ OnePublisher'
    <2>1. OneJobPerRun'
        BY <1>1, <1>4, <1>8 DEF IInv, OneJobPerRun
    <2>2. pc = "publish" => \A d \in Consumers : at[d].pc # "publish"
        BY <1>4 DEF IInv, ConsumerOK
    <2>3. OnePublisher'
        BY <1>6, <2>2 DEF IInv, OnePublisher
    <2> QED
        BY <2>1, <2>3
<1>10. \A d \in Consumers : ConsumerOK(d)'
    <2>1. ConsumerOK(c)'
        BY <1>1, <1>4, <1>6, <1>8 DEF ConsumerOK, Served
    <2>2. ASSUME NEW d \in Consumers, d # c PROVE ConsumerOK(d)'
        <3>1. at[d].pc = "publish" => jobs' = 0
            BY <1>1 DEF IInv, ConsumerOK
        <3> QED
            BY <1>1, <1>5, <1>6, <2>2, <3>1, ConsumerStays
    <2> QED
        BY <2>1, <2>2
<1>11. ReleaseAccounted'
    BY <1>1, <1>5, ReleasesStay
<1>12. ServiceOK'
    BY <1>1, <1>5, ServiceStays
<1> QED
    BY <1>5, <1>7, <1>9, <1>10, <1>11, <1>12 DEF IInv

\* Publishing, dead-lettering and deleting.
LEMMA EffectStep ==
    ASSUME IInv, NEW c \in Consumers, Publish(c) \/ DeadLetter(c) \/ Delete(c) PROVE IInv'
<1>1. /\ UNCHANGED <<row, inputs, doc, faults>> /\ UNCHANGED service
      /\ at[c].pc \in {"publish", "dead", "delete"} /\ at[c] \in Delivery /\ ConsumerOK(c)
    BY Known DEF Publish, DeadLetter, Delete, IInv
<1>2. PICK m \in Releases : m = at[c].msg
    BY <1>1 DEF Delivery
<1>3. RowStep /\ RowOK' /\ (row = NoRow => row' = NoRow)
    BY <1>1 DEF RowStep, RowOK, IInv
<1>4. /\ dead \subseteq dead' /\ dead' \subseteq Releases
      /\ queue' \in [Releases -> [there : BOOLEAN, visible : BOOLEAN, count : Nat]]
      /\ \A n \in Releases : ~queue'[n].there => ~queue[n].there \/ Served(n)
    <2>1. CASE Publish(c) \/ DeadLetter(c)
        BY <1>2, <2>1 DEF Publish, DeadLetter, IInv, TypeOK
    <2>2. CASE Delete(c)
        <3>1. dead' = dead /\ Served(m)
            BY <1>1, <1>2, <2>2 DEF Delete, ConsumerOK
        <3>2. CASE queue' = queue
            BY <3>1, <3>2 DEF IInv, TypeOK
        <3>3. CASE queue' = [queue EXCEPT ![m].there = FALSE]
            BY <3>1, <3>3 DEF IInv, TypeOK
        <3> QED
            BY <1>2, <2>2, <3>2, <3>3 DEF Delete
    <2> QED
        BY <2>1, <2>2
<1>5. /\ at' \in [Consumers -> {Idle} \cup Delivery]
      /\ \A d \in Consumers : d # c => at'[d] = at[d]
      /\ at'[c].pc \in {"delete", "idle"}
      /\ at'[c].pc = "delete" => at'[c].msg = m
    BY <1>1, <1>2, Known, SMT DEF Publish, DeadLetter, Delete, Goto, IInv, TypeOK, Delivery
<1>6. /\ jobs' \in Nat
      /\ jobs' = jobs \/ (at[c].pc = "publish" /\ jobs = 0 /\ jobs' = 1 /\ row # NoRow)
    BY <1>1, SMT DEF Publish, DeadLetter, Delete, ConsumerOK, IInv, TypeOK
<1>7. TypeOK'
    BY <1>1, <1>3, <1>4, <1>5, <1>6 DEF IInv, TypeOK, RowOK, service
<1>8. OneJobPerRun' /\ OnePublisher'
    BY <1>1, <1>5, <1>6, SMT DEF IInv, OneJobPerRun, OnePublisher
<1>9. \A d \in Consumers : ConsumerOK(d)'
    <2>1. ConsumerOK(c)'
        <3>1. at'[c].pc = "delete" => Served(m)'
            <4>1. CASE Publish(c)
                BY <1>1, <1>2, <1>3, <1>4, <4>1, ServedStays DEF Publish, ConsumerOK
            <4>2. CASE DeadLetter(c)
                BY <1>2, <4>2 DEF DeadLetter, Served
            <4>3. CASE Delete(c)
                BY <4>3, Known DEF Delete, IInv, TypeOK
            <4> QED
                BY <4>1, <4>2, <4>3
        <3> QED
            BY <1>5, <3>1 DEF ConsumerOK
    <2>2. ASSUME NEW d \in Consumers, d # c PROVE ConsumerOK(d)'
        <3>1. at[d].pc = "publish" => jobs' = 0
            BY <1>6, <2>2 DEF IInv, ConsumerOK, OnePublisher
        <3> QED
            BY <1>1, <1>3, <1>4, <1>5, <2>2, <3>1, ConsumerStays
    <2> QED
        BY <2>1, <2>2
<1>10. ReleaseAccounted'
    BY <1>1, <1>3, <1>4, ReleasesStay
<1>11. ServiceOK'
    BY <1>1, <1>3, ServiceStays
<1> QED
    BY <1>3, <1>7, <1>8, <1>9, <1>10, <1>11 DEF IInv
---------------------------------------------------------------------------
(* The queue, the workers, the service and the owner.                      *)

\* A visibility timeout, and an input that appears.
LEMMA WaitingStep ==
    ASSUME IInv, (\E m \in Releases : Redeliver(m)) \/ Resolve PROVE IInv'
<1>1. CASE Resolve
    <2>1. inputs' \subseteq Inputs
        BY <1>1 DEF Resolve, IInv, TypeOK
    <2> QED
        BY <1>1, <2>1, QuietStep DEF Resolve, IInv, TypeOK
<1>2. ASSUME NEW m \in Releases, Redeliver(m) PROVE IInv'
    <2>1. faults' \in Nat
        <3>1. faults \in Nat
            BY DEF IInv, TypeOK
        <3>2. faults' = faults \/ faults' = faults + 1
            BY <1>2 DEF Redeliver, Fault
        <3> QED
            BY <3>1, <3>2, SMT
    <2>2. /\ queue' \in [Releases -> [there : BOOLEAN, visible : BOOLEAN, count : Nat]]
          /\ \A n \in Releases : queue'[n].there = queue[n].there
        BY <1>2 DEF Redeliver, IInv, TypeOK
    <2> QED
        BY <1>2, <2>1, <2>2, QuietStep DEF Redeliver, IInv, TypeOK
<1> QED
    BY <1>1, <1>2

\* A step of the row and the service leaves intake as it is.
LEMMA IntakeStays ==
    ASSUME IInv, RowStep, RowOK', UNCHANGED intake, jobs' = jobs, faults' \in Nat, posts' \in Nat,
           applied' \in [Servers -> SUBSET Events],
           call' \in [Servers -> {Idle} \cup [pc : {"apply"}, ev : Events]],
           owner' \in {Idle, [pc |-> "cancel"]}, answers' \subseteq Reply,
           ServiceOK'
    PROVE  IInv'
<1>1. TypeOK'
    BY DEF IInv, TypeOK, RowOK, intake
<1>2. OneJobPerRun' /\ OnePublisher'
    BY DEF IInv, OneJobPerRun, OnePublisher, intake, RowStep
<1>3. \A c \in Consumers : ConsumerOK(c)'
    <2> SUFFICES ASSUME NEW c \in Consumers PROVE ConsumerOK(c)'
        OBVIOUS
    <2>1. at[c].pc = "publish" => jobs' = 0
        BY DEF IInv, ConsumerOK
    <2> QED
        BY <2>1, ConsumerStays DEF intake
<1>4. ReleaseAccounted'
    BY ReleasesStay DEF intake
<1> QED
    BY <1>1, <1>2, <1>3, <1>4 DEF IInv

\* The types of the service, where a step leaves them alone.
LEMMA ServiceTypes ==
    ASSUME IInv
    PROVE  /\ applied \in [Servers -> SUBSET Events]
           /\ call \in [Servers -> {Idle} \cup [pc : {"apply"}, ev : Events]]
           /\ owner \in {Idle, [pc |-> "cancel"]} /\ answers \subseteq Reply
           /\ posts \in Nat /\ faults \in Nat
BY DEF IInv, TypeOK

\* A worker claims the run or gives it back.
LEMMA AttemptStep ==
    ASSUME IInv, StartAttempt \/ Requeue PROVE IInv' /\ RowStep
<1>1. /\ row \in Row /\ row.status \in {"QUEUED", "RUNNING"} /\ row.attempts \in Nat
    <2>1. row # NoRow
        BY Known DEF StartAttempt, Requeue
    <2> QED
        BY <2>1, Known DEF StartAttempt, Requeue, Row
<1>2. PICK st \in {"QUEUED", "RUNNING"}, n \in Nat : row' = [row EXCEPT !.status = st, !.attempts = n]
    <2>1. CASE StartAttempt
        <3>1. /\ row.attempts + 1 \in Nat
              /\ row' = [row EXCEPT !.status = "RUNNING", !.attempts = row.attempts + 1]
            BY <1>1, <2>1, SMT DEF StartAttempt
        <3> QED
            BY <3>1
    <2>2. CASE Requeue
        <3>1. row' = [row EXCEPT !.status = "QUEUED", !.attempts = row.attempts]
            BY <1>1, <2>2 DEF Requeue, Row
        <3> QED
            BY <1>1, <3>1
    <2> QED
        BY <2>1, <2>2
<1>3. RowOK' /\ RowStep
    BY <1>1, <1>2, StatusStep DEF Status, Terminal
<1>4. UNCHANGED intake /\ UNCHANGED service /\ UNCHANGED <<jobs, faults>>
    BY DEF StartAttempt, Requeue
<1>5. ServiceOK'
    BY <1>1, <1>3, <1>4, RowExists, ServiceStays
<1> QED
    BY <1>3, <1>4, <1>5, IntakeStays, ServiceTypes DEF service

\* The answers of a step: those that were given, and one more.
LEMMA AnswerFacts ==
    ASSUME IInv, NEW to \in Events \cup {Cancellation},
           NEW what \in {"contract", "duplicate", "conflict", "notfound", "precondition", "applied",
                         "invalid", "refused", "accepted"},
           Answer(to, what)
    PROVE  /\ answers' \subseteq Reply
           /\ \A a \in answers' : a \in answers \/ (a.to = to /\ a.what = what)
BY SMT DEF Answer, Reply, IInv, TypeOK

\* A result event is received: it is refused, known, or read against the run.
LEMMA IngestStep ==
    ASSUME IInv, NEW s \in Servers, NEW ev \in Events, NEW i \in IfMatch, Ingest(s, ev, i)
    PROVE  IInv'
<1>0. /\ UNCHANGED <<row, jobs, applied, owner, faults>> /\ UNCHANGED intake /\ posts' = posts + 1
      /\ RowStep /\ RowOK'
    BY DEF Ingest, RowStep, IInv, RowOK
<1>1. posts' \in Nat
    BY <1>0, ServiceTypes, SMT
<1>2. CASE answers' = answers /\ call' = [call EXCEPT ![s] = [pc |-> "apply", ev |-> ev]] /\ row # NoRow
    <2>1. call' \in [Servers -> {Idle} \cup [pc : {"apply"}, ev : Events]]
        BY <1>2, ServiceTypes
    <2>2. ServiceOK'
        BY <1>0, <1>2 DEF IInv, ServiceOK, ServerOK, AnswersAreTrue
    <2> QED
        BY <1>0, <1>1, <1>2, <2>1, <2>2, ServiceTypes, IntakeStays
<1>3. ASSUME NEW what \in {"contract", "duplicate", "conflict", "notfound", "precondition"},
             Answer(ev, what), call' = call,
             what = "duplicate" => ev \in applied[s]
      PROVE  IInv'
    <2>1. /\ answers' \subseteq Reply
          /\ \A a \in answers' : a \in answers \/ (a.to = ev /\ a.what = what)
        BY <1>3, AnswerFacts, SMT
    <2>2. what = "duplicate" /\ ev.status \in Terminal => row.status = ev.status
        BY <1>3 DEF IInv, ServiceOK, ServerOK
    <2>3. ServiceOK'
        BY <1>0, <1>3, <2>1, <2>2 DEF IInv, ServiceOK, ServerOK, AnswersAreTrue
    <2> QED
        BY <1>0, <1>1, <1>3, <2>1, <2>3, ServiceTypes, IntakeStays
<1> QED
    BY <1>2, <1>3 DEF Ingest

\* And applied to the run as it is by then.
LEMMA ApplyStep ==
    ASSUME IInv, NEW s \in Servers, Apply(s) PROVE IInv' /\ RowStep
<1>1. row # NoRow /\ row \in Row
    BY Known DEF Apply, IInv, ServiceOK, ServerOK
<1>2. PICK ev \in Events : ev = call[s].ev
    BY ServiceTypes, SMT DEF Apply, Idle
<1>3. /\ UNCHANGED <<jobs, owner, posts, faults>> /\ UNCHANGED intake
      /\ call' = [call EXCEPT ![s] = Idle]
    BY DEF Apply
<1>4. ev.status \in Status
    BY LifecycleAssumption
<1>5. RowOK' /\ RowStep /\ row' # NoRow
      /\ (Allowed(row.status, ev.status) /\ ev.status # "QUEUED" => row'.status = ev.status)
      /\ (~Allowed(row.status, ev.status) => row' = row)
    <2>1. CASE ev.status = "QUEUED"
        BY <1>1, <1>2, <2>1 DEF Apply, RowStep, IInv, RowOK
    <2>2. CASE ev.status # "QUEUED"
        <3>1. row' = Transition(row, ev)
            BY <1>2, <2>2 DEF Apply
        <3> QED
            BY <1>1, <2>2, <3>1, TransitionStep DEF IInv, RowStep
    <2> QED
        BY <2>1, <2>2
<1>6. PICK done \in BOOLEAN :
        /\ done = (ev.status \in {"QUEUED", row.status} \/ Allowed(row.status, ev.status))
        /\ applied' = IF done THEN [applied EXCEPT ![s] = @ \cup {ev}] ELSE applied
        /\ Answer(ev, IF done THEN "applied" ELSE "invalid")
    BY <1>2 DEF Apply
<1>7. done /\ ev.status \in Terminal => row'.status = ev.status
    <2>1. CASE Allowed(row.status, ev.status)
        BY <1>5, <2>1 DEF Terminal
    <2>2. CASE ~Allowed(row.status, ev.status)
        <3>1. done /\ ev.status \in Terminal => ev.status = row.status
            BY <1>6, <2>2 DEF Terminal
        <3> QED
            BY <1>5, <2>2, <3>1
    <2> QED
        BY <2>1, <2>2
<1>8. /\ answers' \subseteq Reply
      /\ \A a \in answers' : a \in answers \/ (a.to = ev /\ a.what = IF done THEN "applied" ELSE "invalid")
    BY <1>6, AnswerFacts, SMT
<1>9. /\ applied' \in [Servers -> SUBSET Events]
      /\ \A t \in Servers : \A e \in applied'[t] : e \in applied[t] \/ (done /\ e = ev)
      /\ call' \in [Servers -> {Idle} \cup [pc : {"apply"}, ev : Events]]
      /\ \A t \in Servers : call'[t].pc = "apply" => call[t].pc = "apply"
    <2>1. /\ applied' \in [Servers -> SUBSET Events]
          /\ \A t \in Servers : \A e \in applied'[t] : e \in applied[t] \/ (done /\ e = ev)
        <3>1. CASE done
            BY <1>6, <3>1, ServiceTypes
        <3>2. CASE ~done
            BY <1>6, <3>2, ServiceTypes
        <3> QED
            BY <3>1, <3>2
    <2>2. /\ call' \in [Servers -> {Idle} \cup [pc : {"apply"}, ev : Events]]
          /\ \A t \in Servers : call'[t].pc = "apply" => call[t].pc = "apply"
        BY <1>3, ServiceTypes, Known
    <2> QED
        BY <2>1, <2>2
<1>10. \A e : e \in Terminal /\ row.status = e => row'.status = e
    BY <1>1, <1>5 DEF RowStep
<1>11. ServiceOK'
    <2>1. \A t \in Servers : ServerOK(t)'
        BY <1>5, <1>7, <1>9, <1>10 DEF IInv, ServiceOK, ServerOK
    <2>2. owner'.pc = "cancel" => row' # NoRow
        BY <1>5
    <2>3. AnswersAreTrue'
        <3> SUFFICES ASSUME NEW a \in answers'
                     PROVE  /\ a.what \in {"applied", "duplicate"} /\ a.to.status \in Terminal
                                => row'.status = a.to.status
                            /\ a.what = "accepted" => row'.cancel
            BY DEF AnswersAreTrue
        <3>1. CASE a \in answers
            BY <1>1, <1>5, <1>10, <3>1 DEF IInv, ServiceOK, AnswersAreTrue, RowStep
        <3>2. CASE a.to = ev /\ a.what = IF done THEN "applied" ELSE "invalid"
            BY <1>7, <3>2
        <3> QED
            BY <1>8, <3>1, <3>2
    <2> QED
        BY <1>5, <2>1, <2>2, <2>3 DEF ServiceOK
<1> QED
    BY <1>3, <1>5, <1>8, <1>9, <1>11, ServiceTypes, IntakeStays

\* A restarted server has applied nothing and relies on nothing.
LEMMA RestartStep ==
    ASSUME IInv, NEW s \in Servers, Restart(s) PROVE IInv'
<1>1. /\ UNCHANGED <<row, jobs, owner, answers, posts>> /\ UNCHANGED intake /\ faults' = faults + 1
      /\ applied' = [applied EXCEPT ![s] = {}] /\ call' = [call EXCEPT ![s] = Idle]
      /\ RowStep /\ RowOK'
    BY DEF Restart, Fault, RowStep, IInv, RowOK
<1>2. faults' \in Nat
    BY <1>1, ServiceTypes, SMT
<1>3. /\ applied' \in [Servers -> SUBSET Events]
      /\ call' \in [Servers -> {Idle} \cup [pc : {"apply"}, ev : Events]]
      /\ \A t \in Servers : /\ applied'[t] \subseteq applied[t]
                            /\ call'[t].pc = "apply" => call[t].pc = "apply"
    BY <1>1, ServiceTypes, Known
<1>4. ServiceOK'
    BY <1>1, <1>3 DEF IInv, ServiceOK, ServerOK, AnswersAreTrue
<1> QED
    BY <1>1, <1>2, <1>3, <1>4, ServiceTypes, IntakeStays

\* The owner's requests.
LEMMA OwnerStep ==
    ASSUME IInv, RequestCancellation \/ Cancel \/ RequestDeletion PROVE IInv' /\ RowStep
<1>1. UNCHANGED <<jobs, applied, call, posts, faults>> /\ UNCHANGED intake
    BY DEF RequestCancellation, Cancel, RequestDeletion
<1>2. row # NoRow /\ row \in Row
    BY Known DEF RequestCancellation, Cancel, RequestDeletion, IInv, ServiceOK
<1>3. CASE RequestCancellation
    <2>1. row' = row /\ RowStep /\ RowOK'
        BY <1>3 DEF RequestCancellation, RowStep, RowOK, IInv
    <2>2. CASE Answer(Cancellation, "refused") /\ owner' = owner
        <3>1. /\ answers' \subseteq Reply
              /\ \A a \in answers' : a \in answers \/ (a.to = Cancellation /\ a.what = "refused")
            BY <2>2, AnswerFacts
        <3>2. ServiceOK'
            BY <1>1, <2>1, <2>2, <3>1 DEF IInv, ServiceOK, ServerOK, AnswersAreTrue
        <3> QED
            BY <1>1, <2>1, <2>2, <3>1, <3>2, ServiceTypes, IntakeStays
    <2>3. CASE owner' = [pc |-> "cancel"] /\ answers' = answers
        <3>1. ServiceOK'
            BY <1>1, <1>2, <2>1, <2>3 DEF IInv, ServiceOK, ServerOK, AnswersAreTrue
        <3> QED
            BY <1>1, <2>1, <2>3, <3>1, ServiceTypes, IntakeStays
    <2> QED
        BY <1>3, <2>2, <2>3 DEF RequestCancellation
<1>4. CASE Cancel
    <2>1. /\ RowStep /\ RowOK' /\ (row.status \notin Terminal \ {"CANCELLED"} => row'.cancel)
        BY <1>2, <1>4, CancelledStep DEF Cancel, IInv
    <2>2. PICK what \in {"refused", "accepted"} :
            Answer(Cancellation, what) /\ (what = "accepted" => row'.cancel)
        BY <1>4, <2>1 DEF Cancel
    <2>3. /\ answers' \subseteq Reply
          /\ \A a \in answers' : a \in answers \/ (a.to = Cancellation /\ a.what = what)
        BY <2>2, AnswerFacts, SMT
    <2>4. ServiceOK'
        <3>1. \A t \in Servers : ServerOK(t)'
            BY <1>1, <1>2, <2>1 DEF IInv, ServiceOK, ServerOK, RowStep
        <3>2. AnswersAreTrue'
            BY <1>2, <2>1, <2>2, <2>3 DEF IInv, ServiceOK, AnswersAreTrue, RowStep
        <3> QED
            BY <1>2, <2>1, <3>1, <3>2 DEF ServiceOK, RowStep
    <2>5. owner' = Idle
        BY <1>4 DEF Cancel
    <2> QED
        BY <1>1, <2>1, <2>3, <2>4, <2>5, ServiceTypes, IntakeStays
<1>5. CASE RequestDeletion
    <2>1. RowStep /\ RowOK' /\ UNCHANGED service
        BY <1>2, <1>5, DeletedStep DEF RequestDeletion, IInv, service
    <2>2. ServiceOK'
        BY <1>2, <2>1, ServiceStays
    <2> QED
        BY <1>1, <2>1, <2>2, ServiceTypes, IntakeStays DEF service
<1> QED
    BY <1>3, <1>4, <1>5
---------------------------------------------------------------------------
(* The theorems.                                                           *)

\* Before the first release is received the invariant holds.
LEMMA InitInvariant ==
    ASSUME Init PROVE IInv
<1>1. NoRow.status = "NONE" /\ Idle.pc = "idle"
    BY DEF NoRow, Idle
<1>2. TypeOK
    BY DEF Init, Begin, TypeOK
<1>3. RowOK /\ OneJobPerRun /\ OnePublisher
    BY <1>1, SMT DEF Init, Begin, RowOK, OneJobPerRun, OnePublisher
<1>4. \A c \in Consumers : ConsumerOK(c)
    BY <1>1 DEF Init, Begin, ConsumerOK
<1>5. ReleaseAccounted
    BY DEF Init, Begin, ReleaseAccounted
<1>6. ServiceOK
    BY <1>1 DEF Init, Begin, ServiceOK, ServerOK, AnswersAreTrue
<1> QED
    BY <1>2, <1>3, <1>4, <1>5, <1>6 DEF IInv

\* Every step keeps the invariant and overwrites nothing.
LEMMA StepInvariant ==
    ASSUME IInv, [Next]_vars PROVE IInv' /\ RowStep
<1>1. CASE UNCHANGED vars
    <2>1. UNCHANGED <<row, jobs, doc, dead, inputs, queue, at, faults>> /\ UNCHANGED service
        BY <1>1 DEF vars, service
    <2>2. RowStep
        BY <2>1 DEF RowStep
    <2> QED
        BY <2>1, <2>2, QuietStep DEF IInv, TypeOK
<1>2. ASSUME NEW c \in Consumers, ConsumerStep(c) \/ Abandon(c) PROVE IInv' /\ RowStep
    <2>1. CASE Accept(c)
        BY <2>1, AcceptStep
    <2>2. CASE Publish(c) \/ DeadLetter(c) \/ Delete(c)
        BY <2>2, EffectStep DEF Publish, DeadLetter, Delete, RowStep
    <2>3. CASE (\E m \in Releases : Receive(c, m)) \/ Validate(c) \/ Refuse(c) \/ NotYet(c) \/ Abandon(c)
        BY <2>3, DeliveryStep DEF Receive, Validate, Refuse, NotYet, Abandon, RowStep
    <2> QED
        BY <1>2, <2>1, <2>2, <2>3 DEF ConsumerStep
<1>3. CASE (\E m \in Releases : Redeliver(m)) \/ Resolve
    BY <1>3, WaitingStep DEF Redeliver, Resolve, RowStep
<1>4. CASE StartAttempt \/ Requeue
    BY <1>4, AttemptStep
<1>5. ASSUME NEW s \in Servers, Apply(s) \/ Restart(s) \/ \E ev \in Events, i \in IfMatch : Ingest(s, ev, i)
      PROVE  IInv' /\ RowStep
    BY <1>5, ApplyStep, RestartStep, IngestStep DEF Restart, Ingest, RowStep
<1>6. CASE RequestCancellation \/ Cancel \/ RequestDeletion
    BY <1>6, OwnerStep
<1> QED
    BY <1>1, <1>2, <1>3, <1>4, <1>5, <1>6 DEF Next

\* The invariant holds of any number of consumers, servers, releases and events.
THEOREM Invariance == Spec => []IInv
<1>1. Init => IInv
    BY InitInvariant
<1>2. IInv /\ [Next]_vars => IInv'
    BY StepInvariant
<1> QED
    BY <1>1, <1>2, PTL DEF Spec

\* The run, the queue, the consumers and the service keep their types.
THEOREM TypeCorrect == Spec => []TypeOK
BY Invariance, PTL DEF IInv

\* BacktestLifecycleService.accept: one run has at most one job, however many consumers
\* accept its releases at once and however often.
THEOREM OneJob == Spec => []OneJobPerRun
BY Invariance, PTL DEF IInv

\* OfficialBacktestIntake.handle: no release disappears or is taken for another's run.
THEOREM NoReleaseIsLost == Spec => []ReleaseAccounted
BY Invariance, PTL DEF IInv

\* ingest_result and request_cancellation: what was answered stays true.
THEOREM AnswersStayTrue == Spec => []AnswersAreTrue
<1>1. IInv => AnswersAreTrue
    BY DEF IInv, ServiceOK
<1> QED
    BY <1>1, Invariance, PTL

\* _transition: what was accepted, decided or asked for is not overwritten.
THEOREM NothingIsOverwritten == Spec => NothingOverwritten
<1>1. IInv /\ [Next]_vars =>
        [row # NoRow =>
            /\ row'.content = row.content
            /\ row.status \in Terminal => row'.status = row.status /\ row'.outcome = row.outcome
            /\ (row.cancel => row'.cancel) /\ (row.deletion => row'.deletion)
            /\ (row.hidden => row'.hidden)]_vars
    BY StepInvariant DEF RowStep
<1> QED
    BY <1>1, Invariance, PTL DEF Spec, NothingOverwritten
=============================================================================
