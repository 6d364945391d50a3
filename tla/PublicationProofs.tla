------------------------- MODULE PublicationProofs -------------------------
(***************************************************************************)
(* Proofs, for every number of attempts, tries and faults and for both     *)
(* object stores, that the detail parts of a COMPLETED run stay, that      *)
(* compensation is owned, that what a publisher reports is so and that     *)
(* uploads are accounted for.                                              *)
(***************************************************************************)
EXTENDS Publication, TLAPS

\* Most steps are first-order; a step that needs arithmetic or records says SMT.
USE Zenon

USE DEF AttemptRow

\* The part of attempt a is nowhere yet.
Clean(a) == store[a].ver = 0 /\ row[a].status = "NONE" /\ cap[a][a].ver = 0

\* The part of attempt a is as its publisher left it before the commit.
Kept(a) ==
    /\ row[a].status = "AVAILABLE" /\ row[a].ver = cap[a][a].ver
    /\ store[a].ver = cap[a][a].ver /\ store[a].good
    /\ cap[a][a].ver # 0 /\ (cap[a][a].owned \/ store[a].retried)

\* The result of attempt a is official, or may become so whatever its publisher does.
Bound(a) == conn[a] = "pending" \/ run.official = a

AfterCommit == {"check", "scan", "sweep", "unclean", "crashed"}

\* The publisher has raised its original error although its commit may yet turn out, or has
\* turned out, to be done: only of a part that its own retry reconciled.
Misled(a) == pc[a] = "raised" /\ store[a].retried

\* Cleanup asks the gate about the part, or keeps it because the attempt does not own it.
Spared(a) ==
    \/ plan[a][a].what = "batch"
    \/ plan[a][a].what = "keep" /\ store[a].retried

\* What the publisher of attempt a relies on where it is.  A part belongs to one attempt
\* and no plan of another names it; the plan about a part that is bound is to ask the
\* gate, which refuses, or to keep it.
AttemptOK(a) ==
    /\ att[a].status = "NONE" => pc[a] = "idle"
    /\ pc[a] \in {"idle", "lock", "put"} => Clean(a)
    /\ pc[a] \in {"register", "verify"} => cap[a][0].ver # 0
    /\ pc[a] = "register" =>
          \/ Clean(a)
          \/ /\ store[a].ver = cap[a][a].ver /\ cap[a][a].ver # 0
             /\ cap[a][a].created \/ store[a].retried
             /\ row[a].status = "NONE"
    /\ pc[a] = "verify" =>
          \/ Clean(a)
          \/ /\ row[a].status = "STAGED" /\ row[a].ver = cap[a][a].ver
             /\ store[a].ver = cap[a][a].ver /\ cap[a][a].ver # 0
             /\ cap[a][a].owned \/ store[a].retried
    /\ pc[a] \in {"finish", "check"} => Kept(a)
    /\ Bound(a) => Kept(a)
    /\ conn[a] = "pending" => att[a].status = "RUNNING" /\ (pc[a] \in AfterCommit \/ Misled(a))
    /\ run.official = a => pc[a] \in AfterCommit \cup {"done"} \/ Misled(a)
    /\ Bound(a) /\ pc[a] = "sweep" => Spared(a)
    /\ pc[a] = "done" => run.official = a
    /\ pc[a] = "cancelled" => run.status = "CANCELLED"
    /\ \A o \in Objects \ Artifacts(a) : plan[a][o].what = "skip"

\* Attempts are claimed in order, only the newest of a RUNNING run is open, and only a
\* COMPLETED run has a result.
RunOK ==
    /\ \A a, b \in Attempts : b < a /\ att[a].status # "NONE" => att[b].status # "NONE"
    /\ \A a \in Attempts : att[a].status = "RUNNING" => run.status = "RUNNING" /\ Newest(a)
    /\ run.official # 0 => run.status = "COMPLETED"

\* A row names a version.
RowsOK == \A o \in Objects : row[o].status # "NONE" => row[o].ver # 0

\* The inductive invariant.
IInv == TypeOK /\ RunOK /\ RowsOK /\ \A a \in Attempts : AttemptOK(a)
---------------------------------------------------------------------------
\* The facts every step starts from.
LEMMA Known ==
    ASSUME IInv, NEW a \in Attempts
    PROVE  /\ TypeOK /\ RunOK /\ RowsOK /\ AttemptOK(a)
           /\ a \in Objects /\ 0 \in Objects /\ a # 0 /\ a \in Nat
           /\ Artifacts(a) = {0, a} /\ Artifacts(a) \subseteq Objects
<1>1. a \in Objects /\ 0 \in Objects /\ a # 0 /\ a \in Nat
    BY PublicationAssumption, SMT DEF Attempts, Objects
<1> QED
    BY <1>1 DEF IInv, Artifacts

\* An attempt that a step does not touch relies on what it did.
LEMMA OthersStay ==
    ASSUME IInv, NEW b \in Attempts,
           pc'[b] = pc[b], conn'[b] = conn[b], cap'[b] = cap[b], plan'[b] = plan[b],
           store'[b] = store[b], row'[b] = row[b],
           run'.official = b => run.official = b,
           run.official = b => run'.official = b,
           run.status = "CANCELLED" => run'.status = "CANCELLED",
           conn[b] = "pending" => att'[b].status = "RUNNING",
           att'[b].status = "NONE" => att[b].status = "NONE"
    PROVE  AttemptOK(b)'
BY SMT DEF IInv, AttemptOK, Clean, Kept, Bound, Misled, Spared

\* A step of attempt a that touches no object of another attempt.
LEMMA StepOf ==
    ASSUME IInv, NEW a \in Attempts, TypeOK', RunOK', RowsOK', AttemptOK(a)',
           \A b \in Attempts \ {a} :
              /\ pc'[b] = pc[b] /\ conn'[b] = conn[b] /\ cap'[b] = cap[b] /\ plan'[b] = plan[b]
              /\ store'[b] = store[b] /\ row'[b] = row[b]
              /\ conn[b] = "pending" => att'[b].status = "RUNNING"
              /\ att'[b].status = "NONE" => att[b].status = "NONE",
           run'.official = run.official \/ (run.official = 0 /\ run'.official = a),
           run.status = "CANCELLED" => run'.status = "CANCELLED"
    PROVE  IInv'
<1> SUFFICES ASSUME NEW b \in Attempts PROVE AttemptOK(b)'
    BY DEF IInv
<1>1. CASE b = a
    BY <1>1
<1>2. CASE b # a
    <2>1. b # 0
        BY Known
    <2> QED
        BY <1>2, <2>1, OthersStay
<1> QED
    BY <1>1, <1>2
---------------------------------------------------------------------------
(* The attempts and the owner.                                             *)

\* A claim: the run is not over, and the row is free.
LEMMA ClaimStep ==
    ASSUME IInv, NEW a \in Attempts, Claim(a) PROVE IInv'
<1>1. /\ UNCHANGED <<provider, objects, journal, err, conn, faults>>
      /\ pc' = [pc EXCEPT ![a] = "lock"] /\ run' = [run EXCEPT !.status = "RUNNING"]
      /\ run.status \in {"QUEUED", "RUNNING"} /\ att[a].status = "NONE"
      /\ \A b \in Attempts : conn[b] # "pending"
      /\ \A b \in 1..(a - 1) : att[b].status # "NONE"
    BY DEF Claim, Goto, Free
<1>2. att' \in [Attempts -> AttemptRow]
      /\ att'[a].status = "RUNNING"
      /\ \A b \in Attempts \ {a} : att'[b].status # "RUNNING"
                                   /\ (att'[b].status # "NONE" <=> att[b].status # "NONE")
    BY Known DEF Claim, TypeOK
<1>3. run'.status = "RUNNING" /\ run'.official = run.official /\ run.official = 0
    BY <1>1, Known DEF TypeOK, RunOK
<1>4. TypeOK'
    BY <1>1, <1>2, Known DEF TypeOK, objects, journal, PublisherPc
<1>5. RunOK' /\ RowsOK'
    <2>1. \A b \in Attempts : a < b => att[b].status = "NONE"
        BY <1>1, Known DEF RunOK
    <2>2. Newest(a)'
        BY <1>2, <2>1, SMT DEF Newest, Claimed, Attempts
    <2>3. \A b, c \in Attempts : c < b /\ att'[b].status # "NONE" => att'[c].status # "NONE"
        <3> SUFFICES ASSUME NEW b \in Attempts, NEW c \in Attempts, c < b, att'[b].status # "NONE"
                     PROVE  att'[c].status # "NONE"
            OBVIOUS
        <3>1. CASE b = a
            BY <1>1, <1>2, <3>1, SMT DEF Attempts
        <3>2. CASE b # a
            BY <1>2, <3>2, Known DEF RunOK
        <3> QED
            BY <3>1, <3>2
    <2> QED
        BY <1>1, <1>2, <1>3, <2>2, <2>3, Known DEF RunOK, RowsOK, objects
<1>6. AttemptOK(a)'
    <2>1. pc[a] = "idle"
        BY <1>1, Known DEF AttemptOK
    <2> QED
        BY <1>1, <1>2, <1>3, <2>1, Known, SMT DEF AttemptOK, Clean, Bound, TypeOK, objects, journal, Misled, Spared
<1> QED
    BY <1>1, <1>2, <1>3, <1>4, <1>5, <1>6, StepOf, Known DEF objects, journal, TypeOK

\* An attempt is closed, by its worker, by recovery or as cancelled; its run was RUNNING
\* and nobody has a commit under way.
LEMMA ClosingStep ==
    ASSUME IInv, NEW a \in Attempts, NEW st \in {"FAILED", "CANCELLED"},
           NEW to \in {"QUEUED", "RUNNING", "FAILED", "CANCELLED"},
           Free, att[a].status = "RUNNING", run.status = "RUNNING",
           att' = [att EXCEPT ![a] = [status |-> st, live |-> FALSE]],
           run' = [run EXCEPT !.status = to],
           UNCHANGED <<provider, objects, journal, conn, faults>>,
           pc' \in [Attempts -> PublisherPc], err' \in [Attempts -> {"none", "retry", "conflict"}],
           \A b \in Attempts \ {a} : pc'[b] = pc[b],
           \/ pc'[a] = pc[a]
           \/ pc[a] = "lock" /\ pc'[a] = "cancelled" /\ to = "CANCELLED"
    PROVE  IInv'
<1>1. /\ att'[a].status = st /\ \A b \in Attempts \ {a} : att'[b] = att[b]
      /\ run'.status = to /\ run'.official = run.official /\ run.official = 0
      /\ \A b \in Attempts : conn[b] # "pending"
    BY Known DEF TypeOK, RunOK, Free
<1>2. TypeOK'
    <2>1. run' \in [status : {"QUEUED", "RUNNING"} \cup Terminal, cancel : BOOLEAN, official : Objects]
        BY Known DEF TypeOK, Terminal
    <2>2. att' \in [Attempts -> AttemptRow]
        BY Known DEF TypeOK
    <2> QED
        BY <2>1, <2>2, Known DEF TypeOK, objects, journal
<1>3. RowsOK'
    BY Known DEF RowsOK, objects
<1>4. RunOK'
    <2>1. \A b \in Attempts : att'[b].status # "RUNNING"
        <3> SUFFICES ASSUME NEW b \in Attempts, b # a, att[b].status = "RUNNING" PROVE FALSE
            BY <1>1
        <3>1. Newest(a) /\ Newest(b)
            BY Known DEF RunOK
        <3> QED
            BY <3>1, Known, SMT DEF Newest, Attempts
    <2>2. \A b \in Attempts : att'[b].status # "NONE" <=> att[b].status # "NONE"
        BY <1>1
    <2> QED
        BY <1>1, <2>1, <2>2, Known DEF RunOK
<1>5. AttemptOK(a)'
    <2>1. pc[a] # "cancelled"
        BY Known DEF AttemptOK
    <2> QED
        BY <1>1, <2>1, Known, SMT DEF AttemptOK, Clean, Kept, Bound, objects, journal, AfterCommit, Misled, Spared
<1> QED
    BY <1>1, <1>2, <1>3, <1>4, <1>5, StepOf DEF objects, journal

\* Closing and recovering an attempt.
LEMMA CloseStep ==
    ASSUME IInv, NEW a \in Attempts, Recover(a) \/ Close(a) PROVE IInv'
<1>1. Free /\ att[a].status = "RUNNING" /\ run.status = "RUNNING"
    BY Known DEF Recover, Close, Live, RunOK
<1>2. \E st \in {"FAILED", "CANCELLED"}, to \in {"QUEUED", "RUNNING", "FAILED", "CANCELLED"} :
        /\ att' = [att EXCEPT ![a] = [status |-> st, live |-> FALSE]]
        /\ run' = [run EXCEPT !.status = to]
    <2>1. CASE Recover(a)
        BY <2>1 DEF Recover
    <2>2. CASE Close(a)
        BY <1>1, <2>2 DEF Close
    <2> QED
        BY <2>1, <2>2
<1>3. UNCHANGED <<provider, objects, journal, conn, faults>> /\ pc' = pc /\ err' = err
    BY DEF Recover, Close
<1> QED
    BY <1>1, <1>2, <1>3, ClosingStep, Known DEF TypeOK

\* A cancellation seen under the lock.
LEMMA LockCancelledStep ==
    ASSUME IInv, NEW a \in Attempts, LockCancelled(a) PROVE IInv'
<1>1. /\ UNCHANGED <<provider, objects, journal, conn, faults>> /\ Free /\ pc[a] = "lock"
    BY DEF LockCancelled
<1>2. CASE /\ Live(a) /\ run.status = "RUNNING"
           /\ att' = [att EXCEPT ![a] = [status |-> "CANCELLED", live |-> FALSE]]
           /\ run' = [run EXCEPT !.status = "CANCELLED"]
           /\ pc' = [pc EXCEPT ![a] = "cancelled"] /\ err' = err
    <2>1. att[a].status = "RUNNING"
        BY <1>2 DEF Live
    <2>2. /\ pc' \in [Attempts -> PublisherPc] /\ pc'[a] = "cancelled"
          /\ \A b \in Attempts \ {a} : pc'[b] = pc[b]
          /\ err' \in [Attempts -> {"none", "retry", "conflict"}]
        BY <1>2, Known DEF TypeOK, PublisherPc
    <2> QED
        BY <1>1, <1>2, <2>1, <2>2, ClosingStep
<1>3. ASSUME NEW p \in {"raised", "unclean"}, pc' = [pc EXCEPT ![a] = p],
             err' = [err EXCEPT ![a] = "conflict"], UNCHANGED <<run, att>>
      PROVE  IInv'
    <2>1. TypeOK' /\ RunOK' /\ RowsOK'
        BY <1>1, <1>3, Known DEF TypeOK, RunOK, RowsOK, Newest, Claimed, objects, journal, PublisherPc
    <2>2. pc'[a] = p /\ \A b \in Attempts \ {a} : pc'[b] = pc[b]
        BY <1>3, Known DEF TypeOK
    <2>3. AttemptOK(a)'
        BY <1>1, <1>3, <2>2, Known, SMT DEF AttemptOK, Bound, Kept, Clean, objects, journal, AfterCommit, Misled, Spared
    <2>4. \A b \in Attempts : conn[b] # "pending"
        BY <1>1 DEF Free
    <2> QED
        BY <1>1, <1>3, <2>1, <2>2, <2>3, <2>4, StepOf DEF objects, journal
<1> QED
    BY <1>2, <1>3 DEF LockCancelled, Goto

\* Of the owner's cancellation the publishers see nothing yet.
LEMMA OwnerStep ==
    ASSUME IInv, RequestCancellation PROVE IInv'
<1>1. /\ UNCHANGED <<provider, att, objects, journal, pc, err, conn, faults>>
      /\ run.status \in {"QUEUED", "RUNNING"}
      /\ run' \in [status : {"QUEUED", "RUNNING"} \cup Terminal, cancel : BOOLEAN, official : Objects]
      /\ run'.official = run.official
      /\ run.status = "RUNNING" => run'.status = "RUNNING"
    BY DEF RequestCancellation, IInv, TypeOK, Terminal
<1>2. TypeOK' /\ RowsOK'
    BY <1>1 DEF IInv, TypeOK, RowsOK, objects, journal
<1>3. RunOK'
    BY <1>1 DEF IInv, RunOK, Newest, Claimed
<1>4. ASSUME NEW b \in Attempts PROVE AttemptOK(b)'
    <2>1. AttemptOK(b) /\ (conn[b] = "pending" => att[b].status = "RUNNING")
        BY Known DEF AttemptOK
    <2> QED
        BY <1>1, <2>1, OthersStay DEF objects, journal
<1> QED
    BY <1>2, <1>3, <1>4 DEF IInv

\* A lease that runs out, a crash and a lost connection: nothing pending is lost.
LEMMA FaultStep ==
    ASSUME IInv, NEW a \in Attempts, Expire(a) \/ Crash(a) \/ LoseConnection(a) PROVE IInv'
<1>a. /\ TypeOK /\ RunOK /\ RowsOK /\ AttemptOK(a)
      /\ a \in Objects /\ 0 \in Objects /\ a # 0 /\ Artifacts(a) = {0, a}
    BY Known
<1>0. /\ UNCHANGED <<provider, run, objects, journal, err>>
      /\ faults' = faults \/ faults' = faults + 1
    BY DEF Expire, Crash, LoseConnection, Fault
<1>1. faults' \in Nat
    BY <1>0, Known, SMT DEF TypeOK
<1>2. /\ att' \in [Attempts -> AttemptRow]
      /\ \A b \in Attempts : att'[b].status = att[b].status
    <2>1. CASE Expire(a)
        <3>1. att' = [att EXCEPT ![a] = [att[a] EXCEPT !.live = FALSE]]
            BY <2>1 DEF Expire
        <3>2. PICK u \in AttemptRow :
                u = att[a]
            BY Known DEF TypeOK
        <3>3. /\ [u EXCEPT !.live = FALSE].status = u.status
              /\ [u EXCEPT !.live = FALSE] \in
                    AttemptRow
            OBVIOUS
        <3> QED
            BY <3>1, <3>2, <3>3, Known DEF TypeOK
    <2>2. CASE att' = att
        BY <2>2, Known DEF TypeOK
    <2> QED
        BY <2>1, <2>2 DEF Crash, LoseConnection
<1>3. /\ pc' \in [Attempts -> PublisherPc]
      /\ \A b \in Attempts \ {a} : pc'[b] = pc[b] /\ conn'[b] = conn[b]
      /\ conn' \in [Attempts -> {"none", "held", "lost", "pending"}]
      /\ conn'[a] = "pending" <=> conn[a] = "pending"
      /\ pc'[a] = pc[a] \/ 
           (pc'[a] = "crashed" /\
              pc[a] \notin {"idle", "done", "cancelled", "raised", "unclean", "crashed"})
    <2>1. CASE Expire(a)
        BY <2>1, Known, SMT DEF Expire, TypeOK
    <2>2. CASE Crash(a)
        BY <2>2, Known, SMT DEF Crash, Goto, TypeOK, PublisherPc
    <2>3. CASE LoseConnection(a)
        BY <2>3, Known, SMT DEF LoseConnection, TypeOK
    <2> QED
        BY <2>1, <2>2, <2>3
<1>4. TypeOK' /\ RowsOK'
    BY <1>0, <1>1, <1>2, <1>3, Known DEF TypeOK, RowsOK, objects, journal
<1>5. RunOK'
    BY <1>0, <1>2, Known DEF RunOK, Newest, Claimed
<1>6. AttemptOK(a)'
    BY <1>0, <1>2, <1>3, <1>a DEF AttemptOK, Clean, Kept, Bound, objects, journal, AfterCommit, Misled, Spared
<1>7. \A b \in Attempts : conn[b] = "pending" => att'[b].status = "RUNNING"
    BY <1>2, Known DEF AttemptOK
<1> QED
    BY <1>0, <1>2, <1>3, <1>4, <1>5, <1>6, <1>7, StepOf DEF objects, journal
---------------------------------------------------------------------------
(* The publishers.                                                         *)

\* A step of a publisher leaves the run and the attempts alone.
LEMMA PublisherStep ==
    ASSUME IInv, NEW a \in Attempts, TypeOK', RowsOK', AttemptOK(a)', UNCHANGED <<run, att>>,
           \A b \in Attempts \ {a} :
              /\ pc'[b] = pc[b] /\ conn'[b] = conn[b] /\ cap'[b] = cap[b] /\ plan'[b] = plan[b]
              /\ store'[b] = store[b] /\ row'[b] = row[b]
    PROVE  IInv'
<1>1. RunOK'
    BY Known DEF RunOK, Newest, Claimed
<1>2. \A b \in Attempts : conn[b] = "pending" => att[b].status = "RUNNING"
    BY Known DEF AttemptOK
<1> QED
    BY <1>1, <1>2, StepOf

\* What an exception does to the publisher.
LEMMA RaiseFacts ==
    ASSUME IInv, NEW a \in Attempts, NEW why \in {"retry", "conflict"}, Raise(a, why)
    PROVE  /\ pc' \in [Attempts -> PublisherPc] /\ err' \in [Attempts -> {"none", "retry", "conflict"}]
           /\ conn' \in [Attempts -> {"none", "held", "lost", "pending"}]
           /\ pc'[a] = (IF pc[a] = "finish" THEN "check" ELSE "scan") /\ conn'[a] = "none"
           /\ \A b \in Attempts \ {a} : pc'[b] = pc[b] /\ conn'[b] = conn[b]
BY Known DEF Raise, Goto, TypeOK, PublisherPc

\* Where a publisher goes otherwise.
LEMMA GotoFacts ==
    ASSUME IInv, NEW a \in Attempts, NEW where \in PublisherPc, Goto(a, where)
    PROVE  /\ pc' \in [Attempts -> PublisherPc] /\ pc'[a] = where
           /\ \A b \in Attempts \ {a} : pc'[b] = pc[b]
BY Known DEF Goto, TypeOK

\* A publisher that has not got to its commit may fail and go to clean up.
LEMMA RaisedOK ==
    ASSUME IInv, NEW a \in Attempts, pc[a] \in {"put", "register", "verify"},
           pc'[a] = "scan", conn'[a] = "none", plan'[a] = plan[a], UNCHANGED <<run, att>>
    PROVE  AttemptOK(a)'
<1>1. run.official # a /\ att[a].status # "NONE"
    BY Known DEF AttemptOK, AfterCommit, Misled, Spared
<1> QED
    BY <1>1, Known, SMT DEF AttemptOK, Bound, Misled, Spared

\* Locking the run row.
LEMMA LockStep ==
    ASSUME IInv, NEW a \in Attempts, Lock(a) PROVE IInv'
<1>a. /\ TypeOK /\ RunOK /\ RowsOK /\ AttemptOK(a)
      /\ a \in Objects /\ 0 \in Objects /\ a # 0 /\ Artifacts(a) = {0, a}
    BY Known
<1>1. /\ UNCHANGED <<provider, run, att, objects, journal, err, faults>> /\ pc[a] = "lock"
      /\ Goto(a, "put") /\ conn' = [conn EXCEPT ![a] = "held"]
    BY DEF Lock
<1>2. /\ pc' \in [Attempts -> PublisherPc] /\ pc'[a] = "put"
      /\ \A b \in Attempts \ {a} : pc'[b] = pc[b]
    BY <1>1, GotoFacts DEF PublisherPc
<1>3. /\ conn' \in [Attempts -> {"none", "held", "lost", "pending"}] /\ conn'[a] = "held"
      /\ \A b \in Attempts \ {a} : conn'[b] = conn[b]
    BY <1>1, Known DEF TypeOK
<1>4. TypeOK' /\ RowsOK'
    BY <1>1, <1>2, <1>3, Known DEF TypeOK, RowsOK, objects, journal
<1>5. AttemptOK(a)'
    BY <1>1, <1>2, <1>3, <1>a DEF AttemptOK, Clean, Bound, objects, journal, AfterCommit, Misled, Spared
<1> QED
    BY <1>1, <1>2, <1>3, <1>4, <1>5, PublisherStep DEF objects, journal

\* The bytes a put leaves.
LEMMA NextVersionFacts ==
    ASSUME TypeOK PROVE NextVersion \in Nat /\ NextVersion # 0
BY SMT DEF NextVersion, TypeOK

LEMMA BytesFacts ==
    ASSUME TypeOK, NEW good \in BOOLEAN, NEW retried \in BOOLEAN
    PROVE  /\ Bytes(good, retried) \in Version
           /\ Bytes(good, retried).ver = NextVersion /\ Bytes(good, retried).ver # 0
           /\ Bytes(good, retried).retried = retried
BY NextVersionFacts DEF Bytes, Version

\* A put that is answered.
LEMMA PutStep ==
    ASSUME IInv, NEW a \in Attempts, Put(a) PROVE IInv'
<1>a. /\ TypeOK /\ RunOK /\ RowsOK /\ AttemptOK(a)
      /\ a \in Objects /\ 0 \in Objects /\ a # 0 /\ Artifacts(a) = {0, a}
    BY Known
<1> DEFINE o == Current(a)
<1>1. /\ UNCHANGED <<provider, run, att, row, plan, tries>> /\ pc[a] = "put"
      /\ o \in {0, a} /\ o \in Objects
      /\ o = 0 <=> cap[a][0].ver = 0
    BY Known DEF Put, Current
<1>2. /\ faults' \in Nat /\ version' \in Nat /\ store' \in [Objects -> Version]
      /\ \A q \in Objects \ {o} : store'[q] = store[q]
      /\ store'[o].ver # 0
      /\ store[o].ver # 0 => store' = store
    <2>1. CASE store[o].ver # 0
        BY <1>1, <2>1, Known DEF Put, TypeOK
    <2>2. CASE store[o].ver = 0
        <3>1. /\ version' = NextVersion
              /\ \E good \in BOOLEAN :
                    /\ IF good THEN UNCHANGED faults ELSE Fault
                    /\ store' = [store EXCEPT ![o] = Bytes(good, FALSE)]
            BY <2>2 DEF Put
        <3>2. PICK good \in BOOLEAN : /\ IF good THEN UNCHANGED faults ELSE Fault
                                      /\ store' = [store EXCEPT ![o] = Bytes(good, FALSE)]
            BY <3>1
        <3>3. faults' \in Nat
            BY <3>2, Known, SMT DEF TypeOK, Fault
        <3>4. NextVersion \in Nat /\ Bytes(good, FALSE) \in Version /\ Bytes(good, FALSE).ver # 0
            BY Known, NextVersionFacts, BytesFacts
        <3> HIDE DEF o
        <3> QED
            BY <1>1, <2>2, <3>1, <3>2, <3>3, <3>4, Known DEF TypeOK
    <2> QED
        BY <2>1, <2>2
<1>3. CASE LocalRefuses(o)
    <2>1. cap' = cap /\ \E why \in {"retry", "conflict"} : Raise(a, why)
        BY <1>3 DEF Put
    <2>2. /\ pc' \in [Attempts -> PublisherPc] /\ err' \in [Attempts -> {"none", "retry", "conflict"}]
          /\ conn' \in [Attempts -> {"none", "held", "lost", "pending"}]
          /\ pc'[a] = "scan" /\ conn'[a] = "none"
          /\ \A b \in Attempts \ {a} : pc'[b] = pc[b] /\ conn'[b] = conn[b]
        BY <1>1, <2>1, RaiseFacts
    <2>3. TypeOK' /\ RowsOK'
        BY <1>1, <1>2, <2>1, <2>2, Known DEF TypeOK, RowsOK
    <2>4. AttemptOK(a)'
        BY <1>1, <2>2, RaisedOK
    <2>5. \A b \in Attempts \ {a} : store'[b] = store[b]
        BY <1>1, <1>2, Known
    <2> QED
        BY <1>1, <2>1, <2>2, <2>3, <2>4, <2>5, PublisherStep
<1>4. CASE ~LocalRefuses(o)
    <2> DEFINE c == Captured(o, store[o].ver = 0)
    <2>1. /\ cap' = [cap EXCEPT ![a] = [cap[a] EXCEPT ![o] = c]]
          /\ Goto(a, "register") /\ UNCHANGED <<err, conn>>
        BY <1>4 DEF Put
    <2>2. c \in Capture /\ c.ver = store'[o].ver /\ (c.created <=> store[o].ver = 0)
        BY <1>1, <1>2 DEF Captured, Capture, Version
    <2> HIDE DEF c, o
    <2>3. /\ cap' \in [Attempts -> [Objects -> Capture]] /\ cap'[a][o] = c
          /\ \A b \in Attempts \ {a} : cap'[b] = cap[b]
          /\ \A q \in Objects \ {o} : cap'[a][q] = cap[a][q]
        BY <1>1, <2>1, <2>2, Known DEF TypeOK
    <2>4. /\ pc' \in [Attempts -> PublisherPc] /\ pc'[a] = "register"
          /\ \A b \in Attempts \ {a} : pc'[b] = pc[b]
        BY <2>1, GotoFacts DEF PublisherPc
    <2>5. TypeOK' /\ RowsOK'
        BY <1>1, <1>2, <2>1, <2>3, <2>4, Known DEF TypeOK, RowsOK
    <2>6. AttemptOK(a)'
        <3>1. Clean(a) /\ ~Bound(a) /\ att[a].status # "NONE"
            BY <1>1, Known DEF AttemptOK, Bound, AfterCommit, Misled, Spared
        <3>2. ~Bound(a)' /\ plan'[a] = plan[a]
            BY <1>1, <2>1, <3>1 DEF Bound
        <3>3. cap'[a][0].ver # 0
            BY <1>1, <1>2, <2>2, <2>3, Known
        <3>4. \/ Clean(a)'
              \/ /\ store'[a].ver = cap'[a][a].ver /\ cap'[a][a].ver # 0
                 /\ cap'[a][a].created /\ row'[a].status = "NONE"
            <4>1. CASE o = 0
                BY <1>1, <1>2, <2>3, <3>1, <4>1, Known DEF Clean
            <4>2. CASE o = a
                BY <1>1, <1>2, <2>2, <2>3, <3>1, <4>2, Known DEF Clean
            <4> QED
                BY <1>1, <4>1, <4>2
        <3> QED
            BY <1>1, <2>4, <3>1, <3>2, <3>3, <3>4, <1>a DEF AttemptOK, Bound, Misled, Spared
    <2>7. \A b \in Attempts \ {a} : store'[b] = store[b]
        BY <1>1, <1>2, Known
    <2> QED
        BY <1>1, <2>1, <2>3, <2>4, <2>5, <2>6, <2>7, PublisherStep
<1> QED
    BY <1>3, <1>4

\* A put that fails.
LEMMA PutFailsStep ==
    ASSUME IInv, NEW a \in Attempts, PutFails(a) PROVE IInv'
<1> DEFINE o == Current(a)
<1>1. /\ UNCHANGED <<provider, run, att, row, cap, plan, tries>> /\ pc[a] = "put"
      /\ o \in {0, a} /\ o \in Objects /\ Raise(a, "retry") /\ faults' = faults + 1
    BY Known DEF PutFails, Current, Fault
<1>2. /\ version' \in Nat /\ store' \in [Objects -> Version]
      /\ \A b \in Attempts \ {a} : store'[b] = store[b]
    <2>1. NextVersion \in Nat
        BY Known, NextVersionFacts
    <2>2. \/ UNCHANGED <<store, version>>
          \/ version' = NextVersion /\ store' = [store EXCEPT ![o] = Bytes(TRUE, FALSE)]
        BY DEF PutFails
    <2>3. \A b \in Attempts \ {a} : b # o /\ b \in Objects
        BY <1>1, Known
    <2> HIDE DEF o
    <2>4. CASE UNCHANGED <<store, version>>
        BY <2>4, Known DEF TypeOK
    <2>5. CASE version' = NextVersion /\ store' = [store EXCEPT ![o] = Bytes(TRUE, FALSE)]
        <3>1. Bytes(TRUE, FALSE) \in Version
            BY Known, BytesFacts
        <3> QED
            BY <1>1, <2>1, <2>3, <2>5, <3>1, Known DEF TypeOK
    <2> QED
        BY <2>2, <2>4, <2>5
<1>3. /\ pc' \in [Attempts -> PublisherPc] /\ err' \in [Attempts -> {"none", "retry", "conflict"}]
      /\ conn' \in [Attempts -> {"none", "held", "lost", "pending"}]
      /\ pc'[a] = "scan" /\ conn'[a] = "none"
      /\ \A b \in Attempts \ {a} : pc'[b] = pc[b] /\ conn'[b] = conn[b]
    BY <1>1, RaiseFacts
<1>4. TypeOK' /\ RowsOK'
    BY <1>1, <1>2, <1>3, Known, SMT DEF TypeOK, RowsOK
<1>5. AttemptOK(a)'
    BY <1>1, <1>3, RaisedOK
<1> QED
    BY <1>1, <1>2, <1>3, <1>4, <1>5, PublisherStep

\* A put whose lost write the retry in the call finds again.
LEMMA PutRetriedStep ==
    ASSUME IInv, NEW a \in Attempts, PutRetried(a) PROVE IInv'
<1>a. /\ TypeOK /\ RunOK /\ RowsOK /\ AttemptOK(a)
      /\ a \in Objects /\ 0 \in Objects /\ a # 0 /\ Artifacts(a) = {0, a}
    BY Known
<1>1. PICK o : o = Current(a)
    OBVIOUS
<1>2. /\ UNCHANGED <<provider, run, att, row, err, conn, plan, tries>> /\ pc[a] = "put"
      /\ store[o].ver = 0 /\ faults' = faults + 1 /\ version' = NextVersion
      /\ store' = [store EXCEPT ![o] = Bytes(TRUE, TRUE)]
      /\ cap' = [cap EXCEPT ![a] = [cap[a] EXCEPT ![o] = Captured(o, FALSE)]]
      /\ Goto(a, "register")
    BY <1>1 DEF PutRetried, Fault
<1>3. o \in {0, a} /\ o \in Objects /\ (o = 0 <=> cap[a][0].ver = 0)
    BY <1>1, Known DEF Current
<1>4. /\ faults' \in Nat /\ version' \in Nat /\ store' \in [Objects -> Version]
      /\ \A q \in Objects \ {o} : store'[q] = store[q]
      /\ store'[o].ver # 0 /\ store'[o].retried
    <2>1. faults' \in Nat
        BY <1>2, Known, SMT DEF TypeOK
    <2> QED
        BY <1>2, <1>3, <2>1, Known, NextVersionFacts, BytesFacts DEF TypeOK
<1>5. PICK c \in Capture : c = Captured(o, FALSE) /\ c.ver = store'[o].ver
    <2>1. /\ Captured(o, FALSE) \in Capture
          /\ Captured(o, FALSE).ver = store'[o].ver
        BY <1>3, <1>4 DEF Captured, Capture, Version
    <2> QED
        BY <2>1
<1>6. /\ cap' \in [Attempts -> [Objects -> Capture]] /\ cap'[a][o] = c
      /\ \A b \in Attempts \ {a} : cap'[b] = cap[b]
      /\ \A q \in Objects \ {o} : cap'[a][q] = cap[a][q]
    BY <1>2, <1>3, <1>5, Known DEF TypeOK
<1>7. /\ pc' \in [Attempts -> PublisherPc] /\ pc'[a] = "register"
      /\ \A b \in Attempts \ {a} : pc'[b] = pc[b]
    BY <1>2, GotoFacts DEF PublisherPc
<1>8. TypeOK' /\ RowsOK'
    BY <1>2, <1>4, <1>6, <1>7, Known DEF TypeOK, RowsOK
<1>9. AttemptOK(a)'
    <2>1. Clean(a) /\ ~Bound(a) /\ att[a].status # "NONE"
        BY <1>2, Known DEF AttemptOK, Bound, AfterCommit, Misled, Spared
    <2>2. ~Bound(a)'
        BY <1>2, <2>1 DEF Bound
    <2>3. cap'[a][0].ver # 0
        BY <1>3, <1>4, <1>5, <1>6, Known
    <2>4. \/ Clean(a)'
          \/ /\ store'[a].ver = cap'[a][a].ver /\ cap'[a][a].ver # 0
             /\ store'[a].retried /\ row'[a].status = "NONE"
        <3>1. CASE o = 0
            BY <1>2, <1>4, <1>6, <2>1, <3>1, Known DEF Clean
        <3>2. CASE o = a
            BY <1>2, <1>4, <1>5, <1>6, <2>1, <3>2, Known DEF Clean
        <3> QED
            BY <1>3, <3>1, <3>2
    <2> QED
        BY <1>2, <1>7, <2>1, <2>2, <2>3, <2>4, <1>a DEF AttemptOK, Bound, Misled, Spared
<1>10. \A b \in Attempts \ {a} : store'[b] = store[b]
    BY <1>3, <1>4, Known
<1> QED
    BY <1>2, <1>6, <1>7, <1>8, <1>9, <1>10, PublisherStep

\* What registering leaves is a row with a version; the part of its own attempt, which has
\* no row yet, becomes its STAGED row, and the attempt owns it unless a retry made it.
LEMMA RegisteredFacts ==
    ASSUME IInv, NEW a \in Attempts, NEW o, pc[a] = "register", o = Uploaded(a)
    PROVE  /\ o \in {0, a} /\ o \in Objects /\ (o = 0 <=> cap[a][a].ver = 0)
           /\ Registered(a, o) \in Registration /\ Registered(a, o).ver # 0
           /\ o = 0 => Clean(a)
           /\ o = a => /\ store[a].ver = cap[a][a].ver /\ cap[a][a].ver # 0
                       /\ Registered(a, o).status = "STAGED"
                       /\ Registered(a, o).ver = cap[a][a].ver
                       /\ Registered(a, o).owner = a \/ store[a].retried
<1>a. /\ TypeOK /\ RunOK /\ RowsOK /\ AttemptOK(a)
      /\ a \in Objects /\ 0 \in Objects /\ a # 0 /\ Artifacts(a) = {0, a}
    BY Known
<1>1. o \in {0, a} /\ o \in Objects /\ (o = 0 <=> cap[a][a].ver = 0)
    BY Known DEF Uploaded
<1>2. o = 0 => Clean(a)
    BY <1>1, Known DEF AttemptOK, Clean
<1>3. cap[a][o].ver # 0 /\ cap[a][o].ver \in Nat
    BY <1>1, Known, SMT DEF AttemptOK, TypeOK, Capture
<1>4. o = a => /\ store[a].ver = cap[a][a].ver /\ cap[a][a].ver # 0
               /\ row[a].status = "NONE" /\ (cap[a][a].created \/ store[a].retried)
    BY <1>1, <1>a DEF AttemptOK, Clean
<1>5. o = a => /\ Registered(a, o).status = "STAGED"
               /\ Registered(a, o).ver = cap[a][a].ver
               /\ Registered(a, o).owner = a \/ store[a].retried
    BY <1>4 DEF Registered
<1>6. Registered(a, o) \in Registration /\ Registered(a, o).ver # 0
    <2>1. CASE row[o].status = "NONE"
        <3>1. Registered(a, o) = [status |-> "STAGED", ver |-> cap[a][o].ver,
                                  owner |-> IF cap[a][o].created THEN a ELSE 0]
            BY <2>1 DEF Registered
        <3> QED
            BY <1>3, <3>1, Known, SMT DEF Registration
    <2>2. CASE row[o].status # "NONE"
        <3>1. PICK r \in Registration : r = row[o]
            BY <1>1, Known DEF TypeOK
        <3>2. r.ver # 0
            BY <1>1, <2>2, <3>1, Known DEF RowsOK
        <3>3. Registered(a, o) = [r EXCEPT !.owner = IF Reissuable(a, o) THEN a ELSE r.owner]
            BY <2>2, <3>1 DEF Registered
        <3> QED
            BY <3>2, <3>3, Known DEF Registration
    <2> QED
        BY <2>1, <2>2
<1> QED
    BY <1>1, <1>2, <1>4, <1>5, <1>6

\* A registration that is answered.
LEMMA RegisterStep ==
    ASSUME IInv, NEW a \in Attempts, Register(a) PROVE IInv'
<1>1. PICK o : o = Uploaded(a)
    OBVIOUS
<1>2. /\ UNCHANGED <<provider, run, att, store, version, plan, tries, faults>> /\ pc[a] = "register"
      /\ IF RegisterAllowed(a, o)
         THEN /\ row' = [row EXCEPT ![o] = Registered(a, o)]
              /\ cap' = [cap EXCEPT ![a][o].owned = Registered(a, o).owner = a]
              /\ Goto(a, "verify")
              /\ UNCHANGED <<err, conn>>
         ELSE /\ Raise(a, IF row[o].status = "NONE" THEN "retry" ELSE "conflict")
              /\ UNCHANGED <<row, cap>>
    BY <1>1 DEF Register
<1>3. /\ o \in {0, a} /\ o \in Objects /\ (o = 0 <=> cap[a][a].ver = 0)
      /\ Registered(a, o) \in Registration /\ Registered(a, o).ver # 0
      /\ o = 0 => Clean(a)
      /\ o = a => /\ store[a].ver = cap[a][a].ver /\ cap[a][a].ver # 0
                  /\ Registered(a, o).status = "STAGED"
                  /\ Registered(a, o).ver = cap[a][a].ver
                  /\ Registered(a, o).owner = a \/ store[a].retried
    BY <1>1, <1>2, RegisteredFacts
<1>4. CASE ~RegisterAllowed(a, o)
    <2>1. UNCHANGED <<row, cap>> /\ \E why \in {"retry", "conflict"} : Raise(a, why)
        BY <1>2, <1>4
    <2>2. /\ pc' \in [Attempts -> PublisherPc] /\ err' \in [Attempts -> {"none", "retry", "conflict"}]
          /\ conn' \in [Attempts -> {"none", "held", "lost", "pending"}]
          /\ pc'[a] = "scan" /\ conn'[a] = "none"
          /\ \A b \in Attempts \ {a} : pc'[b] = pc[b] /\ conn'[b] = conn[b]
        BY <1>2, <2>1, RaiseFacts
    <2>3. TypeOK' /\ RowsOK'
        BY <1>2, <2>1, <2>2, Known DEF TypeOK, RowsOK
    <2>4. AttemptOK(a)'
        BY <1>2, <2>2, RaisedOK
    <2> QED
        BY <1>2, <2>1, <2>2, <2>3, <2>4, PublisherStep
<1>5. CASE RegisterAllowed(a, o)
    <2> DEFINE own == Registered(a, o).owner = a
               c == [cap[a][o] EXCEPT !.owned = own]
    <2>1. /\ row' = [row EXCEPT ![o] = Registered(a, o)]
          /\ cap' = [cap EXCEPT ![a] = [cap[a] EXCEPT ![o] = c]]
          /\ Goto(a, "verify") /\ UNCHANGED <<err, conn>>
        BY <1>2, <1>5
    <2>2. c \in Capture /\ c.ver = cap[a][o].ver /\ (c.owned <=> own)
        <3>1. PICK k \in Capture : k = cap[a][o]
            BY <1>3, Known, SMT DEF TypeOK
        <3>2. own \in BOOLEAN
            OBVIOUS
        <3> HIDE DEF own
        <3>3. c = [k EXCEPT !.owned = own]
            BY <3>1
        <3> QED
            BY <3>1, <3>2, <3>3 DEF Capture
    <2>3. o = a => own \/ store[a].retried
        BY <1>3, SMT
    <2> HIDE DEF c, own
    <2>4. /\ cap' \in [Attempts -> [Objects -> Capture]] /\ cap'[a][o] = c
          /\ \A b \in Attempts \ {a} : cap'[b] = cap[b]
          /\ \A q \in Objects \ {o} : cap'[a][q] = cap[a][q]
        BY <1>3, <2>1, <2>2, Known DEF TypeOK
    <2>5. /\ pc' \in [Attempts -> PublisherPc] /\ pc'[a] = "verify"
          /\ \A b \in Attempts \ {a} : pc'[b] = pc[b]
        BY <2>1, GotoFacts DEF PublisherPc
    <2>6. /\ row' \in [Objects -> Registration] /\ row'[o] = Registered(a, o)
          /\ \A q \in Objects \ {o} : row'[q] = row[q]
        BY <1>3, <2>1, Known DEF TypeOK
    <2>7. TypeOK' /\ RowsOK'
        BY <1>2, <1>3, <2>1, <2>4, <2>5, <2>6, Known DEF TypeOK, RowsOK
    <2>8. AttemptOK(a)'
        <3>1. ~Bound(a) /\ att[a].status # "NONE" /\ cap[a][0].ver # 0
            BY <1>2, Known DEF AttemptOK, Bound, AfterCommit, Misled, Spared
        <3>2. ~Bound(a)' /\ plan'[a] = plan[a]
            BY <1>2, <2>1, <3>1 DEF Bound
        <3>3. cap'[a][0].ver # 0
            BY <1>3, <2>2, <2>4, <3>1, Known
        <3>4. \/ Clean(a)'
              \/ /\ row'[a].status = "STAGED" /\ row'[a].ver = cap'[a][a].ver
                 /\ store'[a].ver = cap'[a][a].ver /\ cap'[a][a].ver # 0
                 /\ cap'[a][a].owned \/ store'[a].retried
            <4>1. CASE o = 0
                BY <1>2, <1>3, <2>4, <2>6, <4>1, Known DEF Clean
            <4>2. CASE o = a
                BY <1>2, <1>3, <2>2, <2>3, <2>4, <2>6, <4>2, SMT
            <4> QED
                BY <1>3, <4>1, <4>2
        <3> QED
            BY <1>2, <2>5, <3>1, <3>2, <3>3, <3>4, Known, SMT DEF AttemptOK, Bound, Misled, Spared
    <2>9. \A b \in Attempts \ {a} : row'[b] = row[b]
        BY <1>3, <2>6, Known
    <2> QED
        BY <1>2, <2>1, <2>4, <2>5, <2>7, <2>8, <2>9, PublisherStep
<1> QED
    BY <1>4, <1>5

\* A registration that fails, or whose answer is lost.
LEMMA RegisterFailsStep ==
    ASSUME IInv, NEW a \in Attempts, RegisterFails(a) PROVE IInv'
<1>1. PICK o : o = Uploaded(a)
    OBVIOUS
<1>2. /\ UNCHANGED <<provider, run, att, store, version, cap, plan, tries>> /\ pc[a] = "register"
      /\ Raise(a, "retry") /\ faults' = faults + 1
      /\ row' = row \/ row' = [row EXCEPT ![o] = Registered(a, o)]
    BY <1>1 DEF RegisterFails, Fault
<1>3. o \in {0, a} /\ o \in Objects /\ Registered(a, o) \in Registration /\ Registered(a, o).ver # 0
    BY <1>1, <1>2, RegisteredFacts
<1>4. /\ row' \in [Objects -> Registration]
      /\ \A q \in Objects \ {o} : row'[q] = row[q]
      /\ row'[o] = row[o] \/ row'[o].ver # 0
    BY <1>2, <1>3, Known, SMT DEF TypeOK
<1>5. /\ pc' \in [Attempts -> PublisherPc] /\ err' \in [Attempts -> {"none", "retry", "conflict"}]
      /\ conn' \in [Attempts -> {"none", "held", "lost", "pending"}]
      /\ pc'[a] = "scan" /\ conn'[a] = "none"
      /\ \A b \in Attempts \ {a} : pc'[b] = pc[b] /\ conn'[b] = conn[b]
    BY <1>2, RaiseFacts
<1>6. TypeOK' /\ RowsOK'
    <2>1. TypeOK'
        BY <1>2, <1>4, <1>5, Known, SMT DEF TypeOK
    <2>2. RowsOK'
        BY <1>2, <1>3, <1>4, Known DEF RowsOK
    <2> QED
        BY <2>1, <2>2
<1>7. AttemptOK(a)'
    BY <1>2, <1>5, RaisedOK
<1>8. \A b \in Attempts \ {a} : row'[b] = row[b]
    BY <1>3, <1>4, Known
<1> QED
    BY <1>2, <1>5, <1>6, <1>7, <1>8, PublisherStep

\* Promotion and quarantine.
LEMMA VerifyStep ==
    ASSUME IInv, NEW a \in Attempts, Verify(a) PROVE IInv'
<1>1. PICK o : o = Uploaded(a)
    OBVIOUS
<1>2. PICK good \in BOOLEAN : good <=> (store[o].ver # 0 /\ store[o].good)
    OBVIOUS
<1>3. PICK to \in {"AVAILABLE", "QUARANTINED"} : to = IF good THEN "AVAILABLE" ELSE "QUARANTINED"
    OBVIOUS
<1>4. PICK ok \in BOOLEAN :
        ok <=> (Live(a) /\ row[o].status \in (IF good THEN {"STAGED"} ELSE {"STAGED", "AVAILABLE"}) \cup {to})
    OBVIOUS
<1>5. /\ UNCHANGED <<provider, run, att, store, version, journal, faults>> /\ pc[a] = "verify"
      /\ row' = IF ok THEN [row EXCEPT ![o] = [row[o] EXCEPT !.status = to]] ELSE row
      /\ IF ok /\ good
         THEN Goto(a, IF o = a THEN "finish" ELSE "put") /\ UNCHANGED <<err, conn>>
         ELSE \E why \in {"retry", "conflict"} : Raise(a, why)
    BY <1>1, <1>2, <1>3, <1>4 DEF Verify
<1>6. o \in {0, a} /\ o \in Objects /\ (o = 0 <=> cap[a][a].ver = 0)
    BY <1>1, Known DEF Uploaded
<1>7. /\ row' \in [Objects -> Registration]
      /\ \A q \in Objects \ {o} : row'[q] = row[q]
      /\ row'[o].ver = row[o].ver
      /\ ok => row'[o].status = to
      /\ row'[o].status = row[o].status \/ row[o].status # "NONE"
    <2>1. PICK r \in Registration : r = row[o]
        BY <1>6, Known DEF TypeOK
    <2>2. [r EXCEPT !.status = to] \in Registration /\ [r EXCEPT !.status = to].ver = r.ver
          /\ [r EXCEPT !.status = to].status = to
        BY DEF Registration
    <2>3. ok => row[o].status # "NONE"
        BY <1>3, <1>4
    <2> QED
        BY <1>5, <1>6, <2>1, <2>2, <2>3, Known DEF TypeOK
<1>8. RowsOK' /\ \A b \in Attempts \ {a} : row'[b] = row[b]
    BY <1>6, <1>7, Known DEF RowsOK
<1>9. CASE ok /\ good
    <2>1. /\ pc' \in [Attempts -> PublisherPc] /\ pc'[a] = (IF o = a THEN "finish" ELSE "put")
          /\ \A b \in Attempts \ {a} : pc'[b] = pc[b]
        BY <1>5, <1>9, GotoFacts DEF PublisherPc
    <2>2. TypeOK'
        BY <1>5, <1>7, <1>9, <2>1, Known DEF TypeOK, journal
    <2>3. ~Bound(a) /\ att[a].status # "NONE"
        BY <1>5, Known DEF AttemptOK, Bound, AfterCommit, Misled, Spared
    <2>4. ~Bound(a)' /\ plan'[a] = plan[a]
        BY <1>5, <1>9, <2>3 DEF Bound, journal
    <2>5. o = a => Kept(a)'
        BY <1>2, <1>3, <1>5, <1>6, <1>7, <1>9, Known, SMT DEF AttemptOK, Clean, Kept, journal
    <2>6. o # a => Clean(a)'
        BY <1>5, <1>6, <1>7, Known DEF AttemptOK, Clean, journal
    <2>7. AttemptOK(a)'
        BY <1>5, <2>1, <2>3, <2>4, <2>5, <2>6, Known, SMT DEF AttemptOK, Bound, Misled, Spared
    <2> QED
        BY <1>5, <1>8, <1>9, <2>1, <2>2, <2>7, PublisherStep DEF journal
<1>10. CASE ~(ok /\ good)
    <2>1. /\ pc' \in [Attempts -> PublisherPc] /\ err' \in [Attempts -> {"none", "retry", "conflict"}]
          /\ conn' \in [Attempts -> {"none", "held", "lost", "pending"}]
          /\ pc'[a] = "scan" /\ conn'[a] = "none"
          /\ \A b \in Attempts \ {a} : pc'[b] = pc[b] /\ conn'[b] = conn[b]
        BY <1>5, <1>10, RaiseFacts
    <2>2. TypeOK'
        BY <1>5, <1>7, <2>1, Known DEF TypeOK, journal
    <2>3. AttemptOK(a)'
        BY <1>5, <2>1, RaisedOK DEF journal
    <2> QED
        BY <1>5, <1>8, <2>1, <2>2, <2>3, PublisherStep DEF journal
<1> QED
    BY <1>9, <1>10

\* The commit of an attempt whose part is kept: it becomes the official result.
LEMMA CompletedStep ==
    ASSUME IInv, NEW a \in Attempts, Completed(a), Kept(a),
           att[a].status = "RUNNING", run.status = "RUNNING",
           UNCHANGED <<provider, objects, journal, err, faults>>,
           conn' = [conn EXCEPT ![a] = "none"],
           \A b \in Attempts \ {a} : conn[b] # "pending",
           pc' \in [Attempts -> PublisherPc], \A b \in Attempts \ {a} : pc'[b] = pc[b],
           pc'[a] \in AfterCommit \cup {"done"} \/ (pc'[a] = "raised" /\ store[a].retried),
           pc'[a] = "sweep" => Spared(a)
    PROVE  IInv'
<1>a. /\ TypeOK /\ RunOK /\ RowsOK /\ AttemptOK(a)
      /\ a \in Objects /\ 0 \in Objects /\ a # 0 /\ Artifacts(a) = {0, a}
    BY Known
<1>1. /\ att'[a].status = "SUCCEEDED" /\ \A b \in Attempts \ {a} : att'[b] = att[b]
      /\ att' \in [Attempts -> AttemptRow]
    BY Known DEF Completed, TypeOK
<1>2. /\ run'.status = "COMPLETED" /\ run'.official = a /\ run.official = 0
      /\ run' \in [status : {"QUEUED", "RUNNING"} \cup Terminal, cancel : BOOLEAN, official : Objects]
    BY Known DEF Completed, TypeOK, RunOK, Terminal
<1>3. /\ conn' \in [Attempts -> {"none", "held", "lost", "pending"}] /\ conn'[a] = "none"
      /\ \A b \in Attempts \ {a} : conn'[b] = conn[b]
    BY Known DEF TypeOK
<1>4. TypeOK' /\ RowsOK'
    BY <1>1, <1>2, <1>3, Known DEF TypeOK, RowsOK, objects, journal
<1>5. RunOK'
    <2>1. \A b \in Attempts : att'[b].status # "RUNNING"
        <3> SUFFICES ASSUME NEW b \in Attempts, b # a, att[b].status = "RUNNING" PROVE FALSE
            BY <1>1
        <3>1. Newest(a) /\ Newest(b)
            BY Known DEF RunOK
        <3> QED
            BY <3>1, Known, SMT DEF Newest, Attempts
    <2>2. \A b \in Attempts : att'[b].status # "NONE" <=> att[b].status # "NONE"
        BY <1>1
    <2> QED
        BY <1>2, <2>1, <2>2, Known DEF RunOK
<1>6. AttemptOK(a)'
    <2>1. Kept(a)'
        BY DEF Kept, objects, journal
    <2> QED
        BY <1>1, <1>2, <1>3, <2>1, <1>a DEF AttemptOK, Bound, AfterCommit, objects, journal, Misled, Spared
<1> QED
    <2>1. /\ run'.official = run.official \/ (run.official = 0 /\ run'.official = a)
          /\ run.status = "CANCELLED" => run'.status = "CANCELLED"
        BY <1>2
    <2>2. \A b \in Attempts \ {a} :
              /\ pc'[b] = pc[b] /\ conn'[b] = conn[b] /\ cap'[b] = cap[b] /\ plan'[b] = plan[b]
              /\ store'[b] = store[b] /\ row'[b] = row[b]
              /\ conn[b] = "pending" => att'[b].status = "RUNNING"
              /\ att'[b].status = "NONE" => att[b].status = "NONE"
        BY <1>1, <1>3 DEF objects, journal
    <2> QED
        BY <1>4, <1>5, <1>6, <2>1, <2>2, StepOf

\* A publisher moves on and changes nothing else but its error and its connection.
LEMMA MoveStep ==
    ASSUME IInv, NEW a \in Attempts, UNCHANGED <<provider, run, att, objects, journal>>,
           faults' = faults \/ faults' = faults + 1,
           pc' \in [Attempts -> PublisherPc], err' \in [Attempts -> {"none", "retry", "conflict"}],
           conn' \in [Attempts -> {"none", "held", "lost", "pending"}],
           \A b \in Attempts \ {a} : pc'[b] = pc[b] /\ conn'[b] = conn[b],
           AttemptOK(a)'
    PROVE  IInv'
<1>1. faults' \in Nat
    BY Known, SMT DEF TypeOK
<1>2. TypeOK' /\ RowsOK'
    BY <1>1, Known DEF TypeOK, RowsOK, objects, journal
<1> QED
    BY <1>2, PublisherStep DEF objects, journal

\* The last transaction commits, or the connection or the fence fails it.
LEMMA FinishStep ==
    ASSUME IInv, NEW a \in Attempts, Finish(a) PROVE IInv'
<1>1. UNCHANGED <<provider, objects, journal, faults>> /\ pc[a] = "finish" /\ Kept(a)
      /\ ~Bound(a) /\ att[a].status # "NONE"
    BY Known DEF Finish, AttemptOK, Bound, AfterCommit, Misled, Spared
<1>2. CASE conn[a] = "held" /\ CanComplete(a)
    <2>1. Completed(a) /\ Goto(a, "done") /\ conn' = [conn EXCEPT ![a] = "none"] /\ err' = err
        BY <1>2 DEF Finish
    <2>2. /\ pc' \in [Attempts -> PublisherPc] /\ pc'[a] = "done"
          /\ \A b \in Attempts \ {a} : pc'[b] = pc[b]
        BY <2>1, GotoFacts DEF PublisherPc
    <2>3. att[a].status = "RUNNING" /\ run.status = "RUNNING"
        BY <1>2 DEF CanComplete, Live
    <2>4. \A b \in Attempts \ {a} : conn[b] # "pending"
        <3> SUFFICES ASSUME NEW b \in Attempts, b # a, conn[b] = "pending" PROVE FALSE
            OBVIOUS
        <3>1. Newest(a) /\ Newest(b)
            BY <2>3, Known DEF RunOK, AttemptOK
        <3> QED
            BY <3>1, Known, SMT DEF Newest, Attempts
    <2> QED
        BY <1>1, <2>1, <2>2, <2>3, <2>4, CompletedStep DEF AfterCommit
<1>3. CASE ~(conn[a] = "held" /\ CanComplete(a))
    <2>1. UNCHANGED <<run, att>> /\ \E why \in {"retry", "conflict"} : Raise(a, why)
        BY <1>3 DEF Finish
    <2>2. /\ pc' \in [Attempts -> PublisherPc] /\ err' \in [Attempts -> {"none", "retry", "conflict"}]
          /\ conn' \in [Attempts -> {"none", "held", "lost", "pending"}]
          /\ pc'[a] = "check" /\ conn'[a] = "none"
          /\ \A b \in Attempts \ {a} : pc'[b] = pc[b] /\ conn'[b] = conn[b]
        BY <1>1, <2>1, RaiseFacts
    <2>3. Kept(a)' /\ ~Bound(a)'
        BY <1>1, <2>1, <2>2 DEF Kept, Bound, objects, journal
    <2>4. AttemptOK(a)'
        BY <1>1, <2>1, <2>2, <2>3, Known, SMT DEF AttemptOK, Bound, journal, Misled, Spared
    <2> QED
        BY <1>1, <2>1, <2>2, <2>4, MoveStep
<1> QED
    BY <1>2, <1>3

\* A commit whose answer is lost: the attempt is open and the newest while it is pending.
LEMMA CommitUnknownStep ==
    ASSUME IInv, NEW a \in Attempts, CommitUnknown(a) PROVE IInv'
<1>1. /\ UNCHANGED <<provider, run, att, objects, journal>> /\ pc[a] = "finish" /\ Kept(a)
      /\ run.official # a /\ att[a].status = "RUNNING" /\ faults' = faults + 1
    BY Known DEF CommitUnknown, AttemptOK, AfterCommit, CanComplete, Live, Fault, Misled, Spared
<1>2. /\ pc' \in [Attempts -> PublisherPc] /\ pc'[a] = "check"
      /\ \A b \in Attempts \ {a} : pc'[b] = pc[b]
    BY GotoFacts DEF CommitUnknown, PublisherPc
<1>3. /\ conn' \in [Attempts -> {"none", "held", "lost", "pending"}]
      /\ err' \in [Attempts -> {"none", "retry", "conflict"}]
      /\ \A b \in Attempts \ {a} : conn'[b] = conn[b]
    BY Known DEF CommitUnknown, TypeOK
<1>4. Kept(a)'
    BY <1>1 DEF Kept, objects, journal
<1>5. AttemptOK(a)'
    BY <1>1, <1>2, <1>4, Known DEF AttemptOK, AfterCommit, journal
<1> QED
    BY <1>1, <1>2, <1>3, <1>5, MoveStep

\* The server finishes a pending commit, or drops it.
LEMMA CommitResolvesStep ==
    ASSUME IInv, NEW a \in Attempts, CommitResolves(a) PROVE IInv'
<1>a. /\ TypeOK /\ RunOK /\ RowsOK /\ AttemptOK(a)
      /\ a \in Objects /\ 0 \in Objects /\ a # 0 /\ Artifacts(a) = {0, a}
    BY Known
<1>1. /\ UNCHANGED <<provider, objects, journal, pc, err, faults>> /\ conn[a] = "pending"
      /\ conn' = [conn EXCEPT ![a] = "none"] /\ (Completed(a) \/ UNCHANGED <<run, att>>)
    BY DEF CommitResolves
<1>2. /\ att[a].status = "RUNNING" /\ run.status = "RUNNING" /\ Kept(a)
      /\ pc[a] \in AfterCommit \/ (pc[a] = "raised" /\ store[a].retried)
      /\ pc[a] = "sweep" => Spared(a)
    BY <1>1, Known DEF AttemptOK, RunOK, Bound, Misled
<1>3. pc' \in [Attempts -> PublisherPc] /\ err' \in [Attempts -> {"none", "retry", "conflict"}]
      /\ conn' \in [Attempts -> {"none", "held", "lost", "pending"}] /\ conn'[a] = "none"
      /\ \A b \in Attempts \ {a} : pc'[b] = pc[b] /\ conn'[b] = conn[b]
    BY <1>1, Known DEF TypeOK
<1>4. CASE Completed(a)
    <2>1. \A b \in Attempts \ {a} : conn[b] # "pending"
        <3> SUFFICES ASSUME NEW b \in Attempts, b # a, conn[b] = "pending" PROVE FALSE
            OBVIOUS
        <3>1. Newest(a) /\ Newest(b)
            BY <1>2, Known DEF RunOK, AttemptOK
        <3> QED
            BY <3>1, Known, SMT DEF Newest, Attempts
    <2> QED
        BY <1>1, <1>2, <1>3, <1>4, <2>1, CompletedStep
<1>5. CASE UNCHANGED <<run, att>>
    <2>1. Kept(a)'
        BY <1>1, <1>2 DEF Kept, objects, journal
    <2>2. AttemptOK(a)'
        BY <1>1, <1>2, <1>3, <1>5, <2>1, <1>a DEF AttemptOK, Bound, AfterCommit, objects, journal, Misled, Spared
    <2> QED
        BY <1>1, <1>3, <1>5, <2>2, MoveStep
<1> QED
    BY <1>1, <1>4, <1>5

\* Whether the publication is complete after all, if that can be found out.
LEMMA CheckStep ==
    ASSUME IInv, NEW a \in Attempts, Check(a) \/ CheckFails(a) PROVE IInv'
<1>a. /\ TypeOK /\ RunOK /\ RowsOK /\ AttemptOK(a)
      /\ a \in Objects /\ 0 \in Objects /\ a # 0 /\ Artifacts(a) = {0, a}
    BY Known
<1>1. /\ UNCHANGED <<provider, run, att, objects, journal, conn>> /\ pc[a] = "check" /\ Kept(a)
      /\ att[a].status # "NONE" /\ (faults' = faults \/ faults' = faults + 1)
      /\ err' \in [Attempts -> {"none", "retry", "conflict"}]
    BY <1>a DEF Check, CheckFails, AttemptOK, Fault, TypeOK
<1>2. \E p \in {"done", "scan", "unclean"} :
        Goto(a, p) /\ (p = "done" <=> pc'[a] = "done" /\ run.official = a)
    <2>1. CASE Check(a)
        BY <2>1, Known DEF Check, Goto, TypeOK
    <2>2. CASE CheckFails(a)
        BY <2>2, Known DEF CheckFails, Goto, TypeOK
    <2> QED
        BY <2>1, <2>2
<1>3. /\ pc' \in [Attempts -> PublisherPc] /\ pc'[a] \in {"done", "scan", "unclean"}
      /\ pc'[a] = "done" => run.official = a
      /\ \A b \in Attempts \ {a} : pc'[b] = pc[b]
    BY <1>2, GotoFacts DEF PublisherPc
<1>3a. pc'[a] = "done" => conn[a] # "pending"
    <2>1. run.official = a => run.status = "COMPLETED"
        BY Known DEF RunOK
    <2>2. conn[a] = "pending" => run.status = "RUNNING"
        BY Known DEF RunOK, AttemptOK
    <2> QED
        BY <1>3, <2>1, <2>2
<1>4. Kept(a)'
    BY <1>1 DEF Kept, objects, journal
<1>5. AttemptOK(a)'
    BY <1>1, <1>3, <1>3a, <1>4, Known DEF AttemptOK, Bound, AfterCommit, journal
<1> QED
    BY <1>1, <1>3, <1>5, MoveStep, Known DEF TypeOK
---------------------------------------------------------------------------
(* Compensation.                                                           *)

\* The plan names the artifacts of the attempt only; a part that is bound is to be asked for
\* at the gate, or kept.
LEMMA ScanStep ==
    ASSUME IInv, NEW a \in Attempts, Scan(a) PROVE IInv'
<1>a. /\ TypeOK /\ RunOK /\ RowsOK /\ AttemptOK(a)
      /\ a \in Objects /\ 0 \in Objects /\ a # 0 /\ Artifacts(a) = {0, a}
    BY Known
<1> DEFINE p == [o \in Objects |-> IF o \in Artifacts(a) THEN Planned(a, o) ELSE Nothing]
<1>1. /\ UNCHANGED <<provider, run, att, objects, err, conn, cap, tries, faults>> /\ pc[a] = "scan"
      /\ plan' = [plan EXCEPT ![a] = p] /\ Goto(a, "sweep")
    BY DEF Scan
<1>2. \A o \in Objects : Planned(a, o) \in Todo
    <2> SUFFICES ASSUME NEW o \in Objects PROVE Planned(a, o) \in Todo
        OBVIOUS
    <2>1. cap[a][o].ver \in Nat /\ row[o].ver \in Nat
        BY Known, SMT DEF TypeOK, Capture, Registration
    <2> QED
        BY <2>1 DEF Planned, Todo
<1>3. p \in [Objects -> Todo] /\ \A o \in Objects \ Artifacts(a) : p[o].what = "skip"
    BY <1>2 DEF Nothing, Todo
<1>4. Kept(a) => p[a].what = "batch" \/ (p[a].what = "keep" /\ store[a].retried)
    BY Known DEF Kept, Planned
<1> HIDE DEF p
<1>5. /\ plan' \in [Attempts -> [Objects -> Todo]] /\ plan'[a] = p
      /\ \A b \in Attempts \ {a} : plan'[b] = plan[b]
    BY <1>1, <1>3, Known DEF TypeOK
<1>6. /\ pc' \in [Attempts -> PublisherPc] /\ pc'[a] = "sweep"
      /\ \A b \in Attempts \ {a} : pc'[b] = pc[b]
    BY <1>1, GotoFacts DEF PublisherPc
<1>7. TypeOK' /\ RowsOK'
    BY <1>1, <1>5, <1>6, Known DEF TypeOK, RowsOK, objects
<1>8. AttemptOK(a)'
    <2>1. (Bound(a) <=> Bound(a)') /\ (Kept(a) <=> Kept(a)')
        BY <1>1 DEF Bound, Kept, objects
    <2> QED
        <3>1. Bound(a) => Spared(a)'
            BY <1>1, <1>4, <1>5, <1>a DEF AttemptOK, Spared, objects
        <3> QED
            BY <1>1, <1>3, <1>5, <1>6, <2>1, <3>1, <1>a DEF AttemptOK, Bound, AfterCommit
<1> QED
    BY <1>1, <1>5, <1>6, <1>7, <1>8, PublisherStep DEF objects

\* Cleanup is refused.
LEMMA SweepRefusedStep ==
    ASSUME IInv, NEW a \in Attempts, SweepRefused(a) PROVE IInv'
<1>a. /\ TypeOK /\ RunOK /\ RowsOK /\ AttemptOK(a)
      /\ a \in Objects /\ 0 \in Objects /\ a # 0 /\ Artifacts(a) = {0, a}
    BY Known
<1>1. /\ UNCHANGED <<provider, run, att, objects, conn, journal, faults>> /\ pc[a] = "sweep"
      /\ Goto(a, "unclean") /\ err' \in [Attempts -> {"none", "retry", "conflict"}]
    BY Known DEF SweepRefused, TypeOK
<1>2. /\ pc' \in [Attempts -> PublisherPc] /\ pc'[a] = "unclean"
      /\ \A b \in Attempts \ {a} : pc'[b] = pc[b]
    BY <1>1, GotoFacts DEF PublisherPc
<1>3. AttemptOK(a)'
    BY <1>1, <1>2, <1>a DEF AttemptOK, Bound, Kept, AfterCommit, objects, journal, Misled, Spared
<1> QED
    BY <1>1, <1>2, <1>3, MoveStep, Known DEF TypeOK

\* What is not erased stays.
LEMMA ErasedFacts ==
    ASSUME TypeOK, NEW a \in Attempts, NEW gone
    PROVE  /\ Erased(a, gone) \in [Objects -> Version]
           /\ \A b \in Objects : b \notin gone => Erased(a, gone)[b] = store[b]
<1>1. NoBytes \in Version
    BY DEF NoBytes, Version
<1> QED
    BY <1>1 DEF Erased, TypeOK

\* Cleanup that goes ahead leaves a part that is bound alone, which only a part that a retry
\* reconciled still is, and erases nothing that belongs to another attempt.
LEMMA SweepFacts ==
    ASSUME IInv, NEW a \in Attempts, pc[a] = "sweep", ~Refused(a)
    PROVE  /\ Bound(a) => store[a].retried /\ a \notin ToDo(a, "batch") \cup ToDo(a, "direct")
           /\ att[a].status # "NONE"
           /\ \A b \in Attempts \ {a} : b \notin ToDo(a, "batch") \cup ToDo(a, "direct")
<1>1. /\ Bound(a) => store[a].retried /\ a \notin ToDo(a, "batch") \cup ToDo(a, "direct")
      /\ att[a].status # "NONE"
    <2>1. Bound(a) => \/ a \in ToDo(a, "batch")
                      \/ store[a].retried /\ a \notin ToDo(a, "batch") \cup ToDo(a, "direct")
        BY Known DEF AttemptOK, ToDo, Spared
    <2>2. a \in ToDo(a, "batch") => Free /\ a \notin Referenced
        BY DEF Refused, Gate
    <2>3. Free => conn[a] # "pending"
        BY DEF Free
    <2>4. run.official = a => a \in Referenced
        BY Known DEF Referenced
    <2> QED
        BY <2>1, <2>2, <2>3, <2>4, Known DEF Bound, AttemptOK
<1>2. \A b \in Attempts \ {a} : b \notin ToDo(a, "batch") \cup ToDo(a, "direct")
    <2> SUFFICES ASSUME NEW b \in Attempts, b # a PROVE plan[a][b].what = "skip"
        BY DEF ToDo
    <2>1. b \in Objects \ Artifacts(a)
        BY Known
    <2> QED
        BY <2>1, Known DEF AttemptOK
<1> QED
    BY <1>1, <1>2

\* Cleanup succeeds.
LEMMA SweepStep ==
    ASSUME IInv, NEW a \in Attempts, Sweep(a) PROVE IInv'
<1>a. /\ TypeOK /\ RunOK /\ RowsOK /\ AttemptOK(a)
      /\ a \in Objects /\ 0 \in Objects /\ a # 0 /\ Artifacts(a) = {0, a}
    BY Known
<1>1. /\ UNCHANGED <<provider, run, att, version, conn, journal, faults>> /\ pc[a] = "sweep"
      /\ row' = [o \in Objects |-> IF o \in ToDo(a, "batch") THEN NoRow ELSE row[o]]
      /\ store' = Erased(a, ToDo(a, "batch") \cup ToDo(a, "direct"))
      /\ ~Refused(a) /\ err' \in [Attempts -> {"none", "retry", "conflict"}]
    BY Known DEF Sweep, TypeOK
<1>2. /\ Bound(a) => store[a].retried /\ store'[a] = store[a] /\ a \notin ToDo(a, "batch")
      /\ att[a].status # "NONE"
      /\ store' \in [Objects -> Version]
      /\ \A b \in Attempts \ {a} : store'[b] = store[b] /\ b \notin ToDo(a, "batch")
    <2>1. PICK gone : gone = ToDo(a, "batch") \cup ToDo(a, "direct")
        OBVIOUS
    <2>2. store' = Erased(a, gone)
        BY <1>1, <2>1
    <2>3. /\ Bound(a) => store[a].retried /\ a \notin gone
          /\ att[a].status # "NONE"
          /\ \A b \in Attempts \ {a} : b \notin gone
        BY <1>1, <2>1, SweepFacts
    <2>4. store' \in [Objects -> Version] /\ \A b \in Objects : b \notin gone => store'[b] = store[b]
        BY <1>a, <2>2, ErasedFacts
    <2>5. \A b \in Attempts : b \in Objects
        BY Known
    <2> QED
        BY <2>1, <2>3, <2>4, <2>5
<1>3. /\ row' \in [Objects -> Registration]
      /\ \A o \in Objects : row'[o] = NoRow \/ row'[o] = row[o]
      /\ \A b \in Attempts \ {a} : row'[b] = row[b]
      /\ Bound(a) => row'[a] = row[a]
    <2>1. NoRow \in Registration
        BY Known DEF NoRow, Registration
    <2> QED
        BY <1>1, <1>2, <2>1, Known DEF TypeOK
<1>4. /\ pc' \in [Attempts -> PublisherPc] /\ pc'[a] \in {"unclean", "raised"}
      /\ \A b \in Attempts \ {a} : pc'[b] = pc[b]
    <2>1. Goto(a, "unclean") \/ Goto(a, "raised")
        BY DEF Sweep
    <2> QED
        BY <2>1, GotoFacts DEF PublisherPc
<1>5. TypeOK'
    BY <1>1, <1>2, <1>3, <1>4, Known DEF TypeOK, journal
<1>6. RowsOK'
    BY <1>3, <1>a, SMT DEF RowsOK, NoRow
<1>7. Bound(a)' => Kept(a)' /\ store'[a].retried /\ Bound(a)
    BY <1>1, <1>2, <1>3, <1>a DEF AttemptOK, Bound, Kept, journal
<1>8. AttemptOK(a)'
    <2>1. Bound(a)' => pc'[a] \in AfterCommit \/ Misled(a)'
        BY <1>4, <1>7 DEF AfterCommit, Misled
    <2> QED
        BY <1>1, <1>2, <1>4, <1>7, <2>1, <1>a DEF AttemptOK, Bound, journal
<1> QED
    BY <1>1, <1>2, <1>3, <1>4, <1>5, <1>6, <1>8, PublisherStep DEF journal

\* Cleanup fails part of the way.
LEMMA SweepFailsStep ==
    ASSUME IInv, NEW a \in Attempts, SweepFails(a) PROVE IInv'
<1>a. /\ TypeOK /\ RunOK /\ RowsOK /\ AttemptOK(a)
      /\ a \in Objects /\ 0 \in Objects /\ a # 0 /\ Artifacts(a) = {0, a}
    BY Known
<1>1. /\ UNCHANGED <<provider, run, att, row, version, conn, cap, plan>> /\ pc[a] = "sweep"
      /\ ~Refused(a) /\ err' \in [Attempts -> {"none", "retry", "conflict"}]
      /\ faults' = faults + 1
    BY Known DEF SweepFails, TypeOK, Fault
<1>2. /\ Bound(a) => store'[a] = store[a]
      /\ att[a].status # "NONE"
      /\ store' \in [Objects -> Version]
      /\ \A b \in Attempts \ {a} : store'[b] = store[b]
    <2>1. PICK gone \in SUBSET (ToDo(a, "batch") \cup ToDo(a, "direct")) : store' = Erased(a, gone)
        BY DEF SweepFails
    <2>2. /\ Bound(a) => a \notin gone
          /\ att[a].status # "NONE"
          /\ \A b \in Attempts \ {a} : b \notin gone
        BY <1>1, <2>1, SweepFacts
    <2>3. store' \in [Objects -> Version] /\ \A b \in Objects : b \notin gone => store'[b] = store[b]
        BY <1>a, <2>1, ErasedFacts
    <2>4. \A b \in Attempts : b \in Objects
        BY Known
    <2> QED
        BY <2>2, <2>3, <2>4
<1>3. tries' \in [Attempts -> Nat]
    <2>1. PICK n \in Nat : n = tries[a]
        BY Known DEF TypeOK
    <2>2. tries' = [tries EXCEPT ![a] = n + 1]
        BY <2>1 DEF SweepFails
    <2> QED
        BY <2>2, Known, SMT DEF TypeOK
<1>4. /\ pc' \in [Attempts -> PublisherPc] /\ pc'[a] \in {"unclean", "scan"}
      /\ \A b \in Attempts \ {a} : pc'[b] = pc[b]
    <2>1. Goto(a, "unclean") \/ Goto(a, "scan")
        BY DEF SweepFails
    <2> QED
        BY <2>1, GotoFacts DEF PublisherPc
<1>5. TypeOK' /\ RowsOK'
    BY <1>1, <1>2, <1>3, <1>4, <1>a, SMT DEF TypeOK, RowsOK
<1>6. AttemptOK(a)'
    <2>1. Bound(a)' => Kept(a)' /\ Bound(a)
        BY <1>1, <1>2, <1>a DEF AttemptOK, Bound, Kept
    <2> QED
        BY <1>1, <1>2, <1>4, <2>1, <1>a DEF AttemptOK, Bound, AfterCommit
<1> QED
    BY <1>1, <1>2, <1>4, <1>5, <1>6, PublisherStep
---------------------------------------------------------------------------
(* The theorems.                                                           *)

\* Every step preserves the invariant.
LEMMA NextStep ==
    ASSUME IInv, [Next]_vars PROVE IInv'
<1>1. CASE RequestCancellation
    BY <1>1, OwnerStep
<1>2. ASSUME NEW a \in Attempts,
             \/ Claim(a) \/ Expire(a) \/ Recover(a) \/ Close(a)
             \/ Crash(a) \/ LoseConnection(a) \/ CommitResolves(a)
      PROVE  IInv'
    BY <1>2, ClaimStep, FaultStep, CloseStep, CommitResolvesStep
<1>3. ASSUME NEW a \in Attempts, Publisher(a) PROVE IInv'
    BY <1>3, LockStep, LockCancelledStep, PutStep, PutFailsStep, PutRetriedStep, RegisterStep,
       RegisterFailsStep, VerifyStep, FinishStep, CommitUnknownStep, CheckStep, ScanStep, SweepStep,
       SweepRefusedStep, SweepFailsStep DEF Publisher
<1>4. CASE UNCHANGED vars
    <2>1. TypeOK' /\ RowsOK'
        BY <1>4 DEF vars, IInv, TypeOK, RowsOK
    <2>2. RunOK'
        BY <1>4 DEF vars, IInv, RunOK, Newest, Claimed
    <2>3. ASSUME NEW b \in Attempts PROVE AttemptOK(b)'
        <3>1. AttemptOK(b) /\ (conn[b] = "pending" => att[b].status = "RUNNING")
            BY Known DEF AttemptOK
        <3> QED
            BY <1>4, <3>1, OthersStay DEF vars
    <2> QED
        BY <2>1, <2>2, <2>3 DEF IInv
<1> QED
    BY <1>1, <1>2, <1>3, <1>4 DEF Next

\* Nothing is stored, registered or claimed at first.
LEMMA InitOK == Init => IInv
<1> SUFFICES ASSUME Init PROVE IInv
    OBVIOUS
<1>1. 0 \in Objects /\ \A a \in Attempts : a \in Objects /\ a # 0
    BY PublicationAssumption, SMT DEF Attempts, Objects
<1>2. TypeOK
    BY <1>1 DEF Init, TypeOK, NoBytes, NoRow, NotSeen, Nothing, Version, Registration, Capture, Todo,
       PublisherPc
<1>3. RunOK /\ RowsOK
    BY <1>1 DEF Init, RunOK, RowsOK, NoRow
<1>4. ASSUME NEW a \in Attempts PROVE AttemptOK(a)
    BY <1>1, <1>4 DEF Init, AttemptOK, Clean, Bound, NoBytes, NoRow, NotSeen, Nothing, Misled, Spared
<1> QED
    BY <1>2, <1>3, <1>4 DEF IInv

\* The invariant holds throughout.
THEOREM Invariance == Spec => []IInv
BY InitOK, NextStep, PTL DEF Spec

\* The run, the attempts, the objects and the publishers have their types.
THEOREM TypeCorrect == Spec => []TypeOK
<1>1. IInv => TypeOK
    BY DEF IInv
<1> QED
    BY <1>1, Invariance, PTL

\* The detail parts of a COMPLETED run are in the store, in the version their AVAILABLE row
\* names, whatever crashes, lost acknowledgements and cleanups there are.
THEOREM DetailsStay == Spec => []OfficialDetailsStored
<1>1. IInv => OfficialDetailsStored
    <2> SUFFICES ASSUME IInv, run.official # 0
                 PROVE  LET o == run.official IN
                        row[o].status = "AVAILABLE" /\ store[o].good
                        /\ store[o].ver = row[o].ver /\ row[o].ver # 0
        BY DEF OfficialDetailsStored
    <2>1. run.official \in Attempts
        BY PublicationAssumption, SMT DEF IInv, TypeOK, Objects, Attempts
    <2>2. PICK a \in Attempts : a = run.official
        BY <2>1
    <2>3. AttemptOK(a)
        BY DEF IInv
    <2>4. Kept(a)
        BY <2>2, <2>3 DEF AttemptOK, Bound, Misled, Spared
    <2> QED
        BY <2>2, <2>4 DEF Kept
<1> QED
    BY <1>1, Invariance, PTL

\* Success and cancellation as a publisher reports them are so, and so is failure, but for a
\* part that its own retry reconciled.
THEOREM TrueReports == Spec => []ReportsAreTrue
<1>1. IInv => ReportsAreTrue
    BY DEF IInv, AttemptOK, RunOK, ReportsAreTrue, AfterCommit, Misled, Spared
<1> QED
    BY <1>1, Invariance, PTL

\* Nothing but cleanup takes a row away.
LEMMA RowsStay ==
    ASSUME IInv, [Next]_vars, NEW o \in Objects, row[o].status # "NONE", row'[o].status = "NONE"
    PROVE  \E a \in Attempts : Sweep(a)
<1>1. row' # row
    OBVIOUS
<1>2. PICK a \in Attempts : \/ Register(a) \/ RegisterFails(a) \/ Verify(a) \/ Sweep(a)
    <2>1. ~(RequestCancellation \/ UNCHANGED vars)
        BY <1>1 DEF vars, RequestCancellation, objects
    <2>2. ASSUME NEW a \in Attempts
          PROVE  ~(\/ Claim(a) \/ Expire(a) \/ Recover(a) \/ Close(a)
                   \/ Crash(a) \/ LoseConnection(a) \/ CommitResolves(a))
        BY <1>1, SMT DEF Claim, Expire, Recover, Close, Crash, LoseConnection, CommitResolves, objects
    <2>3. ASSUME NEW a \in Attempts
          PROVE  ~(\/ Lock(a) \/ LockCancelled(a) \/ Put(a) \/ PutFails(a) \/ PutRetried(a))
        BY <1>1 DEF Lock, LockCancelled, Put, PutFails, PutRetried, objects
    <2>4. ASSUME NEW a \in Attempts
          PROVE  ~(\/ Finish(a) \/ CommitUnknown(a) \/ Check(a) \/ CheckFails(a)
                   \/ Scan(a) \/ SweepRefused(a) \/ SweepFails(a))
        BY <1>1, SMT DEF Finish, CommitUnknown, Check, CheckFails, Scan, SweepRefused, SweepFails, objects
    <2> QED
        BY <2>1, <2>2, <2>3, <2>4 DEF Next, Publisher
<1>3. ~(Register(a) \/ RegisterFails(a))
    <2> SUFFICES ASSUME Register(a) \/ RegisterFails(a) PROVE FALSE
        OBVIOUS
    <2>1. PICK q : q = Uploaded(a)
        OBVIOUS
    <2>2. row' = [row EXCEPT ![q] = Registered(a, q)]
        BY <1>1, <2>1 DEF Register, RegisterFails
    <2>3. o = q
        BY <2>2, Known DEF TypeOK
    <2>4. Registered(a, o) = [row[o] EXCEPT !.owner = IF Reissuable(a, o) THEN a ELSE @]
        BY DEF Registered
    <2> QED
        BY <2>2, <2>3, <2>4, Known, SMT DEF TypeOK, Registration
<1>4. ~Verify(a)
    <2> SUFFICES ASSUME Verify(a) PROVE FALSE
        OBVIOUS
    <2>1. PICK q : q = Uploaded(a)
        OBVIOUS
    <2>2. \E to \in {"AVAILABLE", "QUARANTINED"} : row' = [row EXCEPT ![q] = [row[q] EXCEPT !.status = to]]
        BY <1>1, <2>1 DEF Verify
    <2> QED
        BY <2>2, Known, SMT DEF TypeOK, Registration
<1> QED
    BY <1>2, <1>3, <1>4

\* Compensation deletes a row only for the newest attempt, its owner, never one that a
\* manifest refers to, and with the bytes it names.
THEOREM OwnedCompensation == Spec => CompensationOwned
<1>1. ASSUME IInv, [Next]_vars, NEW o \in Objects, row[o].status # "NONE", row'[o].status = "NONE"
      PROVE  o \notin Referenced /\ Newest(row[o].owner) /\ store'[o].ver # row[o].ver
    <2>1. PICK a \in Attempts : Sweep(a)
        BY <1>1, RowsStay
    <2>2. o \in ToDo(a, "batch")
        BY <1>1, <2>1 DEF Sweep
    <2>3. Gate(a, ToDo(a, "batch"))
        BY <2>1, <2>2 DEF Sweep, Refused
    <2>4. /\ row[o].ver = plan[a][o].ver /\ row[o].owner = a /\ Newest(a) /\ o \notin Referenced
        BY <2>2, <2>3 DEF Gate
    <2>5. row[o].ver # 0
        BY <1>1, <2>1, Known DEF RowsOK
    <2>6. store'[o] = IF Stored(a, o) THEN NoBytes ELSE store[o]
        BY <2>1, <2>2 DEF Sweep, Erased
    <2> QED
        BY <2>4, <2>5, <2>6, SMT DEF Stored, NoBytes
<1>2. IInv /\ [Next]_vars =>
        [\A o \in Objects :
            row[o].status # "NONE" /\ row'[o].status = "NONE" =>
                /\ o \notin Referenced
                /\ Newest(row[o].owner)
                /\ store'[o].ver # row[o].ver]_vars
    BY <1>1
<1> QED
    BY <1>2, Invariance, PTL DEF Spec, CompensationOwned
---------------------------------------------------------------------------
(* Uploads are accounted for.  Every attempt may upload the snapshot, so   *)
(* who answers for bytes without a row changes from step to step; the part *)
(* of an attempt is its own affair.                                        *)

\* Where a publisher is on its way to its commit.
Open == {"put", "register", "verify", "finish", "check"}

\* The snapshot in the store is the one that the publisher of attempt a created.
Made(a) == cap[a][0].created /\ cap[a][0].ver = store[0].ver

\* Attempt a neither holds the run row, nor may commit yet, nor is the official result.
Detached(a) == conn[a] \notin {"held", "pending"} /\ run.official # a

\* The publisher of attempt a will delete the snapshot in the store, will have its cleanup
\* refuse, or has stopped where somebody has to look: it has stopped uncleanly; it is about
\* to clean up, and either captured nothing or made the snapshot; its plan is to refuse, asks
\* for bytes that are not there, or is to delete these; it is about to register what it
\* made; or it made the snapshot and can no longer commit.
Handles(a) ==
    \/ pc[a] \in {"unclean", "crashed"}
    \/ pc[a] = "scan" /\ (cap[a][0].ver = 0 \/ Made(a))
    \/ /\ pc[a] = "sweep"
       /\ \/ plan[a][0].what = "refuse"
          \/ plan[a][0].what = "keep" /\ plan[a][0].ver # store[0].ver
          \/ Made(a) /\ plan[a][0].what = "direct" /\ plan[a][0].ver = store[0].ver
    \/ pc[a] = "register" /\ Uploaded(a) = 0 /\ Made(a)
    \/ pc[a] \in Open /\ Made(a) /\ Detached(a)

\* Attempt a made the snapshot and may still commit, or has: no batch gets past its lock.
Holds(a) == pc[a] \in Open \cup {"done"} /\ Made(a) /\ ~Detached(a)

\* The store has a snapshot that the row, if there is one, does not name, and it is not one that
\* a retry reconciled.
Stray == store[0].ver # 0 /\ ~store[0].retried /\ (row[0].status = "NONE" \/ row[0].ver # store[0].ver)

\* Attempt a answers for a stray snapshot.
Answers(a) == Handles(a) \/ (row[0].status # "NONE" /\ Holds(a))

\* Somebody answers for a stray snapshot.
SnapshotOK == Stray => \E a \in Attempts : Answers(a)

\* The attempt whose result is official is the newest.
OfficialOK == \A a \in Attempts : run.official = a => Newest(a)

\* The part of attempt a is in the store, no retry reconciled it, and it has no row.
Loose(a) == store[a].ver # 0 /\ ~store[a].retried /\ row[a].status = "NONE"

\* The part of attempt a, which no other attempt touches: what is captured was created, unless
\* a retry reconciled it, and is what store and row name; a part that was never captured is for the cleanup to find; a loose
\* part is of a publisher at work, or of one that has stopped uncleanly; and a plan about it
\* refuses or deletes it.
PartOK(a) ==
    /\ cap[a][a].ver # 0 =>
         /\ cap[a][a].created \/ store[a].ver = 0 \/ store[a].retried
         /\ store[a].ver \in {0, cap[a][a].ver}
    /\ store[a].retried => cap[a][a].ver # 0
    /\ row[a].status # "NONE" => cap[a][a].ver # 0 /\ row[a].ver = cap[a][a].ver
    /\ cap[a][a].ver = 0 /\ store[a].ver # 0 => pc[a] \in {"scan", "sweep", "unclean", "crashed"}
    /\ Loose(a) => pc[a] \notin {"idle", "lock", "done", "cancelled", "raised"}
    /\ pc[a] = "sweep" =>
         /\ Loose(a) => \/ plan[a][a].what = "refuse"
                        \/ plan[a][a].what = "direct" /\ plan[a][a].ver = store[a].ver
         /\ plan[a][a].what = "batch" => plan[a][a].ver = cap[a][a].ver

\* The second inductive invariant, which rests on the first.
Accounts == SnapshotOK /\ OfficialOK /\ \A a \in Attempts : PartOK(a)

\* The part of an attempt that a step does not touch stays accounted for.
LEMMA PartStays ==
    ASSUME NEW b \in Attempts, PartOK(b), pc'[b] = pc[b], cap'[b] = cap[b], plan'[b] = plan[b],
           store'[b] = store[b], row'[b] = row[b]
    PROVE  PartOK(b)'
BY DEF PartOK, Loose

\* An attempt that a step does not touch answers for the snapshot as before.
LEMMA AnswerStays ==
    ASSUME NEW b \in Attempts, Answers(b), pc'[b] = pc[b], conn'[b] = conn[b], cap'[b] = cap[b],
           plan'[b] = plan[b], store'[0] = store[0],
           run'.official = b <=> run.official = b,
           row[0].status # "NONE" => row'[0].status # "NONE"
    PROVE  Answers(b)'
BY DEF Answers, Handles, Holds, Made, Detached, Uploaded

\* A step of attempt a after which a answers for the snapshot, or nobody needs to, or that
\* keeps the snapshot and its row, and with them whoever answered.
LEMMA AccountsStep ==
    ASSUME IInv, Accounts, NEW a \in Attempts, PartOK(a)', OfficialOK',
           \A b \in Attempts \ {a} :
              /\ pc'[b] = pc[b] /\ conn'[b] = conn[b] /\ cap'[b] = cap[b] /\ plan'[b] = plan[b]
              /\ store'[b] = store[b] /\ row'[b] = row[b],
           run'.official = run.official \/ (run.official = 0 /\ run'.official = a),
           \/ Answers(a)'
           \/ ~Stray'
           \/ /\ store'[0] = store[0] /\ Stray
              /\ row[0].status # "NONE" => row'[0].status # "NONE"
              /\ Answers(a) => Answers(a)'
    PROVE  Accounts'
<1>1. ASSUME NEW b \in Attempts PROVE PartOK(b)'
    BY PartStays DEF Accounts
<1>2. SnapshotOK'
    <2>1. CASE Answers(a)' \/ ~Stray'
        BY <2>1 DEF SnapshotOK
    <2>2. CASE /\ store'[0] = store[0] /\ Stray
               /\ row[0].status # "NONE" => row'[0].status # "NONE"
               /\ Answers(a) => Answers(a)'
        <3>1. PICK b \in Attempts : Answers(b)
            BY <2>2 DEF Accounts, SnapshotOK
        <3>2. CASE b = a
            BY <2>2, <3>1, <3>2 DEF SnapshotOK
        <3>3. CASE b # a
            <4>1. b # 0
                BY Known
            <4>2. Answers(b)'
                BY <2>2, <3>1, <3>3, <4>1, AnswerStays
            <4> QED
                BY <4>2 DEF SnapshotOK
        <3> QED
            BY <3>2, <3>3
    <2> QED
        BY <2>1, <2>2
<1> QED
    BY <1>1, <1>2 DEF Accounts

\* An exception before the commit, or the check after it, takes the publisher that made the
\* snapshot to clean up.
LEMMA AnswerScans ==
    ASSUME NEW a \in Attempts, Answers(a), pc[a] \in Open, pc'[a] = "scan",
           cap'[a][0].ver = cap[a][0].ver, cap'[a][0].created = cap[a][0].created,
           store'[0] = store[0]
    PROVE  Answers(a)'
BY DEF Answers, Handles, Holds, Made, Open

\* The publisher that made the snapshot goes on with its publication.
LEMMA AnswerProceeds ==
    ASSUME NEW a \in Attempts, Answers(a), pc[a] \in Open, pc'[a] \in Open \cup {"done"},
           cap'[a][0].ver = cap[a][0].ver, cap'[a][0].created = cap[a][0].created,
           store'[0] = store[0],
           row[0].status # "NONE" => row'[0].status # "NONE",
           Detached(a) => Detached(a)', pc'[a] = "done" => ~Detached(a)',
           pc[a] = "register" /\ Uploaded(a) = 0 => row'[0].status # "NONE"
    PROVE  Answers(a)'
BY DEF Answers, Handles, Holds, Made, Open

\* Steps that touch no object, no capture, no plan and no result.
LEMMA QuietStep ==
    ASSUME IInv, Accounts, UNCHANGED <<store, row, cap, plan>>, run'.official = run.official,
           OfficialOK',
           \A b \in Attempts :
              \/ pc'[b] = pc[b] /\ conn'[b] = conn[b]
              \/ pc[b] \in {"idle", "lock"} /\ pc'[b] \in {"lock", "put", "cancelled", "raised", "unclean"}
              \/ pc'[b] \in {"unclean", "crashed"}
    PROVE  Accounts'
<1>1. ASSUME NEW b \in Attempts PROVE PartOK(b)'
    <2>0. PartOK(b) /\ AttemptOK(b)
        BY Known DEF Accounts
    <2>1. CASE pc'[b] = pc[b] /\ conn'[b] = conn[b]
        BY <2>0, <2>1, PartStays
    <2>2. CASE pc[b] \in {"idle", "lock"} /\ pc'[b] \in {"lock", "put", "cancelled", "raised", "unclean"}
        BY <2>0, <2>2 DEF PartOK, AttemptOK, Clean, Loose
    <2>3. CASE pc'[b] \in {"unclean", "crashed"}
        BY <2>0, <2>3 DEF PartOK, Loose
    <2> QED
        BY <2>1, <2>2, <2>3
<1>2. SnapshotOK'
    <2> SUFFICES ASSUME Stray' PROVE \E b \in Attempts : Answers(b)'
        BY DEF SnapshotOK
    <2>1. Stray
        BY DEF Stray
    <2>2. PICK b \in Attempts : Answers(b)
        BY <2>1 DEF Accounts, SnapshotOK
    <2>3. CASE pc'[b] = pc[b] /\ conn'[b] = conn[b]
        BY <2>2, <2>3, AnswerStays
    <2>4. CASE pc[b] \in {"idle", "lock"}
        BY <2>2, <2>4 DEF Answers, Handles, Holds, Open
    <2>5. CASE pc'[b] \in {"unclean", "crashed"}
        BY <2>5 DEF Answers, Handles
    <2> QED
        BY <2>3, <2>4, <2>5
<1> QED
    BY <1>1, <1>2 DEF Accounts

\* The official attempt stays the newest as long as no attempt is claimed.
LEMMA NewestStays ==
    ASSUME IInv, Accounts, run'.official = run.official,
           \A b \in Attempts : att'[b].status = "NONE" <=> att[b].status = "NONE"
    PROVE  OfficialOK'
BY DEF Accounts, OfficialOK, Newest, Claimed

\* Claiming an attempt, while there is no result.
LEMMA ClaimAccounts ==
    ASSUME IInv, Accounts, NEW a \in Attempts, Claim(a) PROVE Accounts'
<1>1. /\ UNCHANGED <<store, row, cap, plan, conn>> /\ Goto(a, "lock") /\ att[a].status = "NONE"
      /\ run.status \in {"QUEUED", "RUNNING"} /\ run' = [run EXCEPT !.status = "RUNNING"]
    BY DEF Claim, objects, journal
<1>2. run.official = 0 /\ run'.official = run.official
    BY <1>1, Known DEF RunOK, TypeOK
<1>3. OfficialOK'
    <2>1. \A b \in Attempts : b # 0
        BY Known
    <2> QED
        BY <1>2, <2>1 DEF OfficialOK
<1>4. pc[a] = "idle" /\ pc'[a] = "lock" /\ \A b \in Attempts \ {a} : pc'[b] = pc[b]
    BY <1>1, Known, SMT DEF AttemptOK, Goto, TypeOK
<1>5. \A b \in Attempts : conn'[b] = conn[b]
    BY <1>1
<1> QED
    BY <1>1, <1>2, <1>3, <1>4, <1>5, QuietStep

\* The end of a lease, recovery, closing and the request to cancel move no publisher.
LEMMA LeaseAccounts ==
    ASSUME IInv, Accounts, NEW a \in Attempts,
           Expire(a) \/ Recover(a) \/ Close(a) \/ RequestCancellation
    PROVE  Accounts'
<1>1. /\ UNCHANGED <<store, row, cap, plan, conn, pc>> /\ run'.official = run.official
      /\ \A b \in Attempts : att'[b].status = "NONE" <=> att[b].status = "NONE"
    <2>0. TypeOK
        BY Known
    <2>1. CASE Expire(a)
        BY <2>0, <2>1, SMT DEF Expire, objects, journal, TypeOK
    <2>2. CASE Recover(a)
        BY <2>0, <2>2 DEF Recover, objects, journal, TypeOK
    <2>3. CASE Close(a)
        BY <2>0, <2>3 DEF Close, objects, journal, TypeOK, Live
    <2>4. CASE RequestCancellation
        BY <2>0, <2>4 DEF RequestCancellation, objects, journal, TypeOK
    <2> QED
        BY <2>1, <2>2, <2>3, <2>4
<1>2. OfficialOK'
    BY <1>1, NewestStays
<1>3. \A b \in Attempts : pc'[b] = pc[b] /\ conn'[b] = conn[b]
    BY <1>1
<1> QED
    BY <1>1, <1>2, <1>3, QuietStep

\* A crash, the lock and a step that gives up on cleaning.
LEMMA StopAccounts ==
    ASSUME IInv, Accounts, NEW a \in Attempts,
           Crash(a) \/ Lock(a) \/ LockCancelled(a) \/ CheckFails(a) \/ SweepRefused(a)
    PROVE  Accounts'
<1>0. TypeOK
    BY Known
<1>1. /\ UNCHANGED <<store, row, cap, plan>> /\ run'.official = run.official
      /\ \A b \in Attempts : att'[b].status = "NONE" <=> att[b].status = "NONE"
      /\ \A b \in Attempts \ {a} : conn'[b] = conn[b]
    <2>1. CASE Crash(a)
        BY <1>0, <2>1 DEF Crash, objects, journal, TypeOK
    <2>2. CASE Lock(a)
        BY <1>0, <2>2 DEF Lock, objects, journal, TypeOK
    <2>3. CASE LockCancelled(a)
        <3>1. UNCHANGED <<store, row, cap, plan, conn>>
            BY <2>3 DEF LockCancelled, objects, journal
        <3>2. \/ UNCHANGED <<run, att>>
              \/ /\ Live(a) /\ att' = [att EXCEPT ![a] = [status |-> "CANCELLED", live |-> FALSE]]
                 /\ run' = [run EXCEPT !.status = "CANCELLED"]
            BY <2>3 DEF LockCancelled
        <3>3. CASE UNCHANGED <<run, att>>
            BY <3>1, <3>3
        <3>4. CASE /\ Live(a) /\ att' = [att EXCEPT ![a] = [status |-> "CANCELLED", live |-> FALSE]]
                   /\ run' = [run EXCEPT !.status = "CANCELLED"]
            <4>1. run'.official = run.official
                BY <1>0, <3>4 DEF TypeOK
            <4>2. \A b \in Attempts : att'[b].status = "NONE" <=> att[b].status = "NONE"
                BY <1>0, <3>4 DEF TypeOK, Live
            <4> QED
                BY <3>1, <4>1, <4>2
        <3> QED
            BY <3>2, <3>3, <3>4
    <2>4. CASE CheckFails(a) \/ SweepRefused(a)
        BY <1>0, <2>4 DEF CheckFails, SweepRefused, objects, journal
    <2> QED
        BY <2>1, <2>2, <2>3, <2>4
<1>2. \/ pc[a] = "lock" /\ \E where \in {"put", "cancelled", "raised", "unclean"} : Goto(a, where)
      \/ Goto(a, "unclean") \/ Goto(a, "crashed")
    BY DEF Crash, Lock, LockCancelled, CheckFails, SweepRefused
<1>3. \A b \in Attempts \ {a} : pc'[b] = pc[b]
    BY <1>0, <1>2 DEF Goto, TypeOK
<1>4. \/ pc[a] = "lock" /\ pc'[a] \in {"put", "cancelled", "raised", "unclean"}
      \/ pc'[a] \in {"unclean", "crashed"}
    BY <1>0, <1>2 DEF Goto, TypeOK
<1>5. OfficialOK'
    BY <1>1, NewestStays
<1> QED
    BY <1>1, <1>3, <1>4, <1>5, QuietStep

\* The loss of a connection: who loses it can no longer commit, and will clean up.
LEMMA LoseAccounts ==
    ASSUME IInv, Accounts, NEW a \in Attempts, LoseConnection(a) PROVE Accounts'
<1>1. /\ UNCHANGED <<run, att, store, row, cap, plan, pc>> /\ conn[a] = "held" /\ conn'[a] = "lost"
      /\ \A b \in Attempts \ {a} : conn'[b] = conn[b]
    BY Known DEF LoseConnection, objects, journal, TypeOK
<1>2. OfficialOK'
    BY <1>1, NewestStays
<1>3. PartOK(a)'
    BY <1>1, PartStays DEF Accounts
<1>4. Answers(a) => Answers(a)'
    <2>1. pc[a] = "done" => run.official = a
        BY Known DEF AttemptOK
    <2> QED
        BY <1>1, <2>1 DEF Answers, Handles, Holds, Detached, Made, Open, Uploaded
<1>5. ~Stray' \/ Stray
    BY <1>1 DEF Stray
<1> QED
    BY <1>1, <1>2, <1>3, <1>4, <1>5, AccountsStep

\* A completed publication is of the newest attempt.
LEMMA CompletedNewest ==
    ASSUME IInv, NEW a \in Attempts, att[a].status = "RUNNING", Completed(a)
    PROVE  /\ OfficialOK' /\ run.official = 0 /\ run'.official = a
<1>1. /\ run.official = 0 /\ Newest(a)
    BY Known DEF RunOK
<1>2. /\ run'.official = a /\ \A b \in Attempts : att'[b].status = "NONE" <=> att[b].status = "NONE"
    BY Known DEF Completed, TypeOK
<1> QED
    BY <1>1, <1>2 DEF OfficialOK, Newest, Claimed

\* The commit, and the exception instead of it.
LEMMA FinishAccounts ==
    ASSUME IInv, Accounts, NEW a \in Attempts, Finish(a) \/ CommitUnknown(a) PROVE Accounts'
<1>0. TypeOK /\ AttemptOK(a) /\ PartOK(a)
    BY Known DEF Accounts
<1>1. /\ UNCHANGED <<store, row, cap, plan>> /\ pc[a] = "finish"
    BY DEF Finish, CommitUnknown, objects, journal
<1>2. Kept(a) /\ ~Loose(a)
    BY <1>0, <1>1 DEF AttemptOK, Kept, Loose
<1>3. \/ /\ conn[a] = "held" /\ Live(a) /\ Completed(a)
         /\ pc'[a] = "done" /\ conn'[a] = "none"
      \/ /\ UNCHANGED <<run, att>> /\ pc'[a] = "check"
         /\ conn'[a] = "none" \/ (conn[a] = "held" /\ conn'[a] = "pending")
    BY <1>0, <1>1 DEF Finish, CommitUnknown, CanComplete, Goto, Raise, TypeOK
<1>4. \A b \in Attempts \ {a} : pc'[b] = pc[b] /\ conn'[b] = conn[b]
    BY <1>0 DEF Finish, CommitUnknown, Goto, Raise, TypeOK
<1>5. PartOK(a)'
    BY <1>0, <1>1, <1>2, <1>3 DEF PartOK, Kept, Loose
<1>6. OfficialOK' /\ (run'.official = run.official \/ (run.official = 0 /\ run'.official = a))
    <2>1. CASE Live(a) /\ Completed(a)
        BY <2>1, CompletedNewest DEF Live
    <2>2. CASE UNCHANGED <<run, att>>
        BY <2>2, NewestStays
    <2> QED
        BY <1>3, <2>1, <2>2
<1>7. Answers(a) => Answers(a)'
    <2>1. pc[a] \in Open /\ pc'[a] \in Open \cup {"done"}
        BY <1>1, <1>3 DEF Open
    <2>2. Detached(a) => Detached(a)'
        BY <1>3 DEF Detached
    <2>3. pc'[a] = "done" => ~Detached(a)'
        <3>1. Live(a) /\ Completed(a) => run'.official = a
            BY CompletedNewest DEF Live
        <3> QED
            BY <1>3, <3>1 DEF Detached
    <2> QED
        BY <1>1, <2>1, <2>2, <2>3, AnswerProceeds
<1>8. ~Stray' \/ Stray
    BY <1>1 DEF Stray
<1> QED
    BY <1>1, <1>4, <1>5, <1>6, <1>7, <1>8, AccountsStep

\* The commit that was in doubt.
LEMMA ResolveAccounts ==
    ASSUME IInv, Accounts, NEW a \in Attempts, CommitResolves(a) PROVE Accounts'
<1>0. TypeOK /\ AttemptOK(a)
    BY Known
<1>1. /\ UNCHANGED <<store, row, cap, plan, pc>> /\ conn[a] = "pending" /\ conn'[a] = "none"
      /\ \A b \in Attempts \ {a} : conn'[b] = conn[b]
      /\ Completed(a) \/ UNCHANGED <<run, att>>
    BY <1>0 DEF CommitResolves, objects, journal, TypeOK
<1>2. att[a].status = "RUNNING" /\ pc[a] \in AfterCommit \cup {"raised"}
    BY <1>0, <1>1 DEF AttemptOK, Misled
<1>3. OfficialOK' /\ (run'.official = run.official \/ (run.official = 0 /\ run'.official = a))
    <2>1. CASE Completed(a)
        BY <1>2, <2>1, CompletedNewest
    <2>2. CASE UNCHANGED <<run, att>>
        BY <2>2, NewestStays
    <2> QED
        BY <1>1, <2>1, <2>2
<1>4. PartOK(a)'
    BY <1>1, PartStays DEF Accounts
<1>5. Answers(a) => Answers(a)'
    BY <1>1, <1>2 DEF Answers, Handles, Holds, Detached, Made, Open, Uploaded, AfterCommit
<1>6. ~Stray' \/ Stray
    BY <1>1 DEF Stray
<1> QED
    BY <1>1, <1>3, <1>4, <1>5, <1>6, AccountsStep

\* Whether the result is official decides between success and cleanup.
LEMMA CheckAccounts ==
    ASSUME IInv, Accounts, NEW a \in Attempts, Check(a) PROVE Accounts'
<1>0. TypeOK /\ AttemptOK(a) /\ PartOK(a)
    BY Known DEF Accounts
<1>1. /\ UNCHANGED <<run, att, store, row, cap, plan, conn>> /\ pc[a] = "check"
      /\ pc'[a] = (IF run.official = a THEN "done" ELSE "scan")
      /\ \A b \in Attempts \ {a} : pc'[b] = pc[b]
    BY <1>0 DEF Check, Goto, objects, journal, TypeOK
<1>2. OfficialOK'
    BY <1>1, NewestStays
<1>3. PartOK(a)'
    <2>1. Kept(a)
        BY <1>0, <1>1 DEF AttemptOK
    <2> QED
        BY <1>0, <1>1, <2>1 DEF PartOK, Kept, Loose
<1>4. Answers(a) => Answers(a)'
    <2>1. pc[a] \in Open
        BY <1>1 DEF Open
    <2>2. CASE run.official # a
        BY <1>1, <2>1, <2>2, AnswerScans
    <2>3. CASE run.official = a
        BY <1>1, <2>1, <2>3, AnswerProceeds DEF Detached
    <2> QED
        BY <2>2, <2>3
<1>5. ~Stray' \/ Stray
    BY <1>1 DEF Stray
<1> QED
    BY <1>1, <1>2, <1>3, <1>4, <1>5, AccountsStep

\* A put: who creates the snapshot answers for it until its row is there.
LEMMA PutAccounts ==
    ASSUME IInv, Accounts, NEW a \in Attempts, Put(a) PROVE Accounts'
<1>0. /\ TypeOK /\ AttemptOK(a) /\ PartOK(a)
      /\ a \in Objects /\ 0 \in Objects /\ a # 0
    BY Known DEF Accounts
<1>a. PICK o : o = Current(a)
    OBVIOUS
<1>1. /\ UNCHANGED <<run, att, row, plan>> /\ pc[a] = "put" /\ Clean(a)
      /\ o \in {0, a} /\ o \in Objects /\ (o = 0 <=> cap[a][0].ver = 0)
    BY <1>0, <1>a DEF Put, Current, AttemptOK
<1>2. /\ \A q \in Objects \ {o} : store'[q] = store[q]
      /\ store[o].ver # 0 => store' = store
      /\ store[o].ver = 0 => store'[o].ver # 0 /\ ~store'[o].retried
    <2>1. CASE store[o].ver # 0
        BY <1>a, <2>1 DEF Put
    <2>2. CASE store[o].ver = 0
        <3>1. PICK good \in BOOLEAN : store' = [store EXCEPT ![o] = Bytes(good, FALSE)]
            BY <1>a, <2>2 DEF Put
        <3> QED
            BY <1>0, <1>1, <2>2, <3>1, BytesFacts DEF TypeOK
    <2> QED
        BY <2>1, <2>2
<1>3. \/ /\ pc'[a] = "scan" /\ cap' = cap /\ conn'[a] = "none"
      \/ /\ pc'[a] = "register" /\ conn' = conn
         /\ cap' = [cap EXCEPT ![a][o] = Captured(o, store[o].ver = 0)]
    BY <1>0, <1>1, <1>a, SMT DEF Put, Goto, Raise, TypeOK
<1>4. \A b \in Attempts \ {a} : pc'[b] = pc[b] /\ conn'[b] = conn[b] /\ cap'[b] = cap[b]
    BY <1>0, <1>a, SMT DEF Put, Goto, Raise, TypeOK
<1>5. pc'[a] = "register" =>
          /\ cap'[a][o].ver = store'[o].ver /\ cap'[a][o].created = (store[o].ver = 0)
          /\ \A q \in Objects \ {o} : cap'[a][q] = cap[a][q]
    BY <1>0, <1>1, <1>3, SMT DEF Captured, TypeOK
<1>6. \A b \in Attempts \ {a} : store'[b] = store[b] /\ row'[b] = row[b] /\ plan'[b] = plan[b]
    <2>1. \A b \in Attempts : b \in Objects /\ b # 0
        BY Known
    <2> QED
        BY <1>1, <1>2, <2>1
<1>7. OfficialOK' /\ run'.official = run.official
    BY <1>1, NewestStays
<1>8. PartOK(a)'
    <2>1. CASE o = 0
        BY <1>0, <1>1, <1>2, <1>3, <1>5, <2>1 DEF PartOK, Loose, Clean
    <2>2. CASE o = a
        BY <1>0, <1>1, <1>2, <1>3, <1>5, <2>2 DEF PartOK, Loose, Clean
    <2> QED
        BY <1>1, <2>1, <2>2
<1>9. CASE o = 0 /\ store[0].ver = 0
    <2>1. Answers(a)'
        <3>1. CASE pc'[a] = "scan" /\ cap' = cap
            BY <1>1, <1>9, <3>1 DEF Answers, Handles
        <3>2. CASE pc'[a] = "register"
            <4>1. Uploaded(a)' = 0
                BY <1>0, <1>1, <1>5, <1>9, <3>2 DEF Uploaded, Clean
            <4>2. Made(a)'
                BY <1>5, <1>9, <3>2 DEF Made
            <4> QED
                BY <3>2, <4>1, <4>2 DEF Answers, Handles
        <3> QED
            BY <1>3, <3>1, <3>2
    <2> QED
        BY <1>4, <1>6, <1>7, <1>8, <2>1, AccountsStep
<1>10. CASE ~(o = 0 /\ store[0].ver = 0)
    <2>1. store'[0] = store[0]
        BY <1>0, <1>1, <1>2, <1>10
    <2>2. ~Stray' \/ Stray
        BY <1>1, <2>1 DEF Stray
    <2>3. Answers(a) => Answers(a)'
        <3> SUFFICES ASSUME Answers(a) PROVE Answers(a)'
            OBVIOUS
        <3>1. Made(a) /\ pc[a] \in Open
            BY <1>1 DEF Answers, Handles, Holds, Open
        <3>2. o = a
            BY <1>1, <1>10, <3>1 DEF Made
        <3>3. CASE pc'[a] = "scan" /\ cap' = cap
            BY <2>1, <3>1, <3>3, AnswerScans
        <3>4. CASE pc'[a] = "register" /\ conn' = conn
            <4>1. cap'[a][0] = cap[a][0]
                BY <1>0, <1>5, <3>2, <3>4
            <4>2. Detached(a)' <=> Detached(a)
                BY <1>1, <3>4 DEF Detached
            <4>3. pc'[a] \in Open
                BY <3>4 DEF Open
            <4> QED
                BY <1>1, <2>1, <3>1, <3>4, <4>1, <4>2, <4>3, AnswerProceeds
        <3> QED
            BY <1>3, <3>3, <3>4
    <2> QED
        BY <1>1, <1>4, <1>6, <1>7, <1>8, <2>1, <2>2, <2>3, AccountsStep
<1> QED
    BY <1>9, <1>10

\* A put that fails: cleanup will look for what has arrived.
LEMMA PutFailsAccounts ==
    ASSUME IInv, Accounts, NEW a \in Attempts, PutFails(a) PROVE Accounts'
<1>0. /\ TypeOK /\ AttemptOK(a) /\ PartOK(a)
      /\ a \in Objects /\ 0 \in Objects /\ a # 0
    BY Known DEF Accounts
<1>a. PICK o : o = Current(a)
    OBVIOUS
<1>1. /\ UNCHANGED <<run, att, row, plan, cap>> /\ pc[a] = "put" /\ Clean(a)
      /\ o \in {0, a} /\ o \in Objects /\ (o = 0 <=> cap[a][0].ver = 0)
      /\ Raise(a, "retry")
    BY <1>0, <1>a DEF PutFails, Current, AttemptOK
<1>2. /\ \A q \in Objects \ {o} : store'[q] = store[q]
      /\ store'[o] = store[o] \/ ~store'[o].retried
    BY <1>0, <1>1, <1>a, BytesFacts DEF PutFails, TypeOK
<1>3. /\ pc'[a] = "scan"
      /\ \A b \in Attempts \ {a} : pc'[b] = pc[b] /\ conn'[b] = conn[b]
    BY <1>1, RaiseFacts
<1>4. \A b \in Attempts \ {a} : store'[b] = store[b]
    <2>1. \A b \in Attempts : b \in Objects /\ b # 0
        BY Known
    <2> QED
        BY <1>1, <1>2, <2>1
<1>5. OfficialOK' /\ run'.official = run.official
    BY <1>1, NewestStays
<1>6. PartOK(a)'
    <2>1. store'[a] = store[a] \/ ~store'[a].retried
        BY <1>0, <1>1, <1>2
    <2> QED
        BY <1>0, <1>1, <1>3, <2>1 DEF PartOK, Loose, Clean
<1>7. CASE o = 0
    <2>1. Answers(a)'
        BY <1>1, <1>3, <1>7 DEF Answers, Handles
    <2> QED
        BY <1>1, <1>3, <1>4, <1>5, <1>6, <2>1, AccountsStep
<1>8. CASE o # 0
    <2>1. store'[0] = store[0]
        BY <1>0, <1>2, <1>8
    <2>2. Answers(a) => Answers(a)'
        <3>1. pc[a] \in Open
            BY <1>1 DEF Open
        <3> QED
            BY <1>1, <1>3, <2>1, <3>1, AnswerScans
    <2>3. ~Stray' \/ Stray
        BY <1>1, <2>1 DEF Stray
    <2> QED
        BY <1>1, <1>3, <1>4, <1>5, <1>6, <2>1, <2>2, <2>3, AccountsStep
<1> QED
    BY <1>7, <1>8

\* A put that its retry reconciles: nobody answers for the bytes, and whoever answered for the
\* snapshot still does.
LEMMA PutRetriedAccounts ==
    ASSUME IInv, Accounts, NEW a \in Attempts, PutRetried(a) PROVE Accounts'
<1>0. /\ TypeOK /\ AttemptOK(a) /\ PartOK(a)
      /\ a \in Objects /\ 0 \in Objects /\ a # 0
    BY Known DEF Accounts
<1>a. PICK o : o = Current(a)
    OBVIOUS
<1>1. /\ UNCHANGED <<run, att, row, plan, conn>> /\ pc[a] = "put" /\ Clean(a)
      /\ o \in {0, a} /\ o \in Objects /\ (o = 0 <=> cap[a][0].ver = 0)
      /\ store' = [store EXCEPT ![o] = Bytes(TRUE, TRUE)]
      /\ cap' = [cap EXCEPT ![a] = [cap[a] EXCEPT ![o] = Captured(o, FALSE)]]
      /\ Goto(a, "register")
    BY <1>0, <1>a DEF PutRetried, Current, AttemptOK
<1>2. /\ \A q \in Objects \ {o} : store'[q] = store[q]
      /\ store'[o].ver # 0 /\ store'[o].retried
    BY <1>0, <1>1, BytesFacts DEF TypeOK
<1>3. /\ cap'[a][o].ver = store'[o].ver
      /\ \A q \in Objects \ {o} : cap'[a][q] = cap[a][q]
      /\ \A b \in Attempts \ {a} : cap'[b] = cap[b]
    <2>0. Captured(o, FALSE).ver = store'[o].ver
        BY DEF Captured
    <2>1. PICK c : c = Captured(o, FALSE) /\ c.ver = store'[o].ver
        BY <2>0
    <2>2. cap \in [Attempts -> [Objects -> Capture]] /\ cap[a] \in [Objects -> Capture]
        BY <1>0 DEF TypeOK
    <2>3. cap'[a] = [cap[a] EXCEPT ![o] = c] /\ \A b \in Attempts \ {a} : cap'[b] = cap[b]
        BY <1>1, <2>1, <2>2
    <2>4. o \in Objects
        BY <1>1
    <2>5. cap'[a][o] = c /\ \A q \in Objects \ {o} : cap'[a][q] = cap[a][q]
        BY <2>2, <2>3, <2>4
    <2> QED
        BY <2>1, <2>3, <2>5
<1>4. pc'[a] = "register" /\ \A b \in Attempts \ {a} : pc'[b] = pc[b]
    BY <1>1, GotoFacts DEF PublisherPc
<1>5. \A b \in Attempts \ {a} : store'[b] = store[b]
    <2>1. \A b \in Attempts : b \in Objects /\ b # 0
        BY Known
    <2> QED
        BY <1>1, <1>2, <2>1
<1>6. OfficialOK' /\ run'.official = run.official
    BY <1>1, NewestStays
<1>7. PartOK(a)'
    <2>1. CASE o = 0
        BY <1>0, <1>1, <1>2, <1>3, <1>4, <2>1 DEF PartOK, Loose, Clean
    <2>2. CASE o = a
        BY <1>0, <1>1, <1>2, <1>3, <1>4, <2>2 DEF PartOK, Loose, Clean
    <2> QED
        BY <1>1, <2>1, <2>2
<1>8. CASE o = 0
    <2>1. ~Stray'
        BY <1>2, <1>8 DEF Stray
    <2> QED
        BY <1>1, <1>3, <1>4, <1>5, <1>6, <1>7, <2>1, AccountsStep
<1>9. CASE o = a
    <2>1. store'[0] = store[0] /\ cap'[a][0] = cap[a][0]
        BY <1>0, <1>2, <1>3, <1>9
    <2>2. ~Stray' \/ Stray
        BY <1>1, <2>1 DEF Stray
    <2>3. Answers(a) => Answers(a)'
        <3>1. pc[a] \in Open /\ pc'[a] \in Open \cup {"done"} /\ pc'[a] # "done"
            BY <1>1, <1>4 DEF Open
        <3>2. Detached(a) => Detached(a)'
            BY <1>1 DEF Detached
        <3> QED
            BY <1>1, <2>1, <3>1, <3>2, AnswerProceeds
    <2> QED
        BY <1>1, <1>3, <1>4, <1>5, <1>6, <1>7, <2>1, <2>2, <2>3, AccountsStep
<1> QED
    BY <1>1, <1>8, <1>9

\* The row that registering object o leaves, or the row as it was.
LEMMA RegisteredRow ==
    ASSUME IInv, NEW a \in Attempts, NEW o, pc[a] = "register", o = Uploaded(a)
    PROVE  /\ Registered(a, o).status # "NONE"
           /\ row[o].status = "NONE" => Registered(a, o).ver = cap[a][o].ver
           /\ row[o].status # "NONE" => Registered(a, o).ver = row[o].ver
<1>0. o \in Objects /\ TypeOK
    BY RegisteredFacts, Known
<1>1. CASE row[o].status = "NONE"
    <2>1. Registered(a, o) = [status |-> "STAGED", ver |-> cap[a][o].ver,
                              owner |-> IF cap[a][o].created THEN a ELSE 0]
        BY <1>1 DEF Registered
    <2> QED
        BY <1>1, <2>1, SMT
<1>2. CASE row[o].status # "NONE"
    <2>1. PICK r \in Registration : r = row[o]
        BY <1>0 DEF TypeOK
    <2>2. Registered(a, o) = [r EXCEPT !.owner = IF Reissuable(a, o) THEN a ELSE r.owner]
        BY <1>2, <2>1 DEF Registered
    <2> QED
        BY <1>2, <2>1, <2>2 DEF Registration
<1> QED
    BY <1>1, <1>2

\* A registration, answered or not.
LEMMA RegisterAccounts ==
    ASSUME IInv, Accounts, NEW a \in Attempts, Register(a) \/ RegisterFails(a) PROVE Accounts'
<1>0. /\ TypeOK /\ AttemptOK(a) /\ PartOK(a)
      /\ a \in Objects /\ 0 \in Objects /\ a # 0
    BY Known DEF Accounts
<1>a. PICK o : o = Uploaded(a)
    OBVIOUS
<1>b. PICK new : new = Registered(a, o)
    OBVIOUS
<1>1. UNCHANGED <<run, att, plan, store>> /\ pc[a] = "register"
    BY DEF Register, RegisterFails
<1>2. /\ o \in {0, a} /\ o \in Objects /\ (o = 0 <=> cap[a][a].ver = 0)
      /\ o = 0 => Clean(a)
      /\ o = a => /\ store[a].ver = cap[a][a].ver /\ cap[a][a].ver # 0
    BY <1>1, <1>a, RegisteredFacts
<1>3. /\ new.status # "NONE"
      /\ row[o].status = "NONE" => new.ver = cap[a][o].ver
      /\ row[o].status # "NONE" => new.ver = row[o].ver
    BY <1>1, <1>a, <1>b, RegisteredRow
<1>4. row' = row \/ row' = [row EXCEPT ![o] = new]
    BY <1>a, <1>b DEF Register, RegisterFails
<1>5. cap' = cap \/ cap' = [cap EXCEPT ![a][o].owned = new.owner = a]
    BY <1>a, <1>b DEF Register, RegisterFails
<1>6. /\ \A b \in Attempts \ {a} : cap'[b] = cap[b]
      /\ \A q \in Objects : cap'[a][q].ver = cap[a][q].ver /\ cap'[a][q].created = cap[a][q].created
    <2>1. CASE cap' = cap
        BY <2>1
    <2>2. CASE cap' = [cap EXCEPT ![a][o].owned = new.owner = a]
        <3>1. /\ cap'[a] = [cap[a] EXCEPT ![o].owned = new.owner = a]
              /\ \A b \in Attempts \ {a} : cap'[b] = cap[b]
            BY <1>0, <2>2 DEF TypeOK
        <3>2. cap[a] \in [Objects -> Capture]
            BY <1>0 DEF TypeOK
        <3>3. /\ cap'[a][o] = [cap[a][o] EXCEPT !.owned = new.owner = a]
              /\ \A q \in Objects \ {o} : cap'[a][q] = cap[a][q]
            BY <1>2, <3>1, <3>2
        <3>4. cap'[a][o].ver = cap[a][o].ver /\ cap'[a][o].created = cap[a][o].created
            BY <1>2, <3>2, <3>3, SMT DEF Capture
        <3> QED
            BY <3>1, <3>3, <3>4
    <2> QED
        BY <1>5, <2>1, <2>2
<1>7. /\ \A q \in Objects \ {o} : row'[q] = row[q]
      /\ row'[o] = row[o] \/ row'[o] = new
    BY <1>0, <1>2, <1>4 DEF TypeOK
<1>8. \A b \in Attempts \ {a} : pc'[b] = pc[b] /\ conn'[b] = conn[b]
    BY <1>0 DEF Register, RegisterFails, Goto, Raise, TypeOK
<1>9. \/ pc'[a] = "scan"
      \/ pc'[a] = "verify" /\ conn' = conn /\ row'[o] = new
    BY <1>0, <1>1, <1>2, <1>a, <1>b DEF Register, RegisterFails, Goto, Raise, TypeOK
<1>10. \A b \in Attempts \ {a} : row'[b] = row[b] /\ store'[b] = store[b] /\ plan'[b] = plan[b]
    <2>1. \A b \in Attempts : b \in Objects /\ b # 0
        BY Known
    <2> QED
        BY <1>1, <1>2, <1>7, <2>1
<1>11. OfficialOK' /\ run'.official = run.official
    BY <1>1, NewestStays
<1>12. PartOK(a)'
    <2>1. CASE o = 0
        <3>1. row'[a] = row[a] /\ cap'[a][a].ver = cap[a][a].ver
            BY <1>0, <1>6, <1>7, <2>1
        <3> QED
            BY <1>0, <1>1, <1>2, <1>9, <2>1, <3>1 DEF PartOK, Loose, Clean
    <2>2. CASE o = a
        <3>1. /\ cap[a][a].created \/ store[a].retried
              /\ cap'[a][a].ver = cap[a][a].ver /\ cap'[a][a].created = cap[a][a].created
            BY <1>0, <1>2, <1>6, <2>2 DEF PartOK
        <3>2. row'[a].status # "NONE" => row'[a].ver = cap[a][a].ver
            BY <1>0, <1>3, <1>7, <2>2 DEF PartOK
        <3> QED
            BY <1>1, <1>2, <1>9, <2>2, <3>1, <3>2 DEF PartOK, Loose
    <2> QED
        BY <1>2, <2>1, <2>2
<1>13. row[0].status # "NONE" => row'[0].status # "NONE" /\ row'[0].ver = row[0].ver
    BY <1>0, <1>3, <1>7
<1>14. ~Stray' \/ Stray
    BY <1>1, <1>13 DEF Stray
<1>15. ~Stray' \/ (Answers(a) => Answers(a)')
    <2> SUFFICES ASSUME Stray', Answers(a) PROVE Answers(a)'
        OBVIOUS
    <2>1. Made(a) /\ pc[a] \in Open
        BY <1>1 DEF Answers, Handles, Holds, Open
    <2>2. CASE pc'[a] = "scan"
        BY <1>0, <1>1, <1>6, <2>1, <2>2, AnswerScans
    <2>3. CASE pc'[a] = "verify" /\ conn' = conn /\ row'[o] = new
        <3>1. pc'[a] \in Open \cup {"done"} /\ pc'[a] # "done"
            BY <2>3 DEF Open
        <3>2. Detached(a) => Detached(a)'
            BY <1>1, <2>3 DEF Detached
        <3>3. Uploaded(a) = 0 => row'[0].status # "NONE"
            BY <1>3, <1>a, <2>3
        <3> QED
            BY <1>0, <1>1, <1>6, <1>13, <2>1, <3>1, <3>2, <3>3, AnswerProceeds
    <2> QED
        BY <1>9, <2>2, <2>3
<1> QED
    BY <1>1, <1>6, <1>8, <1>10, <1>11, <1>12, <1>13, <1>14, <1>15, AccountsStep

\* Verification changes what a row says of the bytes, not which bytes it names.
LEMMA VerifyAccounts ==
    ASSUME IInv, Accounts, NEW a \in Attempts, Verify(a) PROVE Accounts'
<1>0. /\ TypeOK /\ AttemptOK(a) /\ PartOK(a)
      /\ a \in Objects /\ 0 \in Objects /\ a # 0
    BY Known DEF Accounts
<1>a. PICK o : o = Uploaded(a)
    OBVIOUS
<1>1. /\ UNCHANGED <<run, att, plan, store, cap>> /\ pc[a] = "verify"
      /\ o \in {0, a} /\ o \in Objects
    BY <1>0, <1>a DEF Verify, Uploaded, journal
<1>2. \/ row' = row
      \/ /\ row[o].status \in {"STAGED", "AVAILABLE", "QUARANTINED"}
         /\ \E to \in {"AVAILABLE", "QUARANTINED"} : row' = [row EXCEPT ![o].status = to]
    BY <1>a DEF Verify
<1>3. \A q \in Objects : /\ row'[q].ver = row[q].ver
                         /\ row'[q].status = "NONE" <=> row[q].status = "NONE"
                         /\ q # o => row'[q] = row[q]
    <2>1. CASE row' = row
        BY <2>1
    <2>2. CASE /\ row[o].status \in {"STAGED", "AVAILABLE", "QUARANTINED"}
               /\ \E to \in {"AVAILABLE", "QUARANTINED"} : row' = [row EXCEPT ![o].status = to]
        <3>1. PICK to \in {"AVAILABLE", "QUARANTINED"} : row' = [row EXCEPT ![o].status = to]
            BY <2>2
        <3>2. /\ row'[o] = [row[o] EXCEPT !.status = to]
              /\ \A q \in Objects \ {o} : row'[q] = row[q]
            BY <1>0, <1>1, <3>1 DEF TypeOK
        <3>3. row[o] \in Registration
            BY <1>0, <1>1 DEF TypeOK
        <3>4. row'[o].ver = row[o].ver /\ row'[o].status = to
            BY <3>2, <3>3 DEF Registration
        <3> QED
            BY <2>2, <3>2, <3>4
    <2> QED
        BY <1>2, <2>1, <2>2
<1>4. /\ \A b \in Attempts \ {a} : pc'[b] = pc[b] /\ conn'[b] = conn[b]
      /\ pc'[a] = "scan" \/ (pc'[a] \in {"put", "finish"} /\ conn' = conn)
    BY <1>0, <1>1, SMT DEF Verify, Goto, Raise, TypeOK
<1>5. \A b \in Attempts \ {a} : row'[b] = row[b] /\ store'[b] = store[b] /\ plan'[b] = plan[b] /\ cap'[b] = cap[b]
    <2>1. \A b \in Attempts : b \in Objects /\ b # 0
        BY Known
    <2> QED
        BY <1>1, <1>3, <2>1
<1>6. OfficialOK' /\ run'.official = run.official
    BY <1>1, NewestStays
<1>7. PartOK(a)'
    BY <1>0, <1>1, <1>3, <1>4 DEF PartOK, Loose
<1>8. ~Stray' \/ Stray
    BY <1>0, <1>1, <1>3 DEF Stray
<1>9. Answers(a) => Answers(a)'
    <2>1. pc[a] \in Open
        BY <1>1 DEF Open
    <2>2. CASE pc'[a] = "scan"
        BY <1>1, <2>1, <2>2, AnswerScans
    <2>3. CASE pc'[a] \in {"put", "finish"} /\ conn' = conn
        <3>1. pc'[a] \in Open \cup {"done"} /\ pc'[a] # "done"
            BY <2>3 DEF Open
        <3>2. Detached(a) => Detached(a)'
            BY <1>1, <2>3 DEF Detached
        <3> QED
            BY <1>0, <1>1, <1>3, <2>1, <3>1, <3>2, AnswerProceeds
    <2> QED
        BY <1>4, <2>2, <2>3
<1> QED
    BY <1>0, <1>1, <1>3, <1>4, <1>5, <1>6, <1>7, <1>8, <1>9, AccountsStep

\* What is planned for an object that has bytes and no row of them.
LEMMA PlannedStray ==
    ASSUME TypeOK, NEW a \in Attempts, NEW o \in Objects, store[o].ver # 0,
           row[o].status = "NONE" \/ row[o].ver # store[o].ver
    PROVE  /\ cap[a][o].ver = 0 =>
                 \/ Planned(a, o).what = "refuse"
                 \/ /\ Planned(a, o).what = "keep" /\ Planned(a, o).ver = row[o].ver
                    /\ row[o].status # "NONE"
           /\ cap[a][o].created /\ cap[a][o].ver = store[o].ver =>
                 Planned(a, o).what = "direct" /\ Planned(a, o).ver = store[o].ver
BY DEF Planned

\* The plan to delete an object with its row names what was captured.
LEMMA PlannedBatch ==
    ASSUME NEW a, NEW o, Planned(a, o).what = "batch"
    PROVE  Planned(a, o).ver = cap[a][o].ver
BY DEF Planned

\* Cleanup begins: what is to be done about a stray snapshot is to delete it, if it is
\* known to be this attempt's, or to refuse.
LEMMA ScanAccounts ==
    ASSUME IInv, Accounts, NEW a \in Attempts, Scan(a) PROVE Accounts'
<1>0. /\ TypeOK /\ AttemptOK(a) /\ PartOK(a)
      /\ a \in Objects /\ 0 \in Objects /\ a # 0 /\ Artifacts(a) = {0, a}
    BY Known DEF Accounts
<1>1. /\ UNCHANGED <<run, att, store, row, cap, conn>> /\ pc[a] = "scan"
      /\ plan' = [plan EXCEPT ![a] =
                     [o \in Objects |-> IF o \in Artifacts(a) THEN Planned(a, o) ELSE Nothing]]
      /\ Goto(a, "sweep")
    BY DEF Scan, objects
<1>2. /\ plan'[a][0] = Planned(a, 0) /\ plan'[a][a] = Planned(a, a)
      /\ \A b \in Attempts \ {a} : plan'[b] = plan[b]
    BY <1>0, <1>1 DEF TypeOK
<1>3. pc'[a] = "sweep" /\ \A b \in Attempts \ {a} : pc'[b] = pc[b]
    BY <1>1, GotoFacts DEF PublisherPc
<1>4. OfficialOK' /\ run'.official = run.official
    BY <1>1, NewestStays
<1>5. PartOK(a)'
    <2>1. Loose(a) => \/ Planned(a, a).what = "refuse"
                      \/ Planned(a, a).what = "direct" /\ Planned(a, a).ver = store[a].ver
        <3> SUFFICES ASSUME Loose(a)
                     PROVE  \/ Planned(a, a).what = "refuse"
                            \/ Planned(a, a).what = "direct" /\ Planned(a, a).ver = store[a].ver
            OBVIOUS
        <3>1. store[a].ver # 0 /\ ~store[a].retried /\ row[a].status = "NONE"
            BY DEF Loose
        <3>2. cap[a][a].ver = 0 \/ (cap[a][a].created /\ cap[a][a].ver = store[a].ver)
            BY <1>0, <3>1 DEF PartOK
        <3> QED
            BY <1>0, <3>1, <3>2, PlannedStray
    <2>2. Planned(a, a).what = "batch" => Planned(a, a).ver = cap[a][a].ver
        BY PlannedBatch
    <2> QED
        BY <1>0, <1>1, <1>2, <1>3, <2>1, <2>2 DEF PartOK, Loose
<1>6. ~Stray' \/ Stray
    BY <1>1 DEF Stray
<1>7. ~Stray' \/ (Answers(a) => Answers(a)')
    <2> SUFFICES ASSUME Stray, Answers(a) PROVE Handles(a)'
        BY <1>6 DEF Answers
    <2>1. store[0].ver # 0 /\ (row[0].status = "NONE" \/ row[0].ver # store[0].ver)
        BY DEF Stray
    <2>2. cap[a][0].ver = 0 \/ (cap[a][0].created /\ cap[a][0].ver = store[0].ver)
        BY <1>1 DEF Answers, Handles, Holds, Made, Open
    <2>3. CASE cap[a][0].ver = 0
        <3>1. \/ Planned(a, 0).what = "refuse"
              \/ Planned(a, 0).what = "keep" /\ Planned(a, 0).ver # store[0].ver
            BY <1>0, <2>1, <2>3, PlannedStray
        <3> QED
            BY <1>1, <1>2, <1>3, <3>1 DEF Handles
    <2>4. CASE cap[a][0].created /\ cap[a][0].ver = store[0].ver
        <3>1. Planned(a, 0).what = "direct" /\ Planned(a, 0).ver = store[0].ver
            BY <1>0, <2>1, <2>4, PlannedStray
        <3> QED
            BY <1>1, <1>2, <1>3, <2>4, <3>1 DEF Handles, Made
    <2> QED
        BY <2>2, <2>3, <2>4
<1> QED
    BY <1>1, <1>2, <1>3, <1>4, <1>5, <1>6, <1>7, AccountsStep

\* Cleanup that is not refused deletes a stray snapshot its publisher answers for.
LEMMA AnswersDirect ==
    ASSUME IInv, NEW a \in Attempts, pc[a] = "sweep", ~Refused(a), Answers(a)
    PROVE  Made(a) /\ 0 \in ToDo(a, "direct") /\ (store[0].ver # 0 => Stored(a, 0))
<1>0. 0 \in Objects
    BY Known
<1>1. /\ plan[a][0].what # "refuse"
      /\ plan[a][0].what = "keep" => plan[a][0].ver = store[0].ver
    BY <1>0 DEF Refused, ToDo, Preflight, Stored
<1> QED
    BY <1>0, <1>1 DEF Answers, Handles, Holds, Open, ToDo, Stored

\* Cleanup that is not refused deletes a loose part of its own attempt.
LEMMA LooseDirect ==
    ASSUME IInv, NEW a \in Attempts, pc[a] = "sweep", ~Refused(a), PartOK(a), Loose(a)
    PROVE  a \in ToDo(a, "direct") /\ Stored(a, a)
<1>0. a \in Objects
    BY Known
<1>1. plan[a][a].what # "refuse"
    BY <1>0 DEF Refused, ToDo
<1> QED
    BY <1>0, <1>1 DEF PartOK, Loose, ToDo, Stored

\* A cleanup that succeeds.
LEMMA SweepAccounts ==
    ASSUME IInv, Accounts, NEW a \in Attempts, Sweep(a) PROVE Accounts'
<1>0. /\ TypeOK /\ AttemptOK(a) /\ PartOK(a)
      /\ a \in Objects /\ 0 \in Objects /\ a # 0
    BY Known DEF Accounts
<1>a. PICK B : B = ToDo(a, "batch")
    OBVIOUS
<1>b. PICK D : D = ToDo(a, "direct")
    OBVIOUS
<1>1. /\ UNCHANGED <<run, att, conn, cap, plan>> /\ pc[a] = "sweep" /\ ~Refused(a)
      /\ row' = [o \in Objects |-> IF o \in B THEN NoRow ELSE row[o]]
      /\ store' = Erased(a, B \cup D)
    BY <1>a, <1>b DEF Sweep, journal
<1>2. /\ \A o \in Objects : o \in B => row'[o].status = "NONE"
      /\ \A o \in Objects : o \notin B => row'[o] = row[o]
    BY <1>1 DEF NoRow
<1>3. /\ \A o \in Objects : o \in B \cup D /\ Stored(a, o) => store'[o].ver = 0 /\ ~store'[o].retried
      /\ \A o \in Objects : ~(o \in B \cup D /\ Stored(a, o)) => store'[o] = store[o]
    BY <1>1 DEF Erased, NoBytes
<1>4. pc'[a] \in {"unclean", "raised"} /\ \A b \in Attempts \ {a} : pc'[b] = pc[b]
    <2>1. Goto(a, "unclean") \/ Goto(a, "raised")
        BY DEF Sweep
    <2> QED
        BY <2>1, GotoFacts DEF PublisherPc
<1>5. \A b \in Attempts \ {a} : b \in Objects /\ b \notin B /\ b \notin D
    BY <1>1, <1>a, <1>b, SweepFacts, Known
<1>6. \A b \in Attempts \ {a} : row'[b] = row[b] /\ store'[b] = store[b] /\ cap'[b] = cap[b]
                                /\ plan'[b] = plan[b] /\ conn'[b] = conn[b]
    BY <1>1, <1>2, <1>3, <1>5
<1>7. B # {} => Gate(a, B)
    BY <1>1, <1>a DEF Refused
<1>8. OfficialOK' /\ run'.official = run.official
    BY <1>1, NewestStays
<1>9. PartOK(a)'
    <2>1. store'[a].ver # 0 => store'[a] = store[a] /\ ~(a \in B \cup D /\ Stored(a, a))
        BY <1>0, <1>3
    <2>2. store'[a].ver # 0 /\ ~store'[a].retried => row[a].status # "NONE" /\ a \notin B
        <3> SUFFICES ASSUME store'[a].ver # 0, ~store'[a].retried PROVE row[a].status # "NONE" /\ a \notin B
            OBVIOUS
        <3>1. row[a].status # "NONE"
            BY <1>0, <1>1, <1>b, <2>1, LooseDirect DEF Loose
        <3>2. ASSUME a \in B PROVE FALSE
            <4>1. plan[a][a].what = "batch"
                BY <1>a, <3>2 DEF ToDo
            <4>2. plan[a][a].ver = cap[a][a].ver /\ cap[a][a].ver # 0 /\ store[a].ver \in {0, cap[a][a].ver}
                BY <1>0, <1>1, <3>1, <4>1 DEF PartOK
            <4> QED
                BY <2>1, <3>2, <4>2 DEF Stored
        <3> QED
            BY <3>1, <3>2
    <2>3. row'[a].status # "NONE" => row'[a] = row[a]
        BY <1>0, <1>2
    <2>4. store'[a].ver # 0 /\ ~store'[a].retried => cap[a][a].ver # 0 /\ row'[a].status # "NONE"
        BY <1>0, <1>2, <2>2 DEF PartOK
    <2>5. cap[a][a].ver # 0 => /\ store'[a].ver \in {0, cap[a][a].ver}
                               /\ cap[a][a].created \/ store'[a].ver = 0 \/ store'[a].retried
        BY <1>0, <2>1 DEF PartOK
    <2>6. store'[a].retried => cap[a][a].ver # 0
        BY <1>0, <1>3 DEF PartOK
    <2> QED
        BY <1>0, <1>1, <1>4, <2>3, <2>4, <2>5, <2>6 DEF PartOK, Loose
<1>10. SnapshotOK'
    <2> SUFFICES ASSUME Stray' PROVE \E b \in Attempts : Answers(b)'
        BY DEF SnapshotOK
    <2>1. /\ store'[0] = store[0] /\ ~(0 \in B \cup D /\ Stored(a, 0))
          /\ store[0].ver # 0 /\ ~store[0].retried
        BY <1>0, <1>3 DEF Stray
    <2>2. 0 \in B => row[0].status # "NONE" /\ row[0].ver # store[0].ver
        <3>1. 0 \in B => row[0].status # "NONE" /\ row[0].ver = plan[a][0].ver
            BY <1>7 DEF Gate
        <3> QED
            BY <2>1, <3>1 DEF Stored
    <2>3. Stray
        BY <1>0, <1>2, <2>1, <2>2 DEF Stray
    <2>4. PICK b \in Attempts : Answers(b)
        BY <2>3 DEF Accounts, SnapshotOK
    <2>5. b # a
        BY <1>1, <1>b, <2>1, <2>4, AnswersDirect
    <2>6. CASE 0 \notin B
        <3>1. row'[0] = row[0]
            BY <1>0, <1>2, <2>6
        <3>2. Answers(b)'
            BY <1>4, <1>6, <1>8, <2>1, <2>4, <2>5, <3>1, AnswerStays
        <3> QED
            BY <3>2
    <2>7. CASE 0 \in B
        <3>1. Free /\ Newest(a)
            BY <1>7, <2>7 DEF Gate
        <3>2. run.official # b
            <4>1. ASSUME run.official = b PROVE FALSE
                <5>1. Newest(b)
                    BY <4>1 DEF Accounts, OfficialOK
                <5>2. a <= b /\ b <= a /\ a \in Nat /\ b \in Nat
                    BY <3>1, <5>1, Known DEF Newest
                <5> QED
                    BY <2>5, <5>2, SMT
            <4> QED
                BY <4>1
        <3>3. conn[b] \notin {"held", "pending"}
            BY <3>1 DEF Free
        <3>4. Handles(b)
            BY <2>4, <3>2, <3>3 DEF Answers, Holds, Detached
        <3>5. Handles(b)'
            BY <1>4, <1>6, <1>8, <2>1, <2>5, <3>4 DEF Handles, Made, Detached, Uploaded
        <3> QED
            BY <3>5 DEF Answers
    <2> QED
        BY <2>6, <2>7
<1>11. ASSUME NEW b \in Attempts PROVE PartOK(b)'
    BY <1>4, <1>6, <1>9, PartStays DEF Accounts
<1> QED
    BY <1>8, <1>10, <1>11 DEF Accounts

\* A cleanup that fails part of the way.
LEMMA SweepFailsAccounts ==
    ASSUME IInv, Accounts, NEW a \in Attempts, SweepFails(a) PROVE Accounts'
<1>0. /\ TypeOK /\ AttemptOK(a) /\ PartOK(a)
      /\ a \in Objects /\ 0 \in Objects /\ a # 0
    BY Known DEF Accounts
<1>1. /\ UNCHANGED <<run, att, conn, cap, plan, row>> /\ pc[a] = "sweep" /\ ~Refused(a)
      /\ \E gone \in SUBSET (ToDo(a, "batch") \cup ToDo(a, "direct")) : store' = Erased(a, gone)
    BY DEF SweepFails
<1>2. PICK gone \in SUBSET (ToDo(a, "batch") \cup ToDo(a, "direct")) : store' = Erased(a, gone)
    BY <1>1
<1>3. \A o \in Objects : (store'[o].ver = 0 /\ ~store'[o].retried) \/ store'[o] = store[o]
    BY <1>2 DEF Erased, NoBytes
<1>4. \A b \in Attempts \ {a} : store'[b] = store[b]
    <2>1. \A b \in Attempts \ {a} : b \in Objects /\ b \notin gone
        BY <1>1, <1>2, SweepFacts, Known
    <2> QED
        BY <1>2, <2>1 DEF Erased
<1>5. pc'[a] \in {"unclean", "scan"} /\ \A b \in Attempts \ {a} : pc'[b] = pc[b]
    <2>1. Goto(a, "unclean") \/ Goto(a, "scan")
        BY DEF SweepFails
    <2> QED
        BY <2>1, GotoFacts DEF PublisherPc
<1>6. OfficialOK' /\ run'.official = run.official
    BY <1>1, NewestStays
<1>7. PartOK(a)'
    <2>1. (store'[a].ver = 0 /\ ~store'[a].retried) \/ store'[a] = store[a]
        BY <1>0, <1>3
    <2> QED
        BY <1>0, <1>1, <1>5, <2>1 DEF PartOK, Loose
<1>8. ~Stray' \/ (store'[0] = store[0] /\ Stray)
    BY <1>0, <1>1, <1>3 DEF Stray
<1>9. ~Stray' \/ (Answers(a) => Answers(a)')
    <2> SUFFICES ASSUME Stray', Answers(a) PROVE Handles(a)'
        BY DEF Answers
    <2>1. store'[0] = store[0] /\ Made(a)
        BY <1>1, <1>8, AnswersDirect
    <2>2. Made(a)'
        BY <1>1, <2>1 DEF Made
    <2> QED
        BY <1>5, <2>2 DEF Handles
<1> QED
    BY <1>1, <1>4, <1>5, <1>6, <1>7, <1>8, <1>9, AccountsStep

\* Every step keeps the accounts.
LEMMA AccountsNext ==
    ASSUME IInv, Accounts, [Next]_vars PROVE Accounts'
<1>1. ASSUME NEW a \in Attempts,
             \/ Claim(a) \/ Expire(a) \/ Recover(a) \/ Close(a)
             \/ Crash(a) \/ LoseConnection(a) \/ CommitResolves(a)
      PROVE  Accounts'
    BY <1>1, ClaimAccounts, LeaseAccounts, StopAccounts, LoseAccounts, ResolveAccounts
<1>2. ASSUME NEW a \in Attempts, Publisher(a) PROVE Accounts'
    BY <1>2, StopAccounts, PutAccounts, PutFailsAccounts, PutRetriedAccounts, RegisterAccounts, VerifyAccounts,
       FinishAccounts, CheckAccounts, ScanAccounts, SweepAccounts, SweepFailsAccounts DEF Publisher
<1>3. CASE RequestCancellation
    <2>1. 1 \in Attempts
        BY PublicationAssumption, SMT DEF Attempts
    <2> QED
        BY <1>3, <2>1, LeaseAccounts
<1>4. CASE UNCHANGED vars
    <2>1. /\ UNCHANGED <<run, att, store, row, cap, plan, pc, conn>>
        BY <1>4 DEF vars, objects, journal
    <2>2. OfficialOK'
        BY <2>1, NewestStays
    <2> QED
        BY <2>1, <2>2, QuietStep
<1> QED
    BY <1>1, <1>2, <1>3, <1>4 DEF Next

\* At first there is nothing to account for.
LEMMA AccountsInit == Init => Accounts
<1> SUFFICES ASSUME Init PROVE Accounts
    OBVIOUS
<1>1. 0 \in Objects /\ \A a \in Attempts : a \in Objects /\ a # 0
    BY PublicationAssumption, SMT DEF Attempts, Objects
<1>2. run.official = 0 /\ \A o \in Objects : store[o].ver = 0 /\ ~store[o].retried /\ row[o].status = "NONE"
    BY DEF Init, NoBytes, NoRow
<1>3. \A a \in Attempts : pc[a] = "idle" /\ cap[a][a].ver = 0
    BY <1>1 DEF Init, NotSeen
<1>4. SnapshotOK /\ OfficialOK
    BY <1>1, <1>2 DEF SnapshotOK, Stray, OfficialOK
<1> QED
    BY <1>1, <1>2, <1>3, <1>4 DEF Accounts, PartOK, Loose

\* The accounts are kept throughout.
THEOREM AccountsKept == Spec => []Accounts
BY AccountsInit, AccountsNext, Invariance, PTL DEF Spec

\* Bytes that no row names are an artifact of an attempt whose publisher is still at work, has
\* crashed, or has reported that it could not clean up: cleanup never reports that all is
\* clean while it leaves an upload behind, other than one its own retry reconciled.
THEOREM UploadsAreAccounted == Spec => []UploadsAccounted
<1>1. IInv /\ Accounts => UploadsAccounted
    <2> SUFFICES ASSUME IInv, Accounts, NEW o \in Objects, store[o].ver # 0, ~store[o].retried,
                        row[o].status = "NONE"
                 PROVE  \E a \in Attempts :
                            o \in Artifacts(a) /\ pc[a] \notin {"idle", "lock", "done", "cancelled", "raised"}
        BY DEF UploadsAccounted
    <2>1. CASE o = 0
        <3>1. PICK a \in Attempts : Answers(a)
            BY <2>1 DEF Accounts, SnapshotOK, Stray
        <3>2. Handles(a)
            BY <2>1, <3>1 DEF Answers
        <3>3. pc[a] \notin {"idle", "lock", "done", "cancelled", "raised"}
            BY <3>2 DEF Handles, Open
        <3>4. o \in Artifacts(a)
            BY <2>1, Known
        <3> QED
            BY <3>3, <3>4
    <2>2. CASE o # 0
        <3>1. o \in Attempts
            BY <2>2, PublicationAssumption, SMT DEF Objects, Attempts
        <3>2. PICK a \in Attempts : a = o
            BY <3>1
        <3>3. PartOK(a) /\ Loose(a)
            BY <3>2 DEF Accounts, Loose
        <3>4. a \in Artifacts(a)
            BY Known
        <3> QED
            BY <3>2, <3>3, <3>4 DEF PartOK
    <2> QED
        BY <2>1, <2>2
<1> QED
    BY <1>1, Invariance, AccountsKept, PTL
=============================================================================
