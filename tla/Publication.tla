----------------------------- MODULE Publication -----------------------------
(***************************************************************************)
(* How the attempts of one run publish its result: the object store, the   *)
(* rows of storage.objects and who may compensate them, and                *)
(* DurableResultPublisher with its cleanup.                                *)
(*                                                                         *)
(* The publisher holds the run row FOR UPDATE from its first statement to  *)
(* its commit, and meanwhile uploads and registers objects through short   *)
(* transactions of their own.  After an error the row is free again, and   *)
(* the publisher first reads what it left behind and then removes it.      *)
(*                                                                         *)
(* The bytes of the result snapshot do not depend on when it was computed, *)
(* so every attempt publishes the same object, 0.  A detail part names its *)
(* result manifest, which does, so attempt a has a part of its own, a.     *)
(* One part stands for all of them: they differ in nothing but their key.  *)
(***************************************************************************)
EXTENDS Naturals, FiniteSets

CONSTANTS MaxAttempts,   \* attempts that the run may have
          MaxTries,      \* tries of _cleanup_artifacts: 3 in the code
          Providers,     \* the object stores considered: "S3" (versioned) and "LOCAL"
          MaxFaults      \* bound: crashes, lost connections, failed calls, expired leases

ASSUME PublicationAssumption ==
    /\ MaxAttempts \in Nat \ {0} /\ MaxTries \in Nat \ {0} /\ MaxFaults \in Nat
    /\ Providers \subseteq {"S3", "LOCAL"}

Attempts == 1..MaxAttempts

Objects == 0..MaxAttempts

\* _artifact_identities: what attempt a publishes; _write publishes 0 first.
Artifacts(a) == {0, a}

Terminal == {"COMPLETED", "FAILED", "CANCELLED"}

VARIABLES provider, \* the object store in use
          run,      \* status, cancel, and the attempt whose result is official, or 0
          att,      \* att[a]: status of the attempt, and whether its lease is live
          store,    \* store[o]: the provider version, 0 if none, whether it is good, and
                    \* whether the write that made it was answered only as a retry
          row,      \* row[o]: the row of storage.objects and the attempt that owns it
          version,  \* provider versions handed out so far
          pc,       \* pc[a]: where the publisher of attempt a is
          err,      \* err[a]: what the failure under way means for a retry
          conn,     \* conn[a]: the publisher's transaction on the run row
          cap,      \* cap[a][o]: captured uploads
          plan,     \* plan[a][o]: what cleanup means to do about an artifact
          tries, faults

vars == <<provider, run, att, store, row, version, pc, err, conn, cap, plan, tries, faults>>

NoBytes == [ver |-> 0, good |-> TRUE, retried |-> FALSE]

NoRow == [status |-> "NONE", ver |-> 0, owner |-> 0]

NotSeen == [ver |-> 0, created |-> FALSE, owned |-> FALSE]

Nothing == [what |-> "skip", ver |-> 0, foreign |-> FALSE]

Init ==
    /\ provider \in Providers
    /\ run = [status |-> "QUEUED", cancel |-> FALSE, official |-> 0]
    /\ att = [a \in Attempts |-> [status |-> "NONE", live |-> FALSE]]
    /\ store = [o \in Objects |-> NoBytes]
    /\ row = [o \in Objects |-> NoRow]
    /\ version = 0
    /\ pc = [a \in Attempts |-> "idle"]
    /\ err = [a \in Attempts |-> "none"]
    /\ conn = [a \in Attempts |-> "none"]
    /\ cap = [a \in Attempts |-> [o \in Objects |-> NotSeen]]
    /\ plan = [a \in Attempts |-> [o \in Objects |-> Nothing]]
    /\ tries = [a \in Attempts |-> 0]
    /\ faults = 0

Claimed == {a \in Attempts : att[a].status # "NONE"}

Newest(a) == a \in Claimed /\ \A b \in Claimed : b <= a

Live(a) == att[a].status = "RUNNING" /\ att[a].live

\* Nobody holds the run row FOR UPDATE.
Free == \A a \in Attempts : conn[a] \notin {"held", "pending"}

Fault == faults < MaxFaults /\ faults' = faults + 1

Goto(a, where) == pc' = [pc EXCEPT ![a] = where]

\* The foreign keys that target storage.objects: detail_manifests of the official result.
Referenced == IF run.official = 0 THEN {} ELSE {run.official}

objects == <<store, row, version>>

\* A versioned bucket names every write; the local store names the content.
NextVersion == IF provider = "S3" THEN version + 1 ELSE 1

Bytes(good, retried) == [ver |-> NextVersion, good |-> good, retried |-> retried]

journal == <<cap, plan, tries>>

---------------------------------------------------------------------------
(* The attempts and the owner, as far as publication sees them.            *)

\* claim_run_attempt: an expired predecessor is closed with the claim.
Claim(a) ==
    /\ Free /\ ~run.cancel
    /\ att[a].status = "NONE" /\ \A b \in 1..(a - 1) : att[b].status # "NONE"
    /\ \/ run.status = "QUEUED"
       \/ a > 1 /\ run.status = "RUNNING" /\ att[a - 1].status = "RUNNING" /\ ~att[a - 1].live
    /\ att' = [b \in Attempts |->
                  IF b = a THEN [status |-> "RUNNING", live |-> TRUE]
                  ELSE IF att[b].status = "RUNNING" THEN [status |-> "FAILED", live |-> FALSE]
                  ELSE att[b]]
    /\ run' = [run EXCEPT !.status = "RUNNING"]
    /\ Goto(a, "lock")
    /\ UNCHANGED <<provider, objects, journal, err, conn, faults>>

\* The lease of a process that has died, or whose heartbeats fail, runs out.
Expire(a) ==
    /\ Live(a)
    /\ IF pc[a] = "crashed" THEN UNCHANGED faults ELSE Fault
    /\ att' = [att EXCEPT ![a].live = FALSE]
    /\ UNCHANGED <<provider, run, objects, journal, pc, err, conn>>

\* recover_expired_run_attempt and what _recover_candidate makes of the run.
Recover(a) ==
    /\ Free /\ Newest(a) /\ att[a].status = "RUNNING" /\ ~att[a].live
    /\ LET to == IF run.cancel THEN "CANCELLED" ELSE "FAILED" IN
         /\ att' = [att EXCEPT ![a] = [status |-> to, live |-> FALSE]]
         /\ run' = [run EXCEPT !.status = IF run.cancel \/ a = MaxAttempts THEN to ELSE "QUEUED"]
    /\ UNCHANGED <<provider, objects, journal, pc, err, conn, faults>>

\* The worker closes the attempt of a publisher that raised.
Close(a) ==
    /\ Free /\ Live(a) /\ pc[a] \in {"raised", "unclean"}
    /\ att' = [att EXCEPT ![a] = [status |-> "FAILED", live |-> FALSE]]
    /\ run' = [run EXCEPT !.status = IF err[a] = "conflict" THEN "FAILED"
                                     ELSE IF run.cancel THEN @ ELSE "QUEUED"]
    /\ UNCHANGED <<provider, objects, journal, pc, err, conn, faults>>

RequestCancellation ==
    /\ Free /\ run.status \notin Terminal /\ ~run.cancel
    /\ run' = [run EXCEPT !.cancel = TRUE,
                          !.status = IF @ = "QUEUED" THEN "CANCELLED" ELSE @]
    /\ UNCHANGED <<provider, att, objects, journal, pc, err, conn, faults>>

Crash(a) ==
    /\ pc[a] \notin {"idle", "done", "cancelled", "raised", "unclean", "crashed"}
    /\ Fault
    /\ Goto(a, "crashed")
    /\ conn' = [conn EXCEPT ![a] = IF @ = "pending" THEN @ ELSE "none"]
    /\ UNCHANGED <<provider, run, att, objects, journal, err>>

\* The server drops the connection; the publisher notices at its next statement.
LoseConnection(a) ==
    /\ conn[a] = "held"
    /\ Fault
    /\ conn' = [conn EXCEPT ![a] = "lost"]
    /\ UNCHANGED <<provider, run, att, objects, journal, pc, err>>

---------------------------------------------------------------------------
(* Publishing.                                                             *)

\* An exception leaves the transaction and cleanup begins; once the detail parts are
\* published it is preceded by _already_completed_publication.
Raise(a, why) ==
    /\ Goto(a, IF pc[a] = "finish" THEN "check" ELSE "scan")
    /\ err' = [err EXCEPT ![a] = why]
    /\ conn' = [conn EXCEPT ![a] = "none"]

Lock(a) ==
    /\ pc[a] = "lock" /\ Free /\ ~run.cancel
    /\ conn' = [conn EXCEPT ![a] = "held"]
    /\ Goto(a, "put")
    /\ UNCHANGED <<provider, run, att, objects, journal, err, faults>>

\* Nothing is captured yet, so cleanup deletes nothing: it refuses bytes no row names,
\* and rows whose bytes are gone or bad.
NothingAmbiguous(a) ==
    \A o \in Artifacts(a) :
        IF row[o].status = "NONE" THEN store[o].ver = 0
        ELSE store[o].ver = row[o].ver /\ store[o].good

\* A cancellation committed before the lock: the attempt is closed as cancelled.
LockCancelled(a) ==
    /\ pc[a] = "lock" /\ Free /\ run.cancel
    /\ IF NothingAmbiguous(a) /\ Live(a) /\ run.status = "RUNNING"
       THEN /\ att' = [att EXCEPT ![a] = [status |-> "CANCELLED", live |-> FALSE]]
            /\ run' = [run EXCEPT !.status = "CANCELLED"]
            /\ Goto(a, "cancelled")
            /\ UNCHANGED err
       ELSE /\ Goto(a, IF NothingAmbiguous(a) THEN "raised" ELSE "unclean")
            /\ err' = [err EXCEPT ![a] = "conflict"]
            /\ UNCHANGED <<run, att>>
    /\ UNCHANGED <<provider, objects, journal, conn, faults>>

\* The object that the publisher is at.
Current(a) == IF cap[a][0].ver = 0 THEN 0 ELSE a

Captured(o, created) == [ver |-> store'[o].ver, created |-> created, owned |-> FALSE]

\* LocalObjectStore.put hashes what it finds, and what it has written.  The metadata of S3
\* does not show that a write was torn.
LocalRefuses(o) == provider = "LOCAL" /\ ~store'[o].good

\* ObjectStore.put: stored bytes with this hash are reconciled, or a version is created.
Put(a) ==
    LET o == Current(a) IN
    /\ pc[a] = "put"
    /\ IF store[o].ver # 0
       THEN UNCHANGED <<store, version, faults>>
       ELSE /\ version' = NextVersion
            /\ \E good \in BOOLEAN :
                  /\ IF good THEN UNCHANGED faults ELSE Fault
                  /\ store' = [store EXCEPT ![o] = Bytes(good, FALSE)]
    /\ IF LocalRefuses(o)
       THEN /\ Raise(a, IF o = a \/ store[o].ver # 0 THEN "conflict" ELSE "retry")
            /\ UNCHANGED cap
       ELSE /\ cap' = [cap EXCEPT ![a][o] = Captured(o, store[o].ver = 0)]
            /\ Goto(a, "register")
            /\ UNCHANGED <<err, conn>>
    /\ UNCHANGED <<provider, run, att, row, plan, tries>>

\* The put fails, and the bytes may have arrived all the same.
PutFails(a) ==
    LET o == Current(a) IN
    /\ pc[a] = "put" /\ Fault
    /\ \/ UNCHANGED <<store, version>>
       \/ /\ store[o].ver = 0
          /\ version' = NextVersion
          /\ store' = [store EXCEPT ![o] = Bytes(TRUE, FALSE)]
    /\ Raise(a, "retry")
    /\ UNCHANGED <<provider, run, att, row, cap, plan, tries>>

\* S3ObjectStore.put: the write succeeds and its answer is lost.  The retry meets the
\* precondition that the key is new, finds the bytes just written and takes them for
\* somebody else's: reconciled, not created.
PutRetried(a) ==
    LET o == Current(a) IN
    /\ pc[a] = "put" /\ provider = "S3" /\ store[o].ver = 0 /\ Fault
    /\ version' = NextVersion
    /\ store' = [store EXCEPT ![o] = Bytes(TRUE, TRUE)]
    /\ cap' = [cap EXCEPT ![a][o] = Captured(o, FALSE)]
    /\ Goto(a, "register")
    /\ UNCHANGED <<provider, run, att, row, err, conn, plan, tries>>

\* The object whose upload was captured last.
Uploaded(a) == IF cap[a][a].ver = 0 THEN 0 ELSE a

\* reissue_backtest_object_cleanup: the attempt's own object or its direct predecessor's,
\* unless a committed manifest refers to it.
Reissuable(a, o) ==
    /\ row[o].owner \in {a, a - 1} \ {0}
    /\ o \notin Referenced

\* What registering object o leaves: a STAGED row, owned if this attempt made the bytes,
\* or the row that is there, with its ownership perhaps taken over.
Registered(a, o) ==
    IF row[o].status = "NONE"
    THEN [status |-> "STAGED", ver |-> cap[a][o].ver, owner |-> IF cap[a][o].created THEN a ELSE 0]
    ELSE [row[o] EXCEPT !.owner = IF Reissuable(a, o) THEN a ELSE @]

\* The trigger asks for a live attempt, and so does a reissue; a row that is reused as it
\* is asks for nothing.
RegisterAllowed(a, o) ==
    Live(a) \/ (row[o].status # "NONE" /\ row[o].owner \notin {a, a - 1} \ {0})

Register(a) ==
    LET o == Uploaded(a) IN
    /\ pc[a] = "register"
    /\ IF RegisterAllowed(a, o)
       THEN /\ row' = [row EXCEPT ![o] = Registered(a, o)]
            /\ cap' = [cap EXCEPT ![a][o].owned = Registered(a, o).owner = a]
            /\ Goto(a, "verify")
            /\ UNCHANGED <<err, conn>>
       ELSE /\ Raise(a, IF row[o].status = "NONE" THEN "retry" ELSE "conflict")
            /\ UNCHANGED <<row, cap>>
    /\ UNCHANGED <<provider, run, att, store, version, plan, tries, faults>>

\* The registration fails, or commits and its acknowledgement is lost: no token is kept.
RegisterFails(a) ==
    LET o == Uploaded(a) IN
    /\ pc[a] = "register" /\ Fault
    /\ \/ UNCHANGED row
       \/ RegisterAllowed(a, o) /\ row' = [row EXCEPT ![o] = Registered(a, o)]
    /\ Raise(a, "retry")
    /\ UNCHANGED <<provider, run, att, store, version, cap, plan, tries>>

\* The stored bytes are hashed again; good ones are promoted, others quarantined.
Verify(a) ==
    LET o == Uploaded(a)
        good == store[o].ver # 0 /\ store[o].good
        from == IF good THEN {"STAGED"} ELSE {"STAGED", "AVAILABLE"}
        to == IF good THEN "AVAILABLE" ELSE "QUARANTINED"
        ok == Live(a) /\ row[o].status \in from \cup {to}
    IN
    /\ pc[a] = "verify"
    /\ row' = IF ok THEN [row EXCEPT ![o].status = to] ELSE row
    /\ IF ok /\ good
       THEN Goto(a, IF o = a THEN "finish" ELSE "put") /\ UNCHANGED <<err, conn>>
       ELSE Raise(a, IF o = a \/ (Live(a) /\ ~ok) THEN "conflict" ELSE "retry")
    /\ UNCHANGED <<provider, run, att, store, version, journal, faults>>

\* publish_completed_run: close_fenced, require_available and the run's status.
CanComplete(a) == Live(a) /\ run.status = "RUNNING" /\ row[a].status = "AVAILABLE"

Completed(a) ==
    /\ run' = [run EXCEPT !.status = "COMPLETED", !.official = a]
    /\ att' = [att EXCEPT ![a] = [status |-> "SUCCEEDED", live |-> FALSE]]

Finish(a) ==
    /\ pc[a] = "finish"
    /\ IF conn[a] = "held" /\ CanComplete(a)
       THEN /\ Completed(a)
            /\ Goto(a, "done")
            /\ conn' = [conn EXCEPT ![a] = "none"]
            /\ UNCHANGED err
       ELSE Raise(a, IF conn[a] = "held" THEN "conflict" ELSE "retry") /\ UNCHANGED <<run, att>>
    /\ UNCHANGED <<provider, objects, journal, faults>>

\* The connection breaks during COMMIT: the server may still be at it.
CommitUnknown(a) ==
    /\ pc[a] = "finish" /\ conn[a] = "held" /\ CanComplete(a) /\ Fault
    /\ conn' = [conn EXCEPT ![a] = "pending"]
    /\ Goto(a, "check")
    /\ err' = [err EXCEPT ![a] = "retry"]
    /\ UNCHANGED <<provider, run, att, objects, journal>>

CommitResolves(a) ==
    /\ conn[a] = "pending"
    /\ conn' = [conn EXCEPT ![a] = "none"]
    /\ Completed(a) \/ UNCHANGED <<run, att>>
    /\ UNCHANGED <<provider, objects, journal, pc, err, faults>>

---------------------------------------------------------------------------
(* Compensation.                                                           *)

\* Defective variant: any completed publication is taken for this one.
CheckStatusOnly(a) ==
    /\ pc[a] = "check"
    /\ Goto(a, IF run.status = "COMPLETED" THEN "done" ELSE "scan")
    /\ UNCHANGED <<provider, run, att, objects, journal, err, conn, faults>>

\* _already_completed_publication: this very result is the official one.
Check(a) ==
    /\ pc[a] = "check"
    /\ Goto(a, IF run.official = a THEN "done" ELSE "scan")
    /\ UNCHANGED <<provider, run, att, objects, journal, err, conn, faults>>

CheckFails(a) ==
    /\ pc[a] = "check" /\ Fault
    /\ Goto(a, "unclean")
    /\ err' = [err EXCEPT ![a] = "retry"]
    /\ UNCHANGED <<provider, run, att, objects, journal, conn>>

\* What to do about artifact o, from the captured upload and the current row: delete it
\* with its row (batch) or without one (direct), or leave it and ask that it is there.
Planned(a, o) ==
    LET c == cap[a][o]
        r == row[o]
        same == r.status # "NONE" /\ r.ver = c.ver
        seen == [ver |-> IF c.ver = 0 THEN r.ver ELSE c.ver,
                 foreign |-> c.ver # 0 /\ r.status # "NONE" /\ ~same]
        todo(what) == [what |-> what, ver |-> seen.ver, foreign |-> seen.foreign]
    IN IF c.ver = 0 /\ r.status = "NONE"
       THEN todo(IF store[o].ver = 0 THEN "skip" ELSE "refuse")
       ELSE IF c.ver = 0 \/ (same /\ ~c.owned) \/ (~same /\ ~c.created) THEN todo("keep")
       ELSE IF same THEN todo("batch") ELSE todo("direct")

\* Defective variant: bytes that have no row are left where they are.
ScanRegistered(a) ==
    /\ pc[a] = "scan"
    /\ plan' = [plan EXCEPT ![a] =
                   [o \in Objects |->
                       IF o \in Artifacts(a) /\ Planned(a, o).what # "direct"
                       THEN Planned(a, o) ELSE Nothing]]
    /\ Goto(a, "sweep")
    /\ UNCHANGED <<provider, run, att, objects, err, conn, cap, tries, faults>>

Scan(a) ==
    /\ pc[a] = "scan"
    /\ plan' = [plan EXCEPT ![a] =
                   [o \in Objects |-> IF o \in Artifacts(a) THEN Planned(a, o) ELSE Nothing]]
    /\ Goto(a, "sweep")
    /\ UNCHANGED <<provider, run, att, objects, err, conn, cap, tries, faults>>

ToDo(a, what) == {o \in Objects : plan[a][o].what = what}

\* Defective variant: references are not looked for.
GateUnreferenced(a, B) ==
    /\ Free
    /\ Live(a) \/ att[a].status \in {"SUCCEEDED", "FAILED", "CANCELLED"}
    /\ Newest(a)
    /\ \A o \in B : row[o].status # "NONE" /\ row[o].ver = plan[a][o].ver /\ row[o].owner = a

\* Defective variant: a superseded attempt may compensate.
GateSuperseded(a, B) ==
    /\ Free
    /\ Live(a) \/ att[a].status \in {"SUCCEEDED", "FAILED", "CANCELLED"}
    /\ \A o \in B : row[o].status # "NONE" /\ row[o].ver = plan[a][o].ver /\ row[o].owner = a
    /\ B \cap Referenced = {}

\* prepare_backtest_object_cleanup, which locks the run row through the deletion.
Gate(a, B) ==
    /\ Free
    /\ Live(a) \/ att[a].status \in {"SUCCEEDED", "FAILED", "CANCELLED"}
    /\ Newest(a)
    /\ \A o \in B : row[o].status # "NONE" /\ row[o].ver = plan[a][o].ver /\ row[o].owner = a
    /\ B \cap Referenced = {}

Stored(a, o) == store[o].ver = plan[a][o].ver /\ store[o].ver # 0

\* preflight_delete of every object: what is there is unchanged, and what is kept is there.
Preflight(a) ==
    /\ \A o \in ToDo(a, "batch") \cup ToDo(a, "direct") \cup ToDo(a, "keep") :
          Stored(a, o) => store[o].good
    /\ \A o \in ToDo(a, "keep") : Stored(a, o)

Refused(a) ==
    \/ ToDo(a, "refuse") # {}
    \/ ToDo(a, "batch") # {} /\ ~Gate(a, ToDo(a, "batch"))
    \/ ~Preflight(a)

Erased(a, O) == [o \in Objects |-> IF o \in O /\ Stored(a, o) THEN NoBytes ELSE store[o]]

\* The rows and then the bytes go, and the deletion of the rows commits.
Sweep(a) ==
    /\ pc[a] = "sweep" /\ ~Refused(a)
    /\ row' = [o \in Objects |-> IF o \in ToDo(a, "batch") THEN NoRow ELSE row[o]]
    /\ store' = Erased(a, ToDo(a, "batch") \cup ToDo(a, "direct"))
    /\ IF \E o \in Artifacts(a) : plan[a][o].foreign
       THEN Goto(a, "unclean") /\ err' = [err EXCEPT ![a] = "conflict"]
       ELSE Goto(a, "raised") /\ UNCHANGED err
    /\ UNCHANGED <<provider, run, att, version, conn, journal, faults>>

\* RESULT_PUBLICATION_CLEANUP_CONFLICT: nothing was deleted.  A batch that waits for the
\* run row waits or times out.
SweepRefused(a) ==
    /\ pc[a] = "sweep" /\ Refused(a)
    /\ Goto(a, "unclean")
    /\ err' = [err EXCEPT ![a] = "conflict"]
    /\ UNCHANGED <<provider, run, att, objects, conn, journal, faults>>

\* A delete fails after some of the bytes have gone: the rows come back.  After MaxTries
\* the publisher gives up with RESULT_PUBLICATION_CLEANUP_FAILED.
SweepFails(a) ==
    /\ pc[a] = "sweep" /\ ~Refused(a) /\ Fault
    /\ \E gone \in SUBSET (ToDo(a, "batch") \cup ToDo(a, "direct")) : store' = Erased(a, gone)
    /\ tries' = [tries EXCEPT ![a] = @ + 1]
    /\ IF tries[a] + 1 = MaxTries
       THEN Goto(a, "unclean") /\ err' = [err EXCEPT ![a] = "retry"]
       ELSE Goto(a, "scan") /\ UNCHANGED err
    /\ UNCHANGED <<provider, run, att, row, version, conn, cap, plan>>

Publisher(a) ==
    \/ Lock(a) \/ LockCancelled(a)
    \/ Put(a) \/ PutFails(a) \/ PutRetried(a)
    \/ Register(a) \/ RegisterFails(a)
    \/ Verify(a)
    \/ Finish(a) \/ CommitUnknown(a)
    \/ Check(a) \/ CheckFails(a)
    \/ Scan(a) \/ Sweep(a) \/ SweepRefused(a) \/ SweepFails(a)

Next ==
    \/ RequestCancellation
    \/ \E a \in Attempts :
          \/ Claim(a) \/ Expire(a) \/ Recover(a) \/ Close(a)
          \/ Crash(a) \/ LoseConnection(a) \/ CommitResolves(a)
          \/ Publisher(a)

Spec == Init /\ [][Next]_vars

---------------------------------------------------------------------------
(* Properties.                                                             *)

AttemptRow == [status : {"NONE", "RUNNING", "SUCCEEDED", "FAILED", "CANCELLED"}, live : BOOLEAN]
Version == [ver : Nat, good : BOOLEAN, retried : BOOLEAN]
Registration == [status : {"NONE", "STAGED", "AVAILABLE", "QUARANTINED"}, ver : Nat, owner : Objects]
Capture == [ver : Nat, created : BOOLEAN, owned : BOOLEAN]
Todo == [what : {"skip", "refuse", "keep", "batch", "direct"}, ver : Nat, foreign : BOOLEAN]
PublisherPc == {"idle", "lock", "put", "register", "verify", "finish", "check", "scan", "sweep",
                "done", "cancelled", "raised", "unclean", "crashed"}

\* The types of the run, the attempts, the objects and the publishers.
TypeOK ==
    /\ provider \in Providers
    /\ run \in [status : {"QUEUED", "RUNNING"} \cup Terminal, cancel : BOOLEAN, official : Objects]
    /\ att \in [Attempts -> AttemptRow]
    /\ store \in [Objects -> Version]
    /\ row \in [Objects -> Registration]
    /\ version \in Nat
    /\ pc \in [Attempts -> PublisherPc]
    /\ err \in [Attempts -> {"none", "retry", "conflict"}]
    /\ conn \in [Attempts -> {"none", "held", "lost", "pending"}]
    /\ cap \in [Attempts -> [Objects -> Capture]]
    /\ plan \in [Attempts -> [Objects -> Todo]]
    /\ tries \in [Attempts -> Nat]
    /\ faults \in Nat

\* The detail parts of a COMPLETED run are there: their rows are AVAILABLE, and the store
\* holds the very version the row names, with good bytes.  No crash, lost acknowledgement
\* or cleanup of any attempt takes them away (_write, prepare_backtest_object_cleanup).
OfficialDetailsStored ==
    run.official # 0 =>
        LET o == run.official IN
        row[o].status = "AVAILABLE" /\ store[o].good /\ store[o].ver = row[o].ver /\ row[o].ver # 0

\* Compensation deletes a row only for the newest attempt and its owner, never one that
\* a committed manifest refers to, and never leaves the version it named behind
\* (cleanup_unreferenced_batch).
CompensationOwned ==
    [][\A o \in Objects :
          row[o].status # "NONE" /\ row'[o].status = "NONE" =>
              /\ o \notin Referenced
              /\ Newest(row[o].owner)
              /\ store'[o].ver # row[o].ver]_vars

\* Bytes that no row names are somebody's business: an attempt that could have made them
\* still works on it, has died, or has reported that its cleanup did not succeed.  A
\* publisher that raises its original error has left nothing unregistered behind, except
\* what it took for another's: a write whose answer was lost is reconciled by its own
\* retry, and when its registration fails cleanup keeps it (put, _cleanup_artifacts).
UploadsAccounted ==
    \A o \in Objects :
        store[o].ver # 0 /\ ~store[o].retried /\ row[o].status = "NONE" =>
            \E a \in Attempts :
                o \in Artifacts(a) /\ pc[a] \notin {"idle", "lock", "done", "cancelled", "raised"}

\* What the publisher reports is so: success means that its own result is the official
\* one, an error after a clean cleanup means that it is not, and neither does a cancelled
\* run have a result (_already_completed_publication, ResultPublicationCancelled).  The
\* exception is a part that its own retry reconciled: the attempt does not own it, so the
\* batch that the gate is asked about holds nothing a manifest refers to, and a commit
\* that lands after the check goes unnoticed.
ReportsAreTrue ==
    \A a \in Attempts :
        /\ pc[a] = "done" => run.official = a
        /\ pc[a] = "raised" => run.official # a \/ store[a].retried
        /\ pc[a] = "cancelled" => run.status = "CANCELLED" /\ run.official = 0

\* The comment on prepare_backtest_object_cleanup: the run row is held "through external
\* deletion", which "fences a successor attempt".  Then no attempt's compensation removes
\* bytes that a successor has registered and published: the objects of a COMPLETED run,
\* the result snapshot included, are in the store.
OfficialResultStored ==
    run.official # 0 => \A o \in Artifacts(run.official) : store[o].ver # 0
===============================================================================
