----------------------------- MODULE LaneScheduler -----------------------------
(***************************************************************************)
(* BacktestLaneScheduler: one thread that polls the lanes' queues round    *)
(* robin and submits what it receives to a thread pool, within a limit per *)
(* lane and a global limit.                                                *)
(*                                                                         *)
(* run is the loop reap -> poll -> wait, and drain once a stop is seen.    *)
(* Jobs end, messages arrive, time passes and a stop is requested between  *)
(* any two of its steps.  Reaping is one step: a future that completes     *)
(* while _reap_completed iterates can be taken to complete just after it.  *)
(***************************************************************************)
EXTENDS Integers, Sequences, FiniteSets

CONSTANTS
    Lanes,
    LaneOrder,    \* _lanes, a tuple
    Limit,        \* lane_limits
    GlobalLimit,
    Backoff,      \* receive_backoff_seconds, in ticks
    MaxBackoff,   \* max_receive_backoff_seconds, in ticks
    MaxFailures,  \* bound: failures counted; by then the delay is MaxBackoff
    Futures       \* bound: the Future objects that may exist at once

ASSUME SchedulerAssumption ==
    /\ LaneOrder \in Seq(Lanes) /\ LaneOrder # <<>>
    /\ \A l \in Lanes : \E k \in DOMAIN LaneOrder : LaneOrder[k] = l
    /\ Limit \in [Lanes -> Nat \ {0}]
    /\ GlobalLimit \in Nat \ {0}
    /\ Backoff \in Nat \ {0} /\ MaxBackoff \in Nat /\ MaxBackoff >= Backoff
    /\ MaxFailures \in Nat \ {0}

VARIABLES
    phase,     \* where run is
    cursor,    \* _cursor
    empty,     \* empty_lanes of the poll under way
    futures,   \* _futures: each future's lane and how far its job is
    active,    \* _active_by_lane
    failures,  \* _failure_count
    retry,     \* ticks until _retry_at
    waiting,   \* lanes with a message in their queue
    stop       \* the stop event is set

schedulerVars == <<phase, cursor, empty, futures, active, failures, retry, waiting, stop>>
--------------------------------------------------------------------------------
Phase == {"reap", "poll", "wait", "drain", "stopped"}
Future == [lane : Lanes, job : {"running", "returned", "raised"}]

With(l, jobs) == {f \in DOMAIN futures : futures[f].lane = l /\ futures[f].job \in jobs}

Smaller(a, b) == IF a < b THEN a ELSE b

\* The delay _record_lane_failure sets after n failures in a row.
Delay(n) == Smaller(MaxBackoff, Backoff * 2^Smaller(n - 1, 30))

\* _record_lane_failure, for some lanes and how often each.
RecordLaneFailures(times) ==
    /\ failures' = [l \in Lanes |-> Smaller(failures[l] + times[l], MaxFailures)]
    /\ retry' = [l \in Lanes |-> IF times[l] = 0 THEN retry[l] ELSE Delay(failures[l] + times[l])]
--------------------------------------------------------------------------------
SchedulerInit ==
    /\ phase = "reap" /\ cursor = 0 /\ empty = {}
    /\ futures = [f \in {} |-> 0]
    /\ active = [l \in Lanes |-> 0]
    /\ failures = [l \in Lanes |-> 0]
    /\ retry = [l \in Lanes |-> 0]
    /\ waiting = {}
    /\ stop = FALSE

\* Defective variant: a job that raised keeps its lane's slot.
ReapLeaks ==
    /\ futures' = [f \in {g \in DOMAIN futures : futures[g].job = "running"} |-> futures[f]]
    /\ active' = [l \in Lanes |-> active[l] - Cardinality(With(l, {"returned"}))]
    /\ RecordLaneFailures([l \in Lanes |-> Cardinality(With(l, {"raised"}))])

\* Every completed future gives its slot back; a job that raised backs its lane off.
ReapCompleted ==
    /\ futures' = [f \in {g \in DOMAIN futures : futures[g].job = "running"} |-> futures[f]]
    /\ active' = [l \in Lanes |-> active[l] - Cardinality(With(l, {"returned", "raised"}))]
    /\ RecordLaneFailures([l \in Lanes |-> Cardinality(With(l, {"raised"}))])

\* poll_once begins; after a stop it does nothing more, and run leaves its loop.
Reap ==
    /\ phase = "reap"
    /\ ReapCompleted
    /\ phase' = IF stop THEN "drain" ELSE "poll"
    /\ empty' = {}
    /\ UNCHANGED <<cursor, waiting, stop>>

Eligible(l) == l \notin empty /\ retry[l] = 0 /\ active[l] < Limit[l]

Turn(k) == LaneOrder[((cursor + k) % Len(LaneOrder)) + 1]

Offsets == 0..(Len(LaneOrder) - 1)

\* Defective variant: every search starts at the first lane.
FirstEligibleLane(l) ==
    /\ phase = "poll" /\ Cardinality(DOMAIN futures) < GlobalLimit
    /\ \E k \in Offsets :
          /\ l = Turn(k) /\ Eligible(l)
          /\ \A j \in 0..(k - 1) : ~Eligible(Turn(j))
    /\ cursor' = 0

\* The poll goes on with lane l, the first eligible one from the cursor on.
NextEligibleLane(l) ==
    /\ phase = "poll" /\ Cardinality(DOMAIN futures) < GlobalLimit
    /\ \E k \in Offsets :
          /\ l = Turn(k) /\ Eligible(l)
          /\ \A j \in 0..(k - 1) : ~Eligible(Turn(j))
          /\ cursor' = (cursor + k + 1) % Len(LaneOrder)

ReceiveRaises(l) ==
    /\ NextEligibleLane(l)
    /\ RecordLaneFailures([m \in Lanes |-> IF m = l THEN 1 ELSE 0])
    /\ empty' = empty \cup {l}
    /\ UNCHANGED <<phase, futures, active, waiting, stop>>

ClearLaneFailure(l) ==
    /\ failures' = [failures EXCEPT ![l] = 0]
    /\ retry' = [retry EXCEPT ![l] = 0]

ReceiveNothing(l) ==
    /\ NextEligibleLane(l) /\ l \notin waiting
    /\ ClearLaneFailure(l)
    /\ empty' = empty \cup {l}
    /\ UNCHANGED <<phase, futures, active, waiting, stop>>

ReceiveMessage(l) ==
    /\ NextEligibleLane(l) /\ l \in waiting
    /\ ClearLaneFailure(l)
    /\ waiting' = waiting \ {l}
    /\ active' = [active EXCEPT ![l] = @ + 1]
    /\ \E f \in Futures \ DOMAIN futures :
          futures' = [g \in DOMAIN futures \cup {f} |->
                        IF g = f THEN [lane |-> l, job |-> "running"] ELSE futures[g]]
    /\ UNCHANGED <<phase, empty, stop>>

PollEnds ==
    /\ phase = "poll"
    /\ \/ Cardinality(DOMAIN futures) >= GlobalLimit
       \/ \A l \in Lanes : ~Eligible(l)
    /\ phase' = "wait"
    /\ UNCHANGED <<cursor, empty, futures, active, failures, retry, waiting, stop>>

\* However long run waits, it looks at the stop event next.
Wait ==
    /\ phase = "wait"
    /\ phase' = IF stop THEN "drain" ELSE "reap"
    /\ UNCHANGED <<cursor, empty, futures, active, failures, retry, waiting, stop>>

\* Defective variant: it waits for the futures and does not reap them.
DrainUnreaped ==
    /\ phase = "drain"
    /\ phase' = IF DOMAIN futures = {} THEN "stopped" ELSE phase
    /\ UNCHANGED <<cursor, empty, futures, active, failures, retry, waiting, stop>>

\* wait_for_idle without a timeout, then the executor shuts down.
Drain ==
    /\ phase = "drain"
    /\ IF DOMAIN futures = {}
       THEN phase' = "stopped" /\ UNCHANGED <<futures, active, failures, retry>>
       ELSE UNCHANGED phase /\ ReapCompleted
    /\ UNCHANGED <<cursor, empty, waiting, stop>>

RequestStop ==
    /\ ~stop
    /\ stop' = TRUE
    /\ UNCHANGED <<phase, cursor, empty, futures, active, failures, retry, waiting>>
--------------------------------------------------------------------------------
(* The environment: pool threads, queues, time.                            *)

JobEnds(f) ==
    /\ futures[f].job = "running"
    /\ \E job \in {"returned", "raised"} : futures' = [futures EXCEPT ![f].job = job]
    /\ UNCHANGED <<phase, cursor, empty, active, failures, retry, waiting, stop>>

Arrive(l) ==
    /\ waiting' = waiting \cup {l}
    /\ UNCHANGED <<phase, cursor, empty, futures, active, failures, retry, stop>>

Tick ==
    /\ retry' = [l \in Lanes |-> IF retry[l] = 0 THEN 0 ELSE retry[l] - 1]
    /\ UNCHANGED <<phase, cursor, empty, futures, active, failures, waiting, stop>>

Poll == \/ \E l \in Lanes : ReceiveRaises(l) \/ ReceiveNothing(l) \/ ReceiveMessage(l)
        \/ PollEnds

SchedulerNext ==
    \/ Reap \/ Poll \/ Wait \/ Drain
    \/ RequestStop
    \/ \E f \in DOMAIN futures : JobEnds(f)
    \/ \E l \in Lanes : Arrive(l)
    \/ Tick

SchedulerSpec == SchedulerInit /\ [][SchedulerNext]_schedulerVars

\* The scheduler's thread runs, jobs end (an attempt is bounded by its limits), time
\* passes, and a queue with a message does not fail or hide it at every receive.
Fairness ==
    /\ WF_schedulerVars(Reap \/ Poll \/ Wait \/ Drain)
    /\ \A f \in Futures : WF_schedulerVars(f \in DOMAIN futures /\ JobEnds(f))
    /\ WF_schedulerVars(Tick)
    /\ \A l \in Lanes : SF_schedulerVars(ReceiveMessage(l))

FairSchedulerSpec == SchedulerSpec /\ Fairness
--------------------------------------------------------------------------------
(* Properties.                                                             *)

\* The types of the scheduler's fields.
SchedulerTypeOK ==
    /\ phase \in Phase /\ cursor \in Offsets /\ empty \subseteq Lanes
    /\ DOMAIN futures \subseteq Futures
    /\ \A f \in DOMAIN futures : futures[f] \in Future
    /\ active \in [Lanes -> Nat]
    /\ failures \in [Lanes -> 0..MaxFailures]
    /\ retry \in [Lanes -> 0..MaxBackoff]
    /\ waiting \subseteq Lanes /\ stop \in BOOLEAN

\* Both budgets hold however jobs end between polls: the lane counters equal the futures
\* they count, no lane exceeds its limit, and no more jobs are in hand than the pool has
\* threads, so a received message never waits for one while it is invisible.
SlotsBounded ==
    /\ Cardinality(DOMAIN futures) <= GlobalLimit
    /\ \A l \in Lanes :
          /\ active[l] = Cardinality({f \in DOMAIN futures : futures[f].lane = l})
          /\ active[l] <= Limit[l]

\* A message waiting in a lane is received, however busy the other lanes are and however
\* often jobs and receives fail, unless the scheduler is asked to stop.
NoStarvation == \A l \in Lanes : (l \in waiting) ~> (l \notin waiting \/ stop)

\* Work already received is drained and the scheduler stops once it is asked to.
StopCompletes == stop ~> (phase = "stopped")

\* request_stop stops receiving new work.  The code does not ensure it.
NoReceiveAfterStop == [][stop => \A l \in Lanes : active'[l] <= active[l]]_schedulerVars
================================================================================
