--------------------------------- MODULE Replay ---------------------------------
(***************************************************************************)
(* One official backtest: BacktestOrchestrator drives the compiled plan    *)
(* (BasicPlanReplay), the execution engine (ExecutionModelEngine over      *)
(* ExecutionModel) and the publisher across the pinned event stream.  At   *)
(* every instant the lease is renewed, the bars that close are settled,    *)
(* the positions are published, the plan is evaluated and its candidates   *)
(* are placed.                                                             *)
(*                                                                         *)
(* What a condition computes from prices is not modelled: it may pass or   *)
(* fail wherever the bars it looks back on are visible.                    *)
(***************************************************************************)
EXTENDS MarketData

CONSTANTS
    StrayRows,       \* rows a delivery may hold that no replay can read
    MaxMissing,      \* bound: expected rows that were not delivered
    MaxSignals,      \* bound: decisions that become candidates
    MaxErrors        \* bound: conditions that raise

VARIABLES
    pc,        \* where the orchestrator is
    feed,      \* the delivered rows; once assembled, the events, instants and assessment
    cursor,    \* the instant being replayed
    engine,    \* ExecutionModelEngine: _opened_at, _tracked_position_cycle (-1 for none),
               \* _peak_price (0 for none), _holding_bars, _latest_prices, _daily_marks, _records
    gates,     \* BasicPlanReplay: _execution_states, _position_identities and
               \* _last_schedule_session_date (0 for None)
    judged,    \* the compact evaluations
    outcome,   \* ReplayOutcome: status, reason_code and retryable
    used       \* signals and errors so far

replayVars == <<acct, now, bars, pc, feed, cursor, engine, gates, judged, outcome, used>>

Pairs == {<<n, i>> \in (DOMAIN Flows) \X Instruments : i \in Flows[n].instruments}
Resolutions == {q.resolution : q \in DataRequirements}
Fresh == [executions |-> 0, since |-> 0, last |-> 0, rearmed |-> TRUE]
Running == [status |-> "", reason |-> "", retryable |-> FALSE]

\* The delivery may lack rows or hold a stray one.
Deliveries ==
    {ExpectedRows \ lost : lost \in UNION {kSubset(k, ExpectedRows) : k \in 0..MaxMissing}}
    \cup {ExpectedRows \cup {row} : row \in StrayRows}

ReplayInit ==
    /\ Init
    /\ pc = "assemble"
    /\ feed \in {[rows |-> rows, events |-> <<>>, instants |-> <<>>,
                  assessment |-> [status |-> "", skips |-> {}]] : rows \in Deliveries}
    /\ cursor = 0
    /\ engine = [opened |-> [i \in Instruments |-> -1], cycle |-> [i \in Instruments |-> -1],
                 peak |-> Unmarked, holding |-> [q \in Instruments \X Resolutions |-> 0],
                 latest |-> Unmarked, marks |-> <<>>, records |-> <<>>]
    /\ gates = [states |-> [p \in Pairs |-> Fresh], identity |-> [i \in Instruments |-> -1],
                session |-> 0]
    /\ judged = <<>>
    /\ outcome = Running
    /\ used = [signals |-> 0, errors |-> 0]

Instant == feed.instants[cursor]
EventsAt(t) == SelectSeq(feed.events, LAMBDA e : e.ends = t)
--------------------------------------------------------------------------------
(* Assembly, and the end *)

End(status, reason, retryable) ==
    /\ pc' = "ended"
    /\ outcome' = [status |-> status, reason |-> reason, retryable |-> retryable]

\* The instants that _execute evaluates.
EvaluatedInstants(events) ==
    SortedSeq({t \in {e.ends : e \in ToSet(events)} : EvaluationFrom <= t /\ t < EvaluationThrough}, <)

\* run, with the events and their assessment: refused, or about to be replayed.
Admit(events, assessment) ==
    IF assessment.status = "UNAVAILABLE"
    THEN End("UNAVAILABLE", "REQUIRED_DATA_UNAVAILABLE", FALSE) /\ UNCHANGED feed
    ELSE /\ feed' = [rows |-> {}, events |-> events, instants |-> EvaluatedInstants(events),
                     assessment |-> assessment]
         /\ pc' = "beat"
         /\ UNCHANGED outcome

\* run, up to the first heartbeat.
Assemble ==
    /\ pc = "assemble"
    /\ IF \E row \in feed.rows : Unneeded(row) \/ Unreadable(row)
       THEN End("FAILED", "INPUT_DATASET_UNREADABLE", FALSE) /\ UNCHANGED feed
       ELSE LET events == EventStream(feed.rows) IN Admit(events, Assess(events))
    /\ UNCHANGED <<acct, now, bars, cursor, engine, gates, judged, used>>

\* A heartbeat that the coordinator accepts: before the replay (cursor 0), and at the
\* start of every instant.
Heartbeat ==
    /\ pc = "beat"
    /\ IF cursor > 0 THEN pc' = "settle" /\ UNCHANGED cursor
       ELSE IF feed.instants = <<>> THEN pc' = "publish" /\ UNCHANGED cursor
       ELSE pc' = "beat" /\ cursor' = 1
    /\ UNCHANGED <<acct, now, bars, feed, engine, gates, judged, outcome, used>>

\* _from_attempt_failure: the coordinator ended the attempt, by a cancellation or a limit.
AttemptFails ==
    /\ pc = "beat"
    /\ \/ End("CANCELLED", "CANCELLED", FALSE)
       \/ \E retryable \in BOOLEAN : End("FAILED", "LIMIT", retryable)
    /\ UNCHANGED <<acct, now, bars, feed, cursor, engine, gates, judged, used>>
--------------------------------------------------------------------------------
(* The engine: settling the bars that close *)

\* Defective variant: a closing bar fills whatever the gaps are.
FillableEventsIgnoreGap(t) == EventsAt(t)

\* The events of an instant whose bars may fill.  At the close the market is no longer
\* open, and what counts is the bar's own start.
FillableEvents(t) ==
    IF IsFillAllowed(feed.assessment, t) THEN EventsAt(t)
    ELSE IF SessionStatusAt(t) = "REGULAR_OPEN" THEN <<>>
    ELSE SelectSeq(EventsAt(t), LAMBDA e : IsFillAllowed(feed.assessment, e.starts))

Book(a) == [i \in Instruments |-> [quantity |-> Position(a, i), basis |-> CostBasis(a, i)]]

\* The records of the orders that expire when the bar begins, in _order_key order.
ExpiryRecords(before, after, b) ==
    LET gone == SortedSeq({k \in DOMAIN before.orders : before.orders[k] # after.orders[k]}, <)
    IN  [n \in DOMAIN gone |-> OrderResultRecord(after, gone[n], b.starts, after.cash, Book(after))]

\* The records of the fills, each with the cash and the positions after it.
FillRecords(before, after) ==
    LET Record(c, f) ==
          LET i == f.bar.instrument
              buy == after.orders[f.order].request.side = "BUY"
              quantity == c.book[i].quantity + (IF buy THEN f.quantity ELSE -f.quantity)
              cash == IF buy THEN c.cash - f.gross - f.fee ELSE c.cash + f.gross - f.fee
              book == [c.book EXCEPT ![i] =
                         IF quantity <= 0 THEN None
                         ELSE [quantity |-> quantity,
                               basis |-> IF buy THEN @.basis + f.basis ELSE @.basis - f.basis]]
          IN  [cash |-> cash, book |-> book,
               records |-> Append(c.records, FillResultRecord(after, f, cash, book))]
    IN  FoldLeft(Record, [cash |-> before.cash, book |-> Book(before), records |-> <<>>],
                 SubSeq(after.fills, Len(before.fills) + 1, Len(after.fills))).records

\* _clear_position_runtime.
ClearPositionRuntime(g, i) ==
    [g EXCEPT !.opened[i] = -1, !.cycle[i] = -1, !.peak[i] = 0,
              !.holding = [q \in DOMAIN @ |-> IF q[1] = i THEN 0 ELSE @[q]]]

\* settle, on the account, its clock and the engine: before is the account once the clock
\* is at the bar, after once the bar is processed.
Settled(s, b, before, after) ==
    LET i == b.instrument
        g == [s.engine EXCEPT
                !.records = @ \o ExpiryRecords(s.acct, before, b) \o FillRecords(before, after),
                !.opened[i] = IF Position(s.acct, i) <= 0 /\ Position(after, i) > 0
                              THEN b.starts ELSE @]
    IN  [acct |-> after, now |-> Greater(s.now, b.starts),
         engine |-> IF Position(after, i) <= 0 THEN ClearPositionRuntime(g, i) ELSE g]

Process(s, b, before) == Settled(s, b, before, Matched(before, b))

\* Whether the account, or the constructor of a record, has raised.
Raised(s) == s.acct.raised \/ \E r \in ToSet(s.engine.records) : ~ValidRecord(r)

\* The events of an instant are settled one after the other, until one raises.
SettleEvent(s, b) ==
    IF Raised(s) THEN s
    ELSE IF b.starts < s.now /\ b.ends < s.now THEN [s EXCEPT !.acct.raised = TRUE]
    ELSE Process(s, b, AdvanceToBar(s.acct, s.now, b))
--------------------------------------------------------------------------------
(* The engine: the values the plan reads of the positions *)

Held(a, i) == Position(a, i) > 0
PricedAt(t) == {e.instrument : e \in ToSet(EventsAt(t))}

\* _daily_marks: the last instant of a day keeps the latest price of what is held.
MarkedDay(g, a, t) ==
    LET mark == [day |-> DayOf(t), at |-> t,
                 marks |-> [i \in Instruments |-> IF Held(a, i) THEN g.latest[i] ELSE 0]]
    IN  IF g.marks # <<>> /\ Last(g.marks).day = mark.day
        THEN [g EXCEPT !.marks[Len(g.marks)] = mark]
        ELSE [g EXCEPT !.marks = Append(@, mark)]

AverageEntryPrice(a, i) == RoundHalfEven(CostBasis(a, i) * Share, Position(a, i))

\* A position opened since the last bar starts its counters from nothing.
TrackedCycles(g, a, t) ==
    LET fresh == {i \in PricedAt(t) : Held(a, i) /\ g.cycle[i] # g.opened[i]}
    IN  [g EXCEPT !.cycle = [i \in Instruments |-> IF i \in fresh THEN g.opened[i] ELSE @[i]],
                  !.peak = [i \in Instruments |-> IF i \in fresh THEN AverageEntryPrice(a, i) ELSE @[i]],
                  !.holding = [q \in DOMAIN @ |-> IF q[1] \in fresh THEN 0 ELSE @[q]]]

CountedBars(g, a, t) ==
    [g EXCEPT !.holding = [q \in DOMAIN @ |->
        @[q] + (IF Held(a, q[1])
                THEN Len(SelectSeq(EventsAt(t), LAMBDA e : e.instrument = q[1] /\ e.resolution = q[2]))
                ELSE 0)]]

PeakPrices(g, a, t) ==
    [g EXCEPT !.peak = [i \in Instruments |->
        IF Held(a, i) /\ i \in PricedAt(t) THEN Greater(@[i], g.latest[i]) ELSE @[i]]]

\* Defective variant: the bar that opened the position is counted before the reset.
RuntimeValuesLate(g, a, t) ==
    LET events == EventsAt(t)
        priced == [g EXCEPT !.latest = [i \in Instruments |->
                     IF i \in PricedAt(t) THEN Last(SelectSeq(events, LAMBDA e : e.instrument = i)).close
                     ELSE @[i]]]
    IN  PeakPrices(TrackedCycles(CountedBars(MarkedDay(priced, a, t), a, t), a, t), a, t)

\* runtime_values, on the engine.
RuntimeValues(g, a, t) ==
    LET events == EventsAt(t)
        priced == [g EXCEPT !.latest = [i \in Instruments |->
                     IF i \in PricedAt(t) THEN Last(SelectSeq(events, LAMBDA e : e.instrument = i)).close
                     ELSE @[i]]]
    IN  PeakPrices(CountedBars(TrackedCycles(MarkedDay(priced, a, t), a, t), a, t), a, t)

\* position.openedAt as runtime_values publishes it, -1 for an instrument it leaves out.
PublishedIdentity(g, a, t, i) == IF Held(a, i) /\ i \in PricedAt(t) THEN g.opened[i] ELSE -1

\* An exception of the engine leaves run without a ReplayOutcome; the worker's _invoke makes
\* a retry of it.
RunRaises == End("RAISED", "HANDLER_ERROR", TRUE)

\* The engine has settled the instant and publishes its values, unless it raised.
SettledAs(s) ==
    /\ acct' = s.acct
    /\ now' = s.now
    /\ IF Raised(s) THEN RunRaises /\ engine' = s.engine
       ELSE /\ engine' = RuntimeValues(s.engine, s.acct, Instant)
            /\ pc' = "evaluate"
            /\ UNCHANGED outcome

\* _execute: the bars of the instant are settled before the plan is evaluated.
Settle ==
    /\ pc = "settle"
    /\ SettledAs(FoldLeft(SettleEvent, [acct |-> acct, now |-> now, engine |-> engine],
                          FillableEvents(Instant)))
    /\ UNCHANGED <<bars, feed, cursor, gates, judged, used>>
--------------------------------------------------------------------------------
(* The plan: conditions *)

Closes(i, resolution, t) == VisibleBars(feed.events, i, resolution, t)

\* _reference_price, 0 where it raises because no bar of the series has closed yet.
ReferencePrice(f, i, t) ==
    IF Closes(i, ClockOf(f), t) = <<>> THEN 0 ELSE Last(Closes(i, ClockOf(f), t)).close

\* bar.closed of _published_values.
BarClosed(i, resolution, t) ==
    Closes(i, resolution, t) # <<>> /\ Last(Closes(i, resolution, t)).ends = t

\* _trading_sessions_between, since the position was opened.
HoldingTradingDays(i, t) == Greater(0, SessionAt(t) - SessionAt(engine.opened[i]))

\* _schedule_values and SCHEDULE: the cycles that are due.  Each is a property of the day
\* that is published once, at the first evaluation of its session.
DueCycles(t, interval) ==
    LET n == SessionAt(t)
        Day(m) == DayOf(Sessions[m].opens)
    IN  IF gates.session = n THEN {}
        ELSE {"EVERY_TRADING_DAY"}
             \cup {c \in {"WEEK_FIRST_TRADING_DAY"} :
                     n = 1 \/ Day(n - 1) \div WeekDays # Day(n) \div WeekDays}
             \cup {c \in {"MONTH_FIRST_TRADING_DAY"} :
                     n = 1 \/ Day(n - 1) \div MonthDays # Day(n) \div MonthDays}
             \cup {c \in {"MONTH_LAST_TRADING_DAY"} :
                     n = Len(Sessions) \/ Day(n + 1) \div MonthDays # Day(n) \div MonthDays}
             \cup {c \in {"EVERY_N_TRADING_DAYS"} : interval > 0 /\ (n - 1) % interval = 0}

Known(passed) == IF passed THEN {"PASSED"} ELSE {"FAILED"}

\* What plan.catalog.evaluate may make of a step for an instrument.
StepOutcomes(step, i, t) ==
    LET published == PublishedIdentity(engine, acct, t, i) # -1
    IN  CASE step.operation \in BarOperations ->
               IF ~BarClosed(i, step.resolution, t) THEN {"FAILED"}
               ELSE IF step.operation = "FEATURE" THEN {"PASSED", "FAILED", "MISSING"}
               ELSE IF Len(Closes(i, step.resolution, t)) < RawOperationLookback(step)
               THEN {"MISSING"} ELSE {"PASSED", "FAILED", "ERROR"}
          [] step.operation = "POSITION" ->
               IF published THEN {"PASSED", "FAILED"} ELSE {"MISSING"}
          [] step.operation = "HOLDING_BARS" ->
               IF published THEN Known(engine.holding[i, step.resolution] >= step.bars)
               ELSE {"MISSING"}
          [] step.operation = "HOLDING_DAYS" ->
               IF published THEN Known(HoldingTradingDays(i, t) >= step.bars) ELSE {"MISSING"}
          [] step.operation = "SESSION_CLOSE" -> Known(t >= Sessions[SessionAt(t)].closes)
          [] OTHER -> Known(step.operation \in DueCycles(t, step.bars))

StatusOf(x) ==
    CASE x = "FAILED" -> "CONDITION_NOT_MET"
      [] x = "MISSING" -> "INPUT_MISSING"
      [] x = "ERROR" -> "CONDITION_ERROR"

\* _evaluate_instrument: the steps run until one does not pass.
Decisions(p, t) ==
    LET f == Flows[p[1]]  i == p[2]
        steps == DOMAIN f.steps
        Passes(k) == "PASSED" \in StepOutcomes(f.steps[k], i, t)
        supplied == \/ \E r \in Resolutions : Closes(i, r, t) # <<>>
                    \/ PublishedIdentity(engine, acct, t, i) # -1
        stops == UNION {{[status |-> StatusOf(o), step |-> k] :
                            o \in StepOutcomes(f.steps[k], i, t) \ {"PASSED"}} :
                          k \in {k \in steps : \A j \in 1..(k - 1) : Passes(j)}}
        survives == IF \A k \in steps : Passes(k) THEN {[status |-> "CANDIDATE", step |-> 0]} ELSE {}
    IN  IF ~supplied THEN {[status |-> "INPUT_MISSING", step |-> 0]} ELSE stops \cup survives

\* What execute may decide, as functions on the pairs of flow and instrument.
AllDecisions(t) ==
    FoldSet(LAMBDA p, ds : {d @@ (p :> x) : d \in ds, x \in Decisions(p, t)}, {<<>>}, Pairs)

\* The decisions of an instant, in the order of the flows and their instruments.
DecisionOrder ==
    SortedSeq(Pairs, LAMBDA p, q : p[1] < q[1] \/ (p[1] = q[1] /\ p[2] < q[2]))

CandidatesOf(decided) == SelectSeq(DecisionOrder, LAMBDA p : decided[p].status = "CANDIDATE")
FailuresOf(decided) == SelectSeq(DecisionOrder, LAMBDA p : decided[p].status # "CANDIDATE")
--------------------------------------------------------------------------------
(* The plan: the execution policy *)

\* The session an order of the instant belongs to, 0 for None: a signal of a bar that
\* closes with the session is carried to the next one.
OrderSession(t) ==
    LET n == SessionAt(t)
    IN  IF t < Sessions[n].closes THEN n ELSE IF n < Len(Sessions) THEN n + 1 ELSE 0

\* _retire_closed_position_gates.
RetireGates(g, t) ==
    LET Seen(i) == PublishedIdentity(engine, acct, t, i)
    IN  [g EXCEPT !.identity = [i \in Instruments |-> Seen(i)],
                  !.states = [p \in Pairs |-> IF g.identity[p[2]] = Seen(p[2]) THEN @[p] ELSE Fresh]]

\* observe_non_candidate.
ObserveNonCandidate(s, status) ==
    [s EXCEPT !.since = IF s.executions > 0 THEN @ + 1 ELSE @,
              !.rearmed = @ \/ status = "CONDITION_NOT_MET"]

\* accepts, as whether it does.
Accepts(s, f, session) ==
    LET since == IF s.executions > 0 THEN s.since + 1 ELSE s.since
        limit == IF f.mode = "ONCE" THEN 1 ELSE f.max
    IN  /\ s.executions < limit
        /\ \/ s.executions = 0
           \/ f.mode = "EVERY_CYCLE"
           \/ f.wait = "CONDITION_MET_AGAIN" /\ s.rearmed
           \/ f.wait = "BARS" /\ since >= f.interval
           \/ f.wait = "TRADING_DAYS" /\ session - s.last >= f.interval

\* accepts, on the state.
Asked(s, f, session) ==
    IF Accepts(s, f, session)
    THEN [executions |-> s.executions + 1, since |-> 0, last |-> session, rearmed |-> FALSE]
    ELSE [s EXCEPT !.since = IF s.executions > 0 THEN @ + 1 ELSE @]

\* _apply_execution_policy, on the states: a catalog without a gate keeps none.
ApplyPolicy(g, decided, session) ==
    IF ~ExecutionGate THEN g
    ELSE [g EXCEPT !.states = [p \in Pairs |->
            IF decided[p].status = "CANDIDATE" THEN Asked(@[p], Flows[p[1]], session)
            ELSE ObserveNonCandidate(@[p], decided[p].status)]]

\* _apply_execution_policy, on the candidates.
Passed(g, candidates, session) ==
    SelectSeq(candidates, LAMBDA p : ExecutionGate => Accepts(g.states[p], Flows[p[1]], session))
--------------------------------------------------------------------------------
(* The engine: sizing and placing *)

\* _size: a disposal by the position, an acquisition by its share of the budget.
Size(a, f, i, reference, share) ==
    LET quantum == IF i \in Fractional THEN 1 ELSE Share
        budget == RoundHalfEven(ApplyRate(BuyingPower(a), f.budget) * f.percent, share * 100)
        unitPrice == reference + ApplyRate(reference, SlippageRate)
        unitCash == unitPrice + ApplyRate(unitPrice, FeeRate)
    IN  IF f.side = "SELL" THEN FloorToQuantum(Position(a, i) * f.percent, 100, quantum)
        ELSE FloorToQuantum(budget * Share, unitCash, quantum)

OrderRequest(f, n, i, quantity, reference, session, t) ==
    [id |-> <<t, n, i>>, instrument |-> i, side |-> f.side, type |-> "MARKET",
     mode |-> IF i \in Fractional THEN "FRACTIONAL_SHARES" ELSE "WHOLE_SHARES", tif |-> "DAY",
     submitted |-> t, eligible |-> Greater(t, Sessions[session].opens),
     dayExpires |-> Sessions[session].closes, expires |-> 0, reference |-> reference,
     quantity |-> quantity, notional |-> 0, limit |-> 0, stop |-> 0, trail |-> 0,
     cap |-> RoundHalfEven(InitialCash * f.cap, 100)]

\* The order is submitted, which made a of the account, and recorded; s is the account and
\* the records.
Recorded(s, a, t) ==
    [acct |-> a,
     records |-> Append(s.records, OrderResultRecord(a, Len(a.orders), t, a.cash, Book(a)))]

PlaceSized(s, p, quantity, reference, session, t) ==
    IF quantity <= 0 THEN s
    ELSE Recorded(s, Submitted(s.acct, OrderRequest(Flows[p[1]], p[1], p[2], quantity, reference,
                                                    session, t)), t)

\* place, of the candidate p.
Place(s, p, share, session, t) ==
    LET f == Flows[p[1]]
        reference == ReferencePrice(f, p[2], t)
    IN  PlaceSized(s, p, Size(s.acct, f, p[2], reference, share), reference, session, t)

\* The candidates of a flow share its budget equally (_allocate_equally), those that the
\* policy then holds back included.
Rivals(candidates, p) == Len(SelectSeq(candidates, LAMBDA q : q[1] = p[1]))

\* _execute: the candidates are placed one after the other.
PlaceAll(candidates, taken, session, t) ==
    FoldLeft(LAMBDA s, p : Place(s, p, Rivals(candidates, p), session, t),
             [acct |-> acct, records |-> engine.records], taken)
--------------------------------------------------------------------------------
(* The plan and the orchestrator: evaluation *)

\* compact_evaluation: whether it traded, and the first condition that failed.
Compact(t, decided, taken) ==
    LET failures == FailuresOf(decided)
    IN  [at |-> t, gap |-> FALSE, trade |-> taken # <<>>,
         failed |-> IF failures = <<>> THEN <<>> ELSE Append(failures[1], decided[failures[1]].step)]

Gap(t) == [at |-> t, gap |-> TRUE, trade |-> FALSE, failed |-> <<>>]

NextInstant ==
    IF cursor = Len(feed.instants) THEN pc' = "publish" /\ UNCHANGED cursor
    ELSE pc' = "beat" /\ cursor' = cursor + 1

\* evaluate_at where the coverage has a gap.
EvaluateGap ==
    /\ pc = "evaluate"
    /\ ~IsStageAllowed(feed.assessment, Instant)
    /\ judged' = Append(judged, Gap(Instant))
    /\ NextInstant
    /\ UNCHANGED <<acct, now, bars, feed, engine, gates, outcome, used>>

Placed(s) ==
    /\ acct' = s.acct
    /\ engine' = [engine EXCEPT !.records = s.records]

\* _apply_execution_policy and the placing, of what survived: a session that ends the
\* calendar (0) takes no orders.
Take(decided, candidates, retired, session, t) ==
    LET taken == IF session = 0 THEN <<>> ELSE Passed(retired, candidates, session)
        applied == IF session = 0 THEN gates ELSE ApplyPolicy(retired, decided, session)
    IN  /\ Placed(PlaceAll(candidates, taken, session, t))
        /\ gates' = [applied EXCEPT !.session = SessionAt(t)]
        /\ judged' = Append(judged, Compact(t, decided, taken))

\* Only the decisions that could have been others count as signals.
Spend(decided, candidates, t) ==
    /\ used' = [signals |-> used.signals
                           + Len(SelectSeq(candidates, LAMBDA p : Cardinality(Decisions(p, t)) > 1)),
                errors |-> used.errors
                           + Cardinality({p \in Pairs : decided[p].status = "CONDITION_ERROR"})]
    /\ used'.signals <= MaxSignals /\ used'.errors <= MaxErrors

\* evaluate_at, and the placing of its candidates.
Evaluate(decided, candidates) ==
    /\ pc = "evaluate"
    /\ IsStageAllowed(feed.assessment, Instant)
    /\ \A p \in ToSet(candidates) : ReferencePrice(Flows[p[1]], p[2], Instant) # 0
    /\ Spend(decided, candidates, Instant)
    /\ Take(decided, candidates, RetireGates(gates, Instant), OrderSession(Instant), Instant)
    /\ NextInstant
    /\ UNCHANGED <<now, bars, feed, outcome>>

\* evaluate_at raised, as it does of a survivor that no bar prices yet.
EvaluationRaises ==
    /\ pc = "evaluate"
    /\ IsStageAllowed(feed.assessment, Instant)
    /\ used.errors < MaxErrors
    /\ End("FAILED", "PLAN_REPLAY_FAILED", FALSE)
    /\ UNCHANGED <<acct, now, bars, feed, cursor, engine, gates, judged, used>>
--------------------------------------------------------------------------------
(* Publication *)

\* A record id is a digest, so any order is possible.  Three are tried: by the age of the
\* records, its index, the reverse, and the odd ones before the even ones.
RecordIds ==
    LET all == DOMAIN engine.records
    IN  {[n \in all |-> n], [n \in all |-> -n],
         [n \in all |-> IF n % 2 = 0 THEN n ELSE n - Len(engine.records)]}

\* valuation_series, when there were marks.  The opening is a microsecond before the first
\* instant, here a tick.
MarkedSeries ==
    [basis |-> "MARK_TO_MARKET", opening |-> feed.instants[1] - 1,
     instants |-> [n \in DOMAIN engine.marks |->
                     [at |-> engine.marks[n].at, marks |-> engine.marks[n].marks]]]

\* build, of the engine's records; a run completes after its evaluation period.
Result(ids) ==
    Snapshot(engine.records, engine.marks # <<>>,
             IF engine.marks # <<>> THEN MarkedSeries ELSE EventDriven(<<>>, EvaluationThrough),
             EvaluationThrough, ids)

\* The summaries of _judgment_evaluations.
Summaries ==
    {MonthTallies(m, judged, engine.records) : m \in Months(judged, engine.records)}

\* Whether _publish gets past its builders and _write past the verifiers.
AcceptedAs(result) ==
    /\ ~result.raises /\ SnapshotVerifies(result)
    /\ DetailsVerify(DetailParts(Rows(result, acct.fills, acct.ledger)))
    /\ \A v \in ToSet(judged) : ValidEvaluation(v)
    /\ \A m \in Summaries : ValidMonth(m)

Accepted(ids) == AcceptedAs(Result(ids))

\* _publish of the orchestrator.  What storage and the database do to an accepted result
\* is the subject of Publication.
Publish ==
    /\ pc = "publish"
    /\ \/ /\ {ids \in RecordIds : Accepted(ids)} # {}
          /\ \/ End("COMPLETED", "", FALSE)
             \/ End("CANCELLED", "CANCELLED", FALSE)
             \/ End("FAILED", "RESULT_PUBLICATION_CONFLICT", FALSE)
       \/ End("FAILED", "RESULT_PUBLICATION_FAILED", TRUE)
    /\ UNCHANGED <<acct, now, bars, feed, cursor, engine, gates, judged, used>>

ReplayNext ==
    \/ Assemble \/ Heartbeat \/ AttemptFails \/ Settle \/ EvaluateGap \/ EvaluationRaises
    \/ pc = "evaluate" /\ \E decided \in AllDecisions(Instant) : Evaluate(decided, CandidatesOf(decided))
    \/ Publish

ReplaySpec == ReplayInit /\ [][ReplayNext]_replayVars
--------------------------------------------------------------------------------
(* Properties. *)

\* Whatever a replay did, what it publishes about it is accepted: the fills chain up to a
\* ledger in each of the tried orders of their ids, every holding is marked at every valuation instant,
\* the curve gives its own inputs back, the weekly objects pass their verification, and
\* the monthly counters are consistent (ResultSnapshotBuilder.build and verify,
\* DetailObjectBuilder, MonthlyJudgmentBuilder).
EvidenceAccepted == pc = "publish" => \A ids \in RecordIds : Accepted(ids)

MonthsTotal(Count(_)) ==
    SumOverAll(Months(judged, engine.records),
            LAMBDA m : Count(MonthTallies(m, judged, engine.records)))

\* No row is lost or repeated when the detail objects are read back.
RowsKept(rows, parts) ==
    \A k \in DetailKinds : LET whole == Reassembled(parts, k)
                           IN  /\ ToSet(whole) = {r \in rows : r.kind = k}
                               /\ Len(whole) = Cardinality(ToSet(whole))

\* The drawdown is the worst fall between any two points, the whole period included.
DrawdownExact(metrics, e) ==
    /\ metrics.drawdown =
         Least({0} \cup UNION {{Percent(e[n] - e[m], e[m]) : n \in m..Len(e)} : m \in DOMAIN e})
    /\ metrics.drawdown <= metrics.return
    /\ e[Len(e)] = acct.cash + SumOverAll(Instruments, LAMBDA i :
            RoundHalfEven(Position(acct, i) * engine.latest[i], Share))

OrdersWith(status) == Cardinality({k \in DOMAIN acct.orders : acct.orders[k].status = status})

Explains(result, rows) ==
    /\ result.ledger.cash = acct.cash /\ result.ledger.book = Book(acct)
    /\ result.ledger.fees = Booked(acct, "FEE_EXPENSE")
    /\ result.ledger.realized = -Booked(acct, "REALIZED_PNL")
    /\ SummaryCounts(result) =
         [orders |-> Len(acct.orders), fills |-> Len(acct.fills),
          cancellations |-> OrdersWith("EXPIRED"), rejections |-> OrdersWith("REJECTED")]
    /\ DrawdownExact(result.metrics, Equities(result.curve))
    /\ RowsKept(rows, DetailParts(rows))

\* The evidence tells what happened: the ledger rebuilt from the records has the account's
\* cash, positions, fees and result; the last point of the curve is the account's value at
\* the last marks; the counts are those of the orders by their fate; the drawdown is the
\* worst fall between any two points; no row is lost or repeated by the detail objects;
\* and the months add up to the evaluations (_fill_ledger, build_equity_curve,
\* _performance_summary, max_drawdown_pct, DetailObjectBuilder, MonthlyJudgmentBuilder).
EvidenceExplainsAccount ==
    pc = "publish" /\ engine.marks # <<>> =>
        /\ \A ids \in RecordIds :
              LET result == Result(ids) IN Explains(result, Rows(result, acct.fills, acct.ledger))
        /\ MonthsTotal(LAMBDA m : m.evaluations) = Len(judged)
        /\ MonthsTotal(LAMBDA m : m.trades) = Len(engine.records)
        /\ MonthsTotal(LAMBDA m : m.gaps + m.triggered) =
             Len(SelectSeq(judged, LAMBDA v : v.gap \/ v.trade))

\* No order is filled by what was known when it was decided, after its session, or at an
\* instant that the data has a gap at: the bar of a fill begins at or after the decision,
\* at or after the order is eligible, and before it expires, although a coarse bar that
\* ends later may have begun earlier (_execute settles before it places; advance_to_bar).
FillsFollowDecisions ==
    \A f \in ToSet(acct.fills) :
        LET o == acct.orders[f.order]
        IN  /\ f.bar.starts >= o.request.submitted /\ f.bar.starts >= o.request.eligible
            /\ f.bar.starts < o.expires
            /\ IsStageAllowed(feed.assessment, f.bar.ends)

\* The fills of the current position of an instrument: those after the last bar that left
\* nothing.
PositionFills(i) ==
    LET fills == SelectSeq(acct.fills, LAMBDA f : f.bar.instrument = i)
        Signed(f) == IF acct.orders[f.order].request.side = "BUY" THEN f.quantity ELSE -f.quantity
        flat == {n \in DOMAIN fills : /\ SumOver(SubSeq(fills, 1, n), Signed) = 0
                                      /\ n < Len(fills) => fills[n + 1].bar # fills[n].bar}
    IN  SubSeq(fills, IF flat = {} THEN 1 ELSE Most(flat) + 1, Len(fills))

\* What the plan reads of a position is its history since it was opened, whatever partial
\* sales and purchases, gaps and other resolutions came between: holdingBars is the number
\* of bars of the series that ended since, the opening bar included, and the peak is the
\* highest of the closes since and of the entry price at the opening instant
\* (runtime_values, _clear_position_runtime).
PositionHistoryExact ==
    pc = "evaluate" => \A i \in PricedAt(Instant) : Held(acct, i) =>
        LET fills == PositionFills(i)
            opening == fills[1].bar.ends
            entry == SelectSeq(fills, LAMBDA f : f.bar.ends = opening)
            since == SelectSeq(feed.events, LAMBDA e : /\ e.instrument = i /\ opening <= e.ends
                                                       /\ e.ends <= Instant)
            price == RoundHalfEven(SumOver(entry, LAMBDA f : f.basis) * Share,
                                   SumOver(entry, LAMBDA f : f.quantity))
        IN  /\ engine.peak[i] = Most({e.close : e \in ToSet(since)} \cup {price})
            /\ \A r \in Resolutions :
                  engine.holding[i, r] = Len(SelectSeq(since, LAMBDA e : e.resolution = r))

\* "1회만 means once per position": of the orders of a flow that executes once, at most one
\* was decided within the current position (_retire_closed_position_gates).
OncePerPosition ==
    \A p \in Pairs :
        Flows[p[1]].mode = "ONCE" /\ Flows[p[1]].side = "SELL" /\ engine.opened[p[2]] # -1 =>
            Cardinality({k \in DOMAIN acct.orders :
                /\ acct.orders[k].request.id[2] = p[1] /\ acct.orders[k].request.instrument = p[2]
                /\ acct.orders[k].request.submitted > engine.opened[p[2]]}) <= 1
================================================================================
