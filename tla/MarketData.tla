------------------------------- MODULE MarketData -------------------------------
(***************************************************************************)
(* The pinned inputs of one replay: the official sessions, the event       *)
(* stream that bar_events_from_batches makes of the delivered rows, what   *)
(* the compiled plan requires of the data, and the assessment of whether   *)
(* the delivery meets it.                                                  *)
(*                                                                         *)
(* Time is a number of ticks and every boundary is a tick, so a set of     *)
(* half-open intervals is the set of ticks it covers.  A resolution is its *)
(* period in ticks; DayTicks is the daily one.  Instruments are numbers,   *)
(* in the order of their ids.                                              *)
(***************************************************************************)
EXTENDS Evidence

CONSTANTS
    Sessions,        \* OfficialSessionSchedule.sessions: records of opens and closes
    CoveredDays,     \* the ET days the calendar covers
    Flows,           \* BasicCompiledPlan.flows; a reference of 0 is "$DATASET"
    RequiredFeatures,  \* BasicCompiledPlan.required_features: records of instruments,
                       \* resolution and bars (warmup_bars)
    ExecutionGate,   \* whether the plan's catalog has an execution_gate
    EvaluationFrom, EvaluationThrough,
    PublicationLag,
    LiveSeriesBars,  \* LIVE_SERIES_BARS
    Quote(_, _),     \* the price of an instrument at a tick
    Volume(_, _)     \* the volume of an instrument's bar that starts at a tick

\* What the constructors of OfficialTradingSession and OfficialSessionSchedule demand.
ValidSchedule ==
    /\ \A s \in ToSet(Sessions) : /\ s.opens < s.closes
                                  /\ DayOf(s.opens) = DayOf(s.closes)
                                  /\ DayOf(s.opens) \in CoveredDays
    /\ \A m, n \in DOMAIN Sessions : m < n => /\ Sessions[m].closes <= Sessions[n].opens
                                             /\ DayOf(Sessions[m].opens) # DayOf(Sessions[n].opens)

\* The clocks of the flows that share an instrument with a flow.
InheritedClocks(f) ==
    {g.reference : g \in {h \in ToSet(Flows) : h.instruments \cap f.instruments # {}}} \ {0}

\* _resolve_position_only_flow_clocks: a flow whose steps have no resolution runs on the
\* clock of the others, and a job without exactly one is refused.  A plan of such flows
\* only, which runs on the clock of its dataset, never holds anything and is left out.
ClockOf(f) == IF f.reference # 0 THEN f.reference ELSE Least(InheritedClocks(f))
HasClock(f) == f.reference # 0 \/ Cardinality(InheritedClocks(f)) = 1

ASSUME MarketDataAssumption ==
    /\ Instruments \subseteq Nat
    /\ ValidSchedule
    /\ \A f \in ToSet(Flows) : HasClock(f)
    /\ \A q \in RequiredFeatures : q.bars <= LiveSeriesBars
    /\ ExecutionGate \in BOOLEAN
    /\ EvaluationFrom < EvaluationThrough /\ PublicationLag \in Nat
--------------------------------------------------------------------------------
(* Sessions *)

\* session_at and session_on: the index of the session of an ET day, 0 for None.
SessionOn(day) ==
    LET found == {n \in DOMAIN Sessions : DayOf(Sessions[n].opens) = day}
    IN  IF found = {} THEN 0 ELSE Least(found)
SessionAt(t) == SessionOn(DayOf(t))

InSession(n, t) == n # 0 /\ Sessions[n].opens <= t /\ t < Sessions[n].closes

\* status_at.
SessionStatusAt(t) ==
    IF DayOf(t) \notin CoveredDays THEN "CALENDAR_UNAVAILABLE"
    ELSE IF SessionAt(t) = 0 THEN "MARKET_CLOSED"
    ELSE IF t < Sessions[SessionAt(t)].opens THEN "PRE_MARKET"
    ELSE IF t < Sessions[SessionAt(t)].closes THEN "REGULAR_OPEN"
    ELSE "POST_MARKET"
--------------------------------------------------------------------------------
(* Rows and events *)

\* A row has an instrument, a resolution, a session day and its bar_start_at.  A daily
\* bar starts at the open, whatever its label.
StartOf(row) ==
    IF row.resolution = DayTicks /\ SessionOn(row.day) # 0
    THEN Sessions[SessionOn(row.day)].opens ELSE row.label

\* The MarketDataValidationErrors of bar_events_from_batches.
Unreadable(row) == ~InSession(SessionOn(row.day), StartOf(row))

\* The BAR_CLOSED event of a row: the bar, its close, and its resolution.
EventOf(row) ==
    LET starts == StartOf(row)
        ends == Lesser(starts + row.resolution, Sessions[SessionOn(row.day)].closes)
        path == {Quote(row.instrument, t) : t \in starts..ends}
    IN  [instrument |-> row.instrument, starts |-> starts, ends |-> ends,
         open |-> Quote(row.instrument, starts), close |-> Quote(row.instrument, ends),
         high |-> CHOOSE p \in path : \A q \in path : q <= p, low |-> Least(path),
         volume |-> Volume(row.instrument, starts) * (ends - starts), complete |-> TRUE,
         resolution |-> row.resolution]
--------------------------------------------------------------------------------
(* Requirements of the plan *)

\* A condition step has an operation, by the class of what it reads, a resolution (0 for
\* None) and a number of bars.
BarOperations == {"LAST_BAR", "PREVIOUS_BAR", "AVERAGE", "CROSS", "MACD_CROSS", "FEATURE"}

\* _raw_operation_lookback.
RawOperationLookback(step) ==
    CASE step.operation = "PREVIOUS_BAR" -> 2
      [] step.operation = "AVERAGE" -> step.bars
      [] step.operation = "CROSS" -> step.bars + 1
      [] step.operation = "MACD_CROSS" -> step.bars + 2
      [] OTHER -> 1

Steps == UNION {ToSet(f.steps) : f \in ToSet(Flows)}
Most(S) == IF S = {} THEN 1 ELSE CHOOSE x \in S : \A y \in S : y <= x

\* _plan_visible_event_limit.
VisibleEventLimit ==
    IF \E s \in Steps : s.operation = "MACD_CROSS" THEN LiveSeriesBars
    ELSE Lesser(LiveSeriesBars, Most({RawOperationLookback(s) : s \in Steps}
                                     \cup {q.bars : q \in RequiredFeatures}))

\* The resolutions a flow reads, with the bars it needs of each.
RawLookback(f) ==
    LET read == {s.resolution : s \in ToSet(f.steps)} \ {0}
    IN  IF read = {} THEN [r \in {ClockOf(f)} |-> 1]
        ELSE [r \in read |-> Most({RawOperationLookback(s) :
                                     s \in {u \in ToSet(f.steps) : u.resolution = r}})]

\* derive_data_requirements: the earliest warm-up any feature or flow asks of a series.
DataRequirements ==
    LET Needs(i, r, count) ==
          [instrument |-> i, resolution |-> r, warmup |-> EvaluationFrom - r * count]
        asked == UNION {{Needs(i, q.resolution, q.bars) : i \in q.instruments} :
                          q \in RequiredFeatures}
                 \cup UNION {{Needs(i, r, RawLookback(f)[r]) :
                                i \in f.instruments, r \in DOMAIN RawLookback(f)} :
                              f \in ToSet(Flows)}
    IN  {q \in asked : \A p \in asked :
            p.instrument = q.instrument /\ p.resolution = q.resolution => q.warmup <= p.warmup}

\* The rows every required series has, from its warm-up to the end of the evaluation.
ExpectedRows ==
    UNION {UNION {{[instrument |-> q.instrument, resolution |-> q.resolution,
                    day |-> DayOf(Sessions[n].opens), label |-> Sessions[n].opens + k * q.resolution] :
                      k \in {j \in 0..DayTicks : InSession(n, Sessions[n].opens + j * q.resolution)}} :
                    n \in DOMAIN Sessions} :
             q \in DataRequirements}
--------------------------------------------------------------------------------
(* The stream and its assessment *)

\* run: the events in the order of occurrence, period, instrument and id, from the first
\* warm-up to the end of the evaluation.
EventStream(rows) ==
    LET first == Least({q.warmup : q \in DataRequirements})
        events == {e \in {EventOf(row) : row \in rows} : first <= e.ends /\ e.ends <= EvaluationThrough}
        Before(d, e) ==
          \/ d.ends < e.ends
          \/ d.ends = e.ends /\ d.resolution < e.resolution
          \/ d.ends = e.ends /\ d.resolution = e.resolution /\ d.instrument < e.instrument
    IN  SortedSeq(events, Before)

\* run: a pinned dataset must have a resolution that the plan requires.
Unneeded(row) == \A q \in DataRequirements : q.resolution # row.resolution

ClosedMarket(ticks) == {t \in ticks : ~InSession(SessionAt(t), t)}

\* observations_from_events, within the requirement.
Observed(q, events) ==
    LET required == q.warmup..(EvaluationThrough - 1)
        series == {e \in ToSet(events) : e.instrument = q.instrument /\ e.resolution = q.resolution}
    IN  (UNION {e.starts..(e.ends - 1) : e \in series} \cap required) \cup ClosedMarket(required)

\* Why assess finds a requirement missing, "" if it does not.  The observations are
\* derived from verified bars of the requirement's own series, so the reasons that
\* doubt the observation itself do not arise.
MissingReason(q, events) ==
    LET seen == Observed(q, events)
    IN  IF seen = {} THEN "REQUIRED_SERIES_ABSENT"
        ELSE IF ~(q.warmup..(EvaluationFrom - 1) \subseteq seen) THEN "WARMUP_COVERAGE_MISSING"
        ELSE IF seen \cap (EvaluationFrom..(EvaluationThrough - 1)) = {}
        THEN "EVALUATION_COVERAGE_ABSENT"
        ELSE ""

\* The ticks of the evaluation that a requirement's SkipIntervals cover.
SkippedTicks(q, events) == (EvaluationFrom..(EvaluationThrough - 1)) \ Observed(q, events)

Assess(events) ==
    LET skips == UNION {SkippedTicks(q, events) : q \in DataRequirements}
        status == IF \/ \E q \in DataRequirements : MissingReason(q, events) # ""
                     \/ skips = EvaluationFrom..(EvaluationThrough - 1)
                  THEN "UNAVAILABLE"
                  ELSE IF skips # {} THEN "DEGRADED" ELSE "AVAILABLE"
    IN  [status |-> status, skips |-> IF status = "UNAVAILABLE" THEN {} ELSE skips]

\* ExecutionGate: a skip interval stops every stage.
IsStageAllowed(assessment, t) == t \notin assessment.skips
IsFillAllowed(assessment, t) ==
    SessionStatusAt(t) = "REGULAR_OPEN" /\ IsStageAllowed(assessment, t)

\* _BoundedVisibleEvents: the bars of a series a strategy sees at an instant.
VisibleBars(events, i, resolution, t) ==
    LET seen == SelectSeq(events, LAMBDA e : /\ e.instrument = i /\ e.resolution = resolution
                                             /\ e.ends + PublicationLag <= t)
    IN  SubSeq(seen, Greater(1, Len(seen) - VisibleEventLimit + 1), Len(seen))
================================================================================
