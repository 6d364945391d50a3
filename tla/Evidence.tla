-------------------------------- MODULE Evidence --------------------------------
(***************************************************************************)
(* What the publisher makes of a finished replay: the result snapshot,     *)
(* whose summary is rebuilt from the detail records alone, the equity      *)
(* curve, the weekly detail objects and the monthly judgment.  The         *)
(* builders are pure functions of the records, the ledger and the marks;   *)
(* hashes, serialised bytes and Parquet are left out, a content address is *)
(* the content, and the metrics that need a square root are left out but   *)
(* for the errors they raise.                                              *)
(*                                                                         *)
(* A detail record has the fields kind, at (occurred_at), order,           *)
(* instrument, status, cash (cash_after), book (positions_after; quantity  *)
(* 0 for an instrument that is not listed) and, for a fill, quantity,      *)
(* gross, fee and basis.                                                   *)
(***************************************************************************)
EXTENDS ExecutionModel, SequencesExt

CONSTANTS
    DayTicks,        \* ticks in one ET day
    WeekDays,        \* days in one ET week
    MonthDays,       \* days in one ET month
    MaxRowsPerPart,  \* max_rows_per_part
    PercentScale     \* percent quanta in one percent

ASSUME EvidenceAssumption == {DayTicks, WeekDays, MonthDays, MaxRowsPerPart, PercentScale} \subseteq Nat \ {0}

SortedSeq(S, Before(_, _)) == SortSeq(FoldSet(LAMBDA x, s : Append(s, x), <<>>, S), Before)

DayOf(t) == t \div DayTicks
EtWeek(t) == DayOf(t) \div WeekDays
EtMonth(t) == DayOf(t) \div MonthDays

None == [quantity |-> 0, basis |-> 0]
EmptyBook == [i \in Instruments |-> None]
--------------------------------------------------------------------------------
(* Detail records *)

KindOf(status) ==
    CASE status = "ACCEPTED" -> "ORDER"
      [] status \in {"CANCELLED", "EXPIRED"} -> "CANCELLATION"
      [] status = "REJECTED" -> "REJECTION"

\* order_result_record.
OrderResultRecord(a, k, at, cash, book) ==
    LET o == a.orders[k]
    IN  [kind |-> KindOf(o.status), at |-> at, order |-> k, instrument |-> o.request.instrument,
         status |-> o.status, cash |-> cash, book |-> book,
         quantity |-> 0, gross |-> 0, fee |-> 0, basis |-> 0]

\* fill_result_record: it happened when its bar ended.
FillResultRecord(a, f, cash, book) ==
    LET o == a.orders[f.order]
    IN  [kind |-> "FILL", at |-> f.bar.ends, order |-> f.order,
         instrument |-> o.request.instrument, status |-> o.status, cash |-> cash, book |-> book,
         quantity |-> f.quantity, gross |-> f.gross, fee |-> f.fee, basis |-> f.basis]

\* What the constructors of ResultRecord and PositionAfter demand.  The gross amount and
\* the slippage of a fill are computed from its prices by the formulas they are compared
\* with (_record_fill), so only their signs are left to check.
ValidRecord(r) ==
    /\ r.cash >= 0
    /\ \A i \in Instruments : /\ r.book[i].quantity >= 0 /\ r.book[i].basis >= 0
                              /\ r.book[i].quantity = 0 => r.book[i].basis = 0
    /\ r.kind = "FILL" => r.status \in {"PARTIALLY_FILLED", "FILLED"}
                        /\ r.quantity > 0 /\ r.gross > 0 /\ r.fee >= 0 /\ r.basis >= 0

Rank(kind) ==
    CASE kind = "ORDER" -> 0 [] kind = "FILL" -> 1 [] kind = "CANCELLATION" -> 2
      [] kind = "REJECTION" -> 3

\* _record_key.  A record_id is derived from a digest, so which of two records of one
\* instant and kind comes first is arbitrary: ids says how they compare.
CanonicalOrder(records, ids) ==
    LET Before(m, n) ==
          \/ records[m].at < records[n].at
          \/ /\ records[m].at = records[n].at
             /\ \/ Rank(records[m].kind) < Rank(records[n].kind)
                \/ /\ records[m].kind = records[n].kind
                   /\ ids[m] < ids[n]
        order == SortedSeq(DOMAIN records, Before)
    IN  [n \in DOMAIN records |-> records[order[n]]]

Fills(ordered) == SelectSeq(ordered, LAMBDA r : r.kind = "FILL")
--------------------------------------------------------------------------------
(* The ledger, rebuilt from the fills *)

Bought(book, r) == r.book[r.instrument].quantity - book[r.instrument].quantity = r.quantity
Sold(book, r) == r.book[r.instrument].quantity - book[r.instrument].quantity = -r.quantity
OthersKept(book, r) == \A i \in Instruments \ {r.instrument} : book[i] = r.book[i]

\* _matches_fill_transition.
MatchesFillTransition(book, cash, r) ==
    /\ \/ Bought(book, r) /\ r.cash = cash - r.gross - r.fee
       \/ Sold(book, r) /\ r.cash = cash + r.gross - r.fee
    /\ OthersKept(book, r)

\* Defective variant: the canonical order is taken for the causal one.
CausalFillOrderCanonical(fills) == fills

\* _causal_fill_order: follow the chain of snapshots; where it breaks, the rest stays in
\* canonical order.
CausalFillOrder(fills) ==
    LET Follow(c, n) ==
          LET next == {m \in c.pending : MatchesFillTransition(c.book, c.cash, fills[m])}
              m == Least(next)
          IN  IF next = {} THEN c
              ELSE [pending |-> c.pending \ {m}, done |-> Append(c.done, m),
                    book |-> fills[m].book, cash |-> fills[m].cash]
        chain == FoldLeft(Follow, [pending |-> DOMAIN fills, done |-> <<>>,
                                   book |-> EmptyBook, cash |-> InitialCash],
                          [n \in DOMAIN fills |-> n])
        order == chain.done \o SortedSeq(chain.pending, <)
    IN  [n \in DOMAIN fills |-> fills[order[n]]]

\* _fill_ledger: the cash and the book after the last fill, one event per instant, and
\* whether every fill was an execution that can have happened.
FillLedger(fills) ==
    LET Walk(c, r) ==
          LET delta == IF Bought(c.book, r) THEN -(r.gross + r.fee) ELSE r.gross - r.fee
              last == Len(c.events)
              merged == {n \in 1..last : c.events[n].at = r.at}
              event == [at |-> r.at, delta |-> delta, book |-> r.book]
          IN  [valid |-> /\ c.valid
                         /\ Bought(c.book, r) \/ Sold(c.book, r)
                         /\ OthersKept(c.book, r),
               cash |-> c.cash + delta,
               book |-> r.book,
               realized |-> c.realized + (IF Bought(c.book, r) THEN 0 ELSE r.gross - r.basis),
               fees |-> c.fees + r.fee,
               fills |-> c.fills + 1,
               closing |-> c.closing + (IF Bought(c.book, r) THEN 0 ELSE 1),
               winning |-> c.winning + (IF ~Bought(c.book, r) /\ r.gross > r.basis THEN 1 ELSE 0),
               losing |-> c.losing + (IF ~Bought(c.book, r) /\ r.gross < r.basis THEN 1 ELSE 0),
               events |-> IF merged = {} THEN Append(c.events, event)
                          ELSE [c.events EXCEPT
                                  ![Least(merged)] = [event EXCEPT !.delta = @ + c.events[Least(merged)].delta]]]
        walked == FoldLeft(Walk, [valid |-> TRUE, cash |-> InitialCash, book |-> EmptyBook,
                                  realized |-> 0, fees |-> 0, fills |-> 0, closing |-> 0,
                                  winning |-> 0, losing |-> 0, events |-> <<>>], fills)
    IN  [walked EXCEPT !.events = SortSeq(@, LAMBDA e, f : e.at < f.at)]
--------------------------------------------------------------------------------
(* The equity curve *)

\* A valuation series has a basis, an opening instant and instants with the mark of each
\* instrument, 0 for none.
Unmarked == [i \in Instruments |-> 0]

ValidSeries(s) ==
    /\ \A m, n \in DOMAIN s.instants : m < n => s.instants[m].at < s.instants[n].at
    /\ \A n \in DOMAIN s.instants : s.instants[n].at > s.opening
    /\ s.basis = "COST_BASIS" => \A n \in DOMAIN s.instants : s.instants[n].marks = Unmarked

\* event_driven: a sample per ledger event and one at the completion.
EventDriven(events, through) ==
    LET moments == SortedSeq({events[n].at : n \in DOMAIN events} \cup {through}, <)
    IN  [basis |-> "COST_BASIS", opening |-> moments[1] - 1,
         instants |-> [n \in DOMAIN moments |-> [at |-> moments[n], marks |-> Unmarked]]]

StateAt(events, at) ==
    FoldLeft(LAMBDA c, e : IF e.at > at THEN c
                           ELSE [delta |-> c.delta + e.delta, book |-> e.book],
             [delta |-> 0, book |-> EmptyBook], events)

CostBasisHolding(p) == [quantity |-> p.quantity, price |-> RoundHalfEven(p.basis * Share, p.quantity),
                        value |-> p.basis]
MarkToMarketHolding(p, mark) ==
    [quantity |-> p.quantity, price |-> mark, value |-> RoundHalfEven(p.quantity * mark, Share)]

\* build_equity_curve: the opening point, then one per instant of the series.
EquityPoint(events, series, n) ==
    LET instant == series.instants[n]
        state == StateAt(events, instant.at)
        holdings == [i \in Instruments |->
            IF state.book[i].quantity = 0 THEN [quantity |-> 0, price |-> 0, value |-> 0]
            ELSE IF series.basis = "COST_BASIS" THEN CostBasisHolding(state.book[i])
            ELSE MarkToMarketHolding(state.book[i], instant.marks[i])]
        value == SumOverAll(Instruments, LAMBDA i : holdings[i].value)
    IN  [at |-> instant.at, cash |-> InitialCash + state.delta, holdings |-> holdings,
         equity |-> InitialCash + state.delta + value]

BuildEquityCurve(events, series) ==
    [basis |-> series.basis, opening |-> series.opening,
     points |-> [n \in DOMAIN series.instants |-> EquityPoint(events, series, n)]]

\* The errors of build_equity_curve: an unmarked holding, an event before the opening.
CurveRaises(events, series) ==
    \/ \E e \in ToSet(events) : e.at < series.opening
    \/ /\ series.basis = "MARK_TO_MARKET"
       /\ \E n \in DOMAIN series.instants : \E i \in Instruments :
            /\ StateAt(events, series.instants[n].at).book[i].quantity > 0
            /\ series.instants[n].marks[i] = 0

\* to_series: the inputs of a curve, recovered from its holdings.
ToSeries(curve) ==
    [basis |-> curve.basis, opening |-> curve.opening,
     instants |-> [n \in DOMAIN curve.points |->
        [at |-> curve.points[n].at,
         marks |-> IF curve.basis = "COST_BASIS" THEN Unmarked
                   ELSE [i \in Instruments |-> curve.points[n].holdings[i].price]]]]
--------------------------------------------------------------------------------
(* The metrics *)

\* The equity of the opening point and of every point after it.
Equities(curve) ==
    <<InitialCash>> \o FoldLeft(LAMBDA s, p : Append(s, p.equity), <<>>, curve.points)

Percent(part, whole) == RoundHalfEven(part * 100 * PercentScale, whole)

\* total_return_pct.
TotalReturnPct(curve) ==
    LET e == Equities(curve) IN Percent(e[Len(e)] - e[1], e[1])

\* Defective variant: the peak stays the opening equity.
MaxDrawdownPctFromOpening(curve) ==
    FoldLeft(LAMBDA worst, equity : Lesser(worst, Percent(equity - InitialCash, InitialCash)),
             0, Equities(curve))

\* max_drawdown_pct: the worst fall below the running peak.
MaxDrawdownPct(curve) ==
    LET Fall(c, equity) ==
          LET peak == Greater(c.peak, equity)
          IN  [peak |-> peak, worst |-> Lesser(c.worst, Percent(equity - peak, peak))]
    IN  FoldLeft(Fall, [peak |-> InitialCash, worst |-> 0], Equities(curve)).worst

\* win_rate_pct, -1 for None.
WinRatePct(ledger) == IF ledger.closing = 0 THEN -1 ELSE Percent(ledger.winning, ledger.closing)

\* build_metrics.
Metrics(curve, ledger) ==
    [return |-> TotalReturnPct(curve), drawdown |-> MaxDrawdownPct(curve), winRate |-> WinRatePct(ledger)]

\* What TradeStatistics demands.
ValidTrades(ledger) ==
    /\ ledger.winning + ledger.losing <= ledger.closing
    /\ ledger.closing <= ledger.fills
    /\ ledger.fees >= 0

\* periodic_returns: a daily return from an equity of nothing is an error.  The daily
\* curve is the one with marks.
ReturnsUndefined(curve) ==
    /\ curve.basis = "MARK_TO_MARKET"
    /\ \E n \in 1..(Len(Equities(curve)) - 1) : Equities(curve)[n] = 0
--------------------------------------------------------------------------------
(* The result snapshot *)

\* ResultSnapshotBuilder.build, with the ledger, the series and the curve it has made.  It
\* also refuses two records or two fills of one id: an id is derived from the run, the
\* order and the fill or the status, of which no two records have the same.
SnapshotOf(ordered, ledger, grid, curve, through) ==
    [records |-> ordered, ledger |-> ledger, series |-> grid, through |-> through,
     curve |-> curve, metrics |-> Metrics(curve, ledger),
     raises |-> \/ ~ledger.valid
                \/ \E r \in ToSet(ordered) : r.at > through \/ ~ValidRecord(r)
                \/ ~ValidSeries(grid)
                \/ CurveRaises(ledger.events, grid)
                \/ ~ValidTrades(ledger)
                \/ ReturnsUndefined(curve)]

Valued(ordered, ledger, grid, through) ==
    SnapshotOf(ordered, ledger, grid, BuildEquityCurve(ledger.events, grid), through)

\* Without marks (~marked) the series is the event-driven one.
Gridded(ordered, ledger, marked, series, through) ==
    Valued(ordered, ledger, IF marked THEN series ELSE EventDriven(ledger.events, through), through)

\* build of the records, an optional series and the completion instant.
Snapshot(records, marked, series, through, ids) ==
    LET ordered == CanonicalOrder(records, ids)
    IN  Gridded(ordered, FillLedger(CausalFillOrder(Fills(ordered))), marked, series, through)

\* The counts of _performance_summary.
SummaryCounts(s) ==
    LET Many(kind) == Len(SelectSeq(s.records, LAMBDA r : r.kind = kind))
    IN  [orders |-> Cardinality({r.order : r \in ToSet(s.records)}), fills |-> s.ledger.fills,
         cancellations |-> Many("CANCELLATION"), rejections |-> Many("REJECTION")]

\* ResultSnapshotBuilder.verify, of what is left once contents are their own addresses:
\* the stored grid is the one the curve gives back, and the summary follows from it.
SnapshotVerifies(s) ==
    /\ s.series.basis = "MARK_TO_MARKET" => s.series = ToSeries(s.curve)
    /\ BuildEquityCurve(s.ledger.events, ToSeries(s.curve)) = s.curve
--------------------------------------------------------------------------------
(* Detail objects *)

DetailKinds == {"TRADE_DETAIL", "POSITION_SNAPSHOT", "REPLAY_LEDGER", "CALCULATION_SERIES"}

\* The rows of _trade_row, _position_row, _ledger_rows and _calculation_row: a row is its
\* kind, its time and an identity.  fills and ledger are the account's.
Row(kind, at, m, n) == [kind |-> kind, at |-> at, id |-> <<m, n>>]
Rows(s, fills, ledger) ==
    {Row("TRADE_DETAIL", s.records[n].at, n, 0) : n \in DOMAIN s.records}
    \cup UNION {{Row("POSITION_SNAPSHOT", s.records[n].at, n, i) :
                    i \in {j \in Instruments : s.records[n].book[j].quantity > 0}} :
                  n \in DOMAIN s.records}
    \cup UNION {{Row("REPLAY_LEDGER", fills[n].bar.ends, n, m) : m \in DOMAIN ledger[n]} :
                  n \in DOMAIN ledger}
    \cup {Row("CALCULATION_SERIES", s.curve.opening, 0, 0)}
    \cup {Row("CALCULATION_SERIES", s.curve.points[n].at, n, 0) : n \in DOMAIN s.curve.points}

\* _sort_rows: by time, then by identity.
SortRows(rows) ==
    SortedSeq(rows, LAMBDA r, q :
        \/ r.at < q.at
        \/ r.at = q.at /\ (r.id[1] < q.id[1] \/ (r.id[1] = q.id[1] /\ r.id[2] < q.id[2])))

\* One chunk of build's loop over a partition.
Part(kind, week, rows, number) ==
    [kind |-> kind, week |-> week, number |-> number,
     rows |-> SubSeq(SortRows(rows), (number - 1) * MaxRowsPerPart + 1,
                     Lesser(number * MaxRowsPerPart, Cardinality(rows)))]

\* DetailObjectBuilder.build: the parts of every ET week and kind that has rows.
DetailParts(rows) ==
    UNION {LET within == {r \in rows : r.kind = k /\ EtWeek(r.at) = w}
           IN  {Part(k, w, within, n) :
                  n \in 1..((Cardinality(within) + MaxRowsPerPart - 1) \div MaxRowsPerPart)} :
             k \in DetailKinds, w \in {EtWeek(r.at) : r \in rows}}

\* _verify_parts: numbered without gaps, and no overlap in time.
PartsVerify(group) ==
    /\ {p.number : p \in group} = 1..Cardinality(group)
    /\ \A p, q \in group : p.number < q.number => p.rows[Len(p.rows)].at <= q.rows[1].at

\* verify and _verify_object: rows in their week and in order.
DetailsVerify(parts) ==
    \A p \in parts : /\ \A r \in ToSet(p.rows) : EtWeek(r.at) = p.week
                     /\ p.rows = SortRows(ToSet(p.rows))
                     /\ PartsVerify({q \in parts : q.kind = p.kind /\ q.week = p.week})

\* reassemble_detail_bundle: the rows of one kind, from the parts in their own order.
Reassembled(parts, kind) ==
    FlattenSeq([n \in 1..Cardinality({p \in parts : p.kind = kind}) |->
        SortedSeq({p \in parts : p.kind = kind},
                     LAMBDA p, q : p.week < q.week \/ (p.week = q.week /\ p.number < q.number))[n].rows])
--------------------------------------------------------------------------------
(* Monthly judgment *)

\* An evaluation has at, gap, trade and the key of its first failing condition, <<>> for
\* none.  What JudgmentEvaluation demands:
ValidEvaluation(v) == v.gap => ~v.trade /\ v.failed = <<>>

\* MonthlyJudgmentBuilder.build, for one ET month.
MonthTallies(month, evaluations, records) ==
    LET judged == SelectSeq(evaluations, LAMBDA v : EtMonth(v.at) = month)
        traded == SelectSeq(records, LAMBDA r : EtMonth(r.at) = month)
        Many(s, Test(_)) == Len(SelectSeq(s, Test))
    IN  [evaluations |-> Len(judged), gaps |-> Many(judged, LAMBDA v : v.gap),
         triggered |-> Many(judged, LAMBDA v : v.trade),
         failures |-> Many(judged, LAMBDA v : ~v.trade /\ v.failed # <<>>),
         trades |-> Len(traded), rejected |-> Many(traded, LAMBDA r : r.kind = "REJECTION")]

Months(evaluations, records) ==
    {EtMonth(v.at) : v \in ToSet(evaluations)} \cup {EtMonth(r.at) : r \in ToSet(records)}

\* What MonthlyJudgmentSummary demands.
ValidMonth(m) ==
    /\ m.rejected <= m.trades
    /\ m.gaps + m.triggered <= m.evaluations
================================================================================
