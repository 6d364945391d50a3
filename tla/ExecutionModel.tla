----------------------------- MODULE ExecutionModel -----------------------------
(***************************************************************************)
(* BacktestExecutionModel: the account that replays long orders against    *)
(* completed bars.  It is sequential; what is hard is the arithmetic over  *)
(* long sequences of submit, cancel, advance_time and process_bar.         *)
(*                                                                         *)
(* Money is an integer number of MONEY_QUANTUMs and a quantity an integer  *)
(* number of QUANTITY_QUANTUMs, Share of which are one share; a price is   *)
(* money per share.  quantize_money is then RoundHalfEven, and the         *)
(* identity on integers.  Divisions are exact: the 28 digits of Python's   *)
(* context are not modelled, nor is the numeric(24,8) range.  Every        *)
(* optional number of a request is positive in the code, so 0 is None.     *)
(***************************************************************************)
EXTENDS Integers, Sequences, FiniteSets, Functions

CONSTANTS
    Instruments,
    Fractional,      \* fractional_instrument_ids
    Requests,        \* the OrderRequests that may be submitted
    Bars,            \* the ExecutionBars that may be processed
    Instants,        \* the arguments of advance_time
    Seeds,           \* the arguments of seed_long_position
    InitialCash,
    Share,           \* QUANTITY_QUANTUMs in one share
    BasisPoints,     \* BASIS_POINTS: the unit of the rates below
    FeeRate, SlippageRate, BufferRate, ParticipationRate,
    MaxStrategyNotional, MaxGrossExposure, MaxInstrumentExposure,
    GtcHorizon,      \* good_till_cancelled_horizon
    MaxOrderHorizon,
    MaxSeeds,        \* bound: lots seeded per instrument
    MaxOrders,       \* bound: orders submitted
    MaxBars          \* bound: bars processed

\* What the constructors of the policies demand.
ValidPolicy ==
    /\ FeeRate \in 0..BasisPoints - 1 /\ SlippageRate \in 0..BasisPoints - 1
    /\ GtcHorizon \in Nat \ {0} /\ MaxOrderHorizon \in Nat /\ GtcHorizon <= MaxOrderHorizon

ValidMicrostructure == BufferRate \in 0..BasisPoints - 1 /\ ParticipationRate \in 1..BasisPoints

\* What the constructors of OrderRequest and ExecutionBar demand.
ValidParameters(r) ==
    /\ (r.limit > 0) = (r.type \in {"LIMIT", "STOP_LIMIT"})
    /\ (r.stop > 0) = (r.type \in {"STOP", "STOP_LIMIT"})
    /\ (r.trail > 0) = (r.type = "TRAILING_STOP") /\ r.trail <= BasisPoints

ValidMeasure(r) ==
    (r.quantity = 0) # (r.notional = 0) /\ (r.mode = "NOTIONAL_AMOUNT") = (r.notional > 0)

ValidRequest(r) ==
    /\ r.side \in {"BUY", "SELL"} /\ r.tif \in {"DAY", "GTC", "GTD"}
    /\ r.type \in {"MARKET", "LIMIT", "STOP", "STOP_LIMIT", "TRAILING_STOP"}
    /\ r.mode \in {"WHOLE_SHARES", "FRACTIONAL_SHARES", "NOTIONAL_AMOUNT"}
    /\ {r.submitted, r.eligible, r.dayExpires, r.expires} \subseteq Nat
    /\ {r.reference, r.quantity, r.notional, r.limit, r.stop, r.trail, r.cap} \subseteq Nat
    /\ r.instrument \in Instruments /\ r.reference > 0
    /\ r.submitted <= r.eligible /\ r.eligible < r.dayExpires
    /\ r.type = "MARKET" => r.tif = "DAY"
    /\ ValidMeasure(r)
    /\ ValidParameters(r)
    /\ IF r.tif = "GTD" THEN r.expires > r.eligible ELSE r.expires = 0

ValidBar(b) ==
    /\ {b.starts, b.ends, b.open, b.high, b.low, b.volume} \subseteq Nat
    /\ b.instrument \in Instruments /\ b.starts < b.ends /\ b.complete \in BOOLEAN
    /\ 0 < b.low /\ b.low <= b.open /\ b.open <= b.high

\* What seed_long_position demands of its arguments.
ValidSeed(s) ==
    s.instrument \in Instruments /\ {s.quantity, s.unitCost} \subseteq Nat \ {0}

ASSUME ExecutionAssumption ==
    /\ Share \in Nat \ {0} /\ BasisPoints \in Nat \ {0} /\ InitialCash \in Nat
    /\ IsFiniteSet(Instruments) /\ Fractional \subseteq Instruments
    /\ {MaxStrategyNotional, MaxGrossExposure, MaxInstrumentExposure} \subseteq Nat
    /\ ValidPolicy /\ ValidMicrostructure
    /\ \A r \in Requests : ValidRequest(r)
    /\ \A b \in Bars : ValidBar(b)
    /\ \A s \in Seeds : ValidSeed(s)

VARIABLES
    acct,   \* _cash, _lots, _orders (in submission order), _fills, _ledger, and
            \* whether posting raised, which ends the replay; seeded, the seeded basis
    now,    \* _now; -1 is None
    bars    \* how many bars were processed

vars == <<acct, now, bars>>
--------------------------------------------------------------------------------
(* money.py *)

\* _quantize: n / d to the nearest integer, ties to even.
RoundHalfEven(n, d) ==
    LET q == n \div d   r == n % d
    IN  IF 2 * r < d \/ (2 * r = d /\ q % 2 = 0) THEN q ELSE q + 1

ApplyRate(base, rate) == RoundHalfEven(base * rate, BasisPoints)

QuantizeQuantity(q, fractional) == IF fractional THEN q ELSE Share * RoundHalfEven(q, Share)

\* _floor_to_quantum of n / d.
FloorToQuantum(n, d, quantum) == IF n <= 0 THEN 0 ELSE quantum * (n \div (d * quantum))

Least(S) == CHOOSE x \in S : \A y \in S : x <= y
Greater(a, b) == IF a > b THEN a ELSE b
Lesser(a, b) == IF a < b THEN a ELSE b
\* The value of a loop over a sequence.
Loop(Turn(_, _), start, s) ==
    LET run[j \in 0..Len(s)] == IF j = 0 THEN start ELSE Turn(run[j - 1], s[j])
    IN  run[Len(s)]
SumOverAll(S, f(_)) == SumFunction([x \in S |-> f(x)])
SumOver(s, f(_)) == SumFunction([j \in DOMAIN s |-> f(s[j])])
--------------------------------------------------------------------------------
(* The account *)

IsFractional(r) == r.mode # "WHOLE_SHARES"
IsOpen(o) == o.status \in {"ACCEPTED", "PARTIALLY_FILLED"}

Position(a, i) == SumOver(a.lots[i], LAMBDA l : l.quantity)
CostBasis(a, i) == SumOver(a.lots[i], LAMBDA l : l.basis)
PositionExposure(a) ==
    SumOverAll(Instruments, LAMBDA i : CostBasis(a, i))

BuyingPower(a) == a.cash - ApplyRate(a.cash, BufferRate)

\* What the open orders other than the k-th that pass a test reserve.
Reserved(a, k, Test(_), Amount(_)) ==
    SumFunction([j \in DOMAIN a.orders |->
        IF j # k /\ IsOpen(a.orders[j]) /\ Test(a.orders[j].request) THEN Amount(a.orders[j])
        ELSE 0])
ReservedCash(a, k) == Reserved(a, k, LAMBDA r : TRUE, LAMBDA o : o.cash)
ReservedNotional(a, k) == Reserved(a, k, LAMBDA r : TRUE, LAMBDA o : o.notional)
InstrumentReservedNotional(a, k, i) ==
    Reserved(a, k, LAMBDA r : r.instrument = i /\ r.side = "BUY", LAMBDA o : o.notional)
ReservedQuantity(a, k, i) ==
    Reserved(a, k, LAMBDA r : r.instrument = i /\ r.side = "SELL", LAMBDA o : o.quantity)

EstimatedPrice(reference) == reference + ApplyRate(reference, SlippageRate)

\* _estimated_commitment: the notional and the cash an open BUY still needs.
EstimatedCommitment(o) ==
    LET notional == IF o.request.notional > 0 THEN o.left
                    ELSE RoundHalfEven(EstimatedPrice(o.request.reference) * o.left, Share)
    IN  [notional |-> notional, cash |-> notional + ApplyRate(notional, FeeRate)]

Release(o) == [o EXCEPT !.cash = 0, !.notional = 0, !.quantity = 0]
Close(o, status, reason) == [Release(o) EXCEPT !.status = status, !.reason = reason]
Reject(o, reason) == [o EXCEPT !.status = "REJECTED", !.reason = reason]

\* _refresh_reservation.
Refresh(o) ==
    IF o.request.side = "SELL" THEN [o EXCEPT !.quantity = o.left]
    ELSE LET c == EstimatedCommitment(o) IN [o EXCEPT !.cash = c.cash, !.notional = c.notional]

ExpiryOf(r) ==
    CASE r.tif = "DAY" -> r.dayExpires
      [] r.tif = "GTC" -> r.submitted + GtcHorizon
      [] r.tif = "GTD" -> r.expires

\* _eligibility_reason; "NONE" is None.
EligibilityReason(r) ==
    IF r.mode = "WHOLE_SHARES"
    THEN IF r.quantity % Share # 0 THEN "WHOLE_SHARES_REQUIRE_INTEGER_QUANTITY" ELSE "NONE"
    ELSE IF r.instrument \notin Fractional THEN "FRACTIONAL_INSTRUMENT_NOT_ENABLED"
    ELSE IF r.mode = "NOTIONAL_AMOUNT" /\ r.side # "BUY" THEN "NOTIONAL_REQUIRES_LONG_EXPOSURE"
    ELSE IF r.type # "MARKET" \/ r.tif # "DAY" THEN "FRACTIONAL_REQUIRES_MARKET_DAY"
    ELSE "NONE"

\* The reason _reserve_or_reject refuses the k-th order, "NONE" if it does not.
Refusal(a, k) ==
    LET o == a.orders[k]  r == o.request  i == r.instrument
        need == EstimatedCommitment(o)
        exposed == PositionExposure(a) + ReservedNotional(a, k)
    IN  IF r.side = "SELL"
        THEN IF Position(a, i) - ReservedQuantity(a, k, i) < o.left
             THEN "POSITION_UNAVAILABLE" ELSE "NONE"
        ELSE IF /\ r.cap > 0
                /\ RoundHalfEven(Position(a, i) * EstimatedPrice(r.reference), Share)
                     + InstrumentReservedNotional(a, k, i) >= r.cap
        THEN "MAX_INSTRUMENT_POSITION_PERCENT"
        ELSE IF need.cash > BuyingPower(a) - ReservedCash(a, k)
        THEN "INSUFFICIENT_AVAILABLE_CASH"
        ELSE IF exposed + need.cash > MaxStrategyNotional THEN "STRATEGY_BUDGET_EXCEEDED"
        ELSE IF exposed + need.notional > MaxGrossExposure THEN "GROSS_EXPOSURE_EXCEEDED"
        ELSE IF CostBasis(a, i) + InstrumentReservedNotional(a, k, i) + need.notional
                  > MaxInstrumentExposure
        THEN "INSTRUMENT_EXPOSURE_EXCEEDED"
        ELSE "NONE"

ReserveOrReject(a, k) ==
    LET refusal == Refusal(a, k)
    IN  [a EXCEPT !.orders[k] = IF refusal = "NONE" THEN Refresh(@) ELSE Reject(@, refusal)]
--------------------------------------------------------------------------------
(* Prices *)

\* _limit_base and _stop_base; 0 is None.
LimitBase(side, limit, b) ==
    IF side = "BUY" THEN IF b.low <= limit THEN Lesser(b.open, limit) ELSE 0
    ELSE IF b.high >= limit THEN Greater(b.open, limit) ELSE 0

StopBase(side, stop, b) ==
    IF side = "BUY"
    THEN IF b.open >= stop THEN b.open ELSE IF b.high >= stop THEN stop ELSE 0
    ELSE IF b.open <= stop THEN b.open ELSE IF b.low <= stop THEN stop ELSE 0

\* The stop a trailing order has before the bar.
TrailingStop(o) ==
    LET offset == ApplyRate(o.trailReference, o.request.trail)
    IN  IF o.request.side = "SELL" THEN o.trailReference - offset ELSE o.trailReference + offset

\* _base_price: the price, 0 for None.
BasePrice(o, b) ==
    LET r == o.request
    IN  CASE r.type = "MARKET" -> b.open
          [] r.type = "LIMIT" -> LimitBase(r.side, r.limit, b)
          [] r.type = "STOP" -> StopBase(r.side, r.stop, b)
          [] r.type = "STOP_LIMIT" ->
               IF o.triggered THEN LimitBase(r.side, r.limit, b)
               ELSE LET base == StopBase(r.side, r.stop, b)
                    IN  IF IF r.side = "BUY" THEN base <= r.limit ELSE base >= r.limit
                        THEN base ELSE 0
          [] r.type = "TRAILING_STOP" -> StopBase(r.side, TrailingStop(o), b)

\* What _base_price changes in the order: the trigger and the trail's reference.
Observe(o, b) ==
    LET r == o.request
    IN  [o EXCEPT
          !.triggered = @ \/ (r.type = "STOP_LIMIT" /\ StopBase(r.side, r.stop, b) # 0),
          !.trailReference =
              IF r.type # "TRAILING_STOP" \/ BasePrice(o, b) # 0 THEN @
              ELSE IF r.side = "SELL" THEN Greater(@, b.high) ELSE Lesser(@, b.low)]

\* Defective variant: the slipped price is not clamped to the limit.
ExecutionPriceUnclamped(r, base) ==
    IF r.side = "BUY" THEN base + ApplyRate(base, SlippageRate)
    ELSE base - ApplyRate(base, SlippageRate)

\* _execution_price: slipped, but never through the limit.
ExecutionPrice(r, base) ==
    LET slippage == ApplyRate(base, SlippageRate)
    IN  IF r.side = "BUY"
        THEN IF r.limit > 0 /\ base + slippage > r.limit THEN r.limit ELSE base + slippage
        ELSE IF r.limit > 0 /\ base - slippage < r.limit THEN r.limit ELSE base - slippage
--------------------------------------------------------------------------------
(* Fills *)

\* Defective variant: a buy is sized by what is left of it and of the bar only.
FillableUncapped(a, k, price, capacity) ==
    LET o == a.orders[k]
        left == IF o.request.notional > 0 THEN o.left * Share ELSE o.left * price
    IN  FloorToQuantum(Lesser(capacity * price, left), price,
                       IF IsFractional(o.request) THEN 1 ELSE Share)

\* _fillable_quantity.  Flooring each cap and taking the least is flooring the least.
FillableQuantity(a, k, price, capacity) ==
    LET o == a.orders[k]  r == o.request  i == r.instrument
        quantum == IF IsFractional(r) THEN 1 ELSE Share
        unitCash == price + ApplyRate(price, FeeRate)
        exposure == PositionExposure(a)
        Worth(money, unit) == FloorToQuantum(money * Share, unit, quantum)
        sell == {FloorToQuantum(q, 1, quantum) : q \in {capacity, o.left, Position(a, i)}}
        buy ==
          {FloorToQuantum(capacity, 1, quantum),
           IF r.notional > 0 THEN Worth(o.left, price) ELSE FloorToQuantum(o.left, 1, quantum),
           Worth(BuyingPower(a) - ReservedCash(a, k), unitCash),
           Worth(MaxStrategyNotional - exposure - ReservedCash(a, k), unitCash),
           Worth(MaxGrossExposure - exposure - ReservedNotional(a, k), price),
           Worth(MaxInstrumentExposure - CostBasis(a, i) - InstrumentReservedNotional(a, k, i),
                 price)}
          \cup IF r.cap = 0 THEN {}
               ELSE {Worth(r.cap - RoundHalfEven(Position(a, i) * price, Share)
                             - InstrumentReservedNotional(a, k, i), price)}
    IN  Least(IF r.side = "SELL" THEN sell ELSE buy)

\* Defective variant: a partly consumed lot keeps its whole basis.
TakeFromLotKeepsBasis(c, l) ==
    LET taken == Lesser(c.left, l.quantity)
        basis == RoundHalfEven(l.basis * taken, l.quantity)
    IN  IF c.left = 0 THEN [c EXCEPT !.lots = Append(@, l)]
        ELSE [left |-> c.left - taken, basis |-> c.basis + basis,
              lots |-> IF taken = l.quantity THEN c.lots
                       ELSE Append(c.lots, [l EXCEPT !.quantity = @ - taken])]

\* One turn of _consume_fifo's loop, which ends when nothing is left to take.
TakeFromLot(c, l) ==
    LET taken == Lesser(c.left, l.quantity)
        basis == IF taken = l.quantity THEN l.basis
                 ELSE RoundHalfEven(l.basis * taken, l.quantity)
    IN  IF c.left = 0 THEN [c EXCEPT !.lots = Append(@, l)]
        ELSE [left |-> c.left - taken, basis |-> c.basis + basis,
              lots |-> IF taken = l.quantity THEN c.lots
                       ELSE Append(c.lots, [quantity |-> l.quantity - taken,
                                            basis |-> l.basis - basis])]

\* _consume_fifo: the basis consumed, the lots that stay, and what could not be taken.
ConsumeFifo(lots, quantity) ==
    Loop(TakeFromLot, [left |-> quantity, basis |-> 0, lots |-> <<>>], lots)

Entry(account, direction, amount) ==
    [account |-> account, direction |-> direction, amount |-> amount]
Entries(values) ==
    Loop(LAMBDA s, e : IF e.amount = 0 THEN s ELSE Append(s, e), <<>>, values)

BuyEntries(gross, fee) ==
    Entries(<<Entry("SECURITY", "DEBIT", gross), Entry("FEE_EXPENSE", "DEBIT", fee),
              Entry("CASH", "CREDIT", gross + fee)>>)

SellEntries(gross, fee, basis) ==
    Entries(<<Entry("CASH", "DEBIT", gross - fee), Entry("FEE_EXPENSE", "DEBIT", fee),
              Entry("SECURITY", "CREDIT", basis),
              IF gross > basis THEN Entry("REALIZED_PNL", "CREDIT", gross - basis)
              ELSE Entry("REALIZED_PNL", "DEBIT", basis - gross)>>)

\* The sum of a sequence of entries on one side, over some accounts.
Side(entries, accounts, direction) ==
    SumOver(entries, LAMBDA e :
        IF e.account \in accounts /\ e.direction = direction THEN e.amount ELSE 0)
Accounts == {"CASH", "SECURITY", "FEE_EXPENSE", "REALIZED_PNL"}

\* What the constructors of LedgerEntry and LedgerTransaction demand.
ValidTransaction(entries) ==
    /\ Len(entries) >= 2
    /\ \A e \in Range(entries) : e.amount > 0
    /\ Side(entries, Accounts, "DEBIT") = Side(entries, Accounts, "CREDIT")

\* Defective variant: a filled order keeps what it reserved.
AdvanceRemainderHolds(o, quantity, gross, price) ==
    LET left == IF o.request.notional > 0 THEN Greater(o.left - gross, 0) ELSE o.left - quantity
        p == [o EXCEPT !.left = left, !.filled = @ + quantity]
    IN  IF left = 0 THEN [p EXCEPT !.status = "FILLED"]
        ELSE Refresh([p EXCEPT !.status = "PARTIALLY_FILLED"])

\* _advance_remainder, with the quantity added to filled_quantity.
AdvanceRemainder(o, quantity, gross, price) ==
    LET r == o.request
        left == IF r.notional > 0 THEN Greater(o.left - gross, 0)
                ELSE QuantizeQuantity(o.left - quantity, IsFractional(r))
        complete == IF r.notional > 0 THEN left * Share < price ELSE left = 0
        p == [o EXCEPT !.left = left,
                       !.filled = QuantizeQuantity(@ + quantity, IsFractional(r))]
    IN  IF complete THEN [Release(p) EXCEPT !.status = "FILLED"]
        ELSE Refresh([p EXCEPT !.status = "PARTIALLY_FILLED"])

\* _record_fill: lots and cash change first; _consume_fifo raises when the lots run out, and
\* LedgerTransaction, built from the entries, when they do not make one.  What was changed by
\* then stays changed; the fill, the transaction and the order are not recorded.
RecordFill(a, k, b, quantity, base, price) ==
    LET o == a.orders[k]  i == o.request.instrument
        gross == RoundHalfEven(price * quantity, Share)
        fee == ApplyRate(gross, FeeRate)
        buy == o.request.side = "BUY"
        sold == ConsumeFifo(a.lots[i], quantity)
        entries == IF buy THEN BuyEntries(gross, fee) ELSE SellEntries(gross, fee, sold.basis)
        moved == [a EXCEPT
                   !.cash = IF buy THEN @ - gross - fee ELSE @ + gross - fee,
                   !.lots[i] = IF buy THEN Append(@, [quantity |-> quantity, basis |-> gross])
                               ELSE sold.lots]
    IN  IF ~buy /\ sold.left > 0 THEN [a EXCEPT !.lots[i] = sold.lots, !.raised = TRUE]
        ELSE IF ~ValidTransaction(entries) THEN [moved EXCEPT !.raised = TRUE]
        ELSE [moved EXCEPT
               !.ledger = Append(@, entries),
               !.fills = Append(@, [order |-> k, bar |-> b, quantity |-> quantity, base |-> base,
                                    price |-> price, gross |-> gross, fee |-> fee,
                                    basis |-> IF buy THEN gross ELSE sold.basis]),
               !.orders[k] = AdvanceRemainder(@, quantity, gross, price)]
--------------------------------------------------------------------------------
(* Operations *)

Init ==
    /\ acct = [cash |-> InitialCash, lots |-> [i \in Instruments |-> <<>>], seeded |-> 0,
               orders |-> <<>>, fills |-> <<>>, ledger |-> <<>>, raised |-> FALSE]
    /\ now = -1
    /\ bars = 0

\* seed_long_position: before any order; seeded is the basis it brings in.
SeedLongPosition(i, quantity, unitCost) ==
    LET q == QuantizeQuantity(quantity, i \in Fractional)
        basis == RoundHalfEven(q * unitCost, Share)
    IN  /\ ~acct.raised
        /\ acct.orders = <<>> /\ acct.fills = <<>>
        /\ Len(acct.lots[i]) < MaxSeeds
        /\ acct' = [acct EXCEPT !.lots[i] = Append(@, [quantity |-> q, basis |-> basis]),
                                !.seeded = @ + basis]
        /\ UNCHANGED <<now, bars>>

NewOrder(r) ==
    [request |-> r, expires |-> ExpiryOf(r), left |-> r.quantity + r.notional, filled |-> 0,
     status |-> "ACCEPTED", reason |-> "NONE", triggered |-> FALSE,
     trailReference |-> IF r.type = "TRAILING_STOP" THEN r.reference ELSE 0,
     cash |-> 0, notional |-> 0, quantity |-> 0]

\* What submit makes of the account.
Submitted(acc, r) ==
    LET k == Len(acc.orders) + 1
        a == [acc EXCEPT !.orders = Append(@, NewOrder(r))]
        late == ExpiryOf(r) > r.submitted + MaxOrderHorizon
    IN  IF EligibilityReason(r) # "NONE" THEN [a EXCEPT !.orders[k] = Reject(@, EligibilityReason(r))]
        ELSE IF late THEN [a EXCEPT !.orders[k] = Reject(@, "ORDER_HORIZON_EXCEEDED")]
        ELSE ReserveOrReject(a, k)

\* submit.  Its caller submits at the time of the event it is handling, never before now.
Submit(r) ==
    /\ ~acct.raised
    /\ Len(acct.orders) < MaxOrders
    /\ r.submitted >= now
    /\ \A k \in DOMAIN acct.orders : acct.orders[k].request.id # r.id
    /\ acct' = Submitted(acct, r)
    /\ UNCHANGED <<now, bars>>

Cancel(k) ==
    /\ ~acct.raised
    /\ IsOpen(acct.orders[k])
    /\ acct' = [acct EXCEPT !.orders[k] = Close(@, "CANCELLED", "EXPLICITLY_CANCELLED")]
    /\ UNCHANGED <<now, bars>>

Expired(o) ==
    Close(o, "EXPIRED", CASE o.request.tif = "DAY" -> "DAY_EXPIRED"
                          [] o.request.tif = "GTC" -> "GTC_HORIZON_EXPIRED"
                          [] o.request.tif = "GTD" -> "GTD_EXPIRED")

\* What advance_time(t) does to the orders.
Expire(a, t) ==
    LET Visit(s, o) == Append(s, IF IsOpen(o) /\ t >= o.expires THEN Expired(o) ELSE o)
    IN  [a EXCEPT !.orders = Loop(Visit, <<>>, @)]

AdvanceTime(t) ==
    /\ ~acct.raised
    /\ t >= now
    /\ now' = t
    /\ acct' = Expire(acct, t)
    /\ UNCHANGED bars

\* The open orders a bar may fill.
Fillable(a, b) ==
    {k \in DOMAIN a.orders : /\ IsOpen(a.orders[k])
                             /\ a.orders[k].request.instrument = b.instrument
                             /\ a.orders[k].request.eligible <= b.starts}

\* The last of some orders by _order_key.
LastSubmitted(a, ks) ==
    CHOOSE k \in ks : \A j \in ks \ {k} :
        LET s == a.orders[j].request.submitted  t == a.orders[k].request.submitted
        IN  s < t \/ (s = t /\ j < k)

\* Defective variant: every order may take the bar's whole capacity.
FillOrderAlone(b, c, k) ==
    LET base == BasePrice(c.acct.orders[k], b)
        price == ExecutionPrice(c.acct.orders[k].request, base)
        quantity == FillableQuantity(c.acct, k, price, c.capacity)
    IN  IF base = 0 \/ quantity <= 0 THEN c
        ELSE [c EXCEPT !.acct = RecordFill(@, k, b, quantity, base, price)]

\* One turn of process_bar's loop; c is the account and the capacity left.
FillOrder(b, c, k) ==
    IF c.capacity <= 0 \/ c.acct.raised THEN c
    ELSE LET base == BasePrice(c.acct.orders[k], b)
             price == ExecutionPrice(c.acct.orders[k].request, base)
             a == [c.acct EXCEPT !.orders[k] = Observe(@, b)]
             quantity == FillableQuantity(a, k, price, c.capacity)
         IN  IF base = 0 THEN [c EXCEPT !.acct = a]
             ELSE IF quantity <= 0 THEN [c EXCEPT !.acct = a]
             ELSE [acct |-> RecordFill(a, k, b, quantity, base, price),
                   capacity |-> c.capacity - quantity]

Capacity(b) == FloorToQuantum(b.volume * ParticipationRate, BasisPoints, 1)

\* advance_to_bar, on the account: a bar that began before the clock, but has not ended
\* before it, is a coarser bar that overlaps finer ones and expires nothing.
AdvanceToBar(a, clock, b) == IF b.starts >= clock THEN Expire(a, b.starts) ELSE a

\* What process_bar fills, once the clock has advanced: the orders take their turns in the
\* order of their submission, the last one outermost in the fold.
Matched(a, b) ==
    IF ~b.complete \/ Capacity(b) <= 0 THEN a
    ELSE MapThenFoldSet(LAMBDA k, c : FillOrder(b, c, k),
                        [acct |-> a, capacity |-> Capacity(b)],
                        LAMBDA k : k, LAMBDA ks : LastSubmitted(a, ks), Fillable(a, b)).acct

ProcessBar(b) ==
    /\ ~acct.raised
    /\ bars < MaxBars
    /\ b.starts >= now \/ b.ends >= now
    /\ bars' = bars + 1
    /\ now' = Greater(now, b.starts)
    /\ acct' = Matched(AdvanceToBar(acct, now, b), b)

Next ==
    \/ \E s \in Seeds : SeedLongPosition(s.instrument, s.quantity, s.unitCost)
    \/ \E r \in Requests : Submit(r)
    \/ \E k \in DOMAIN acct.orders : Cancel(k)
    \/ \E t \in Instants : AdvanceTime(t)
    \/ \E b \in Bars : ProcessBar(b)

Spec == Init /\ [][Next]_vars
--------------------------------------------------------------------------------
(* Properties. *)

\* The least a fill may be sold for, a whole share or one quantum of a fractional one at the
\* price slippage leaves, is more than half a quantum of money.  No code demands it: without
\* it a fill may be worth nothing, and the LedgerTransaction it makes may be empty.
NoDust ==
    \A b \in Bars : \A p \in b.low..b.high :
        Share < 2 * (p - ApplyRate(p, SlippageRate))
                  * (IF b.instrument \in Fractional THEN 1 ELSE Share)

\* What the fills of the k-th order add up to.
FilledBy(a, k) == SumOver(a.fills, LAMBDA f : IF f.order = k THEN f.quantity ELSE 0)
SpentBy(a, k) == SumOver(a.fills, LAMBDA f : IF f.order = k THEN f.gross ELSE 0)
\* What the ledger posted to an account.
Booked(a, account) ==
    SumOver(a.ledger, LAMBDA t : Side(t, {account}, "DEBIT") - Side(t, {account}, "CREDIT"))

\* The ledger explains the account: the cash is the initial cash plus what was posted to
\* CASH, and the cost basis of the lots is the seeded basis plus what was posted to
\* SECURITY, to the quantum, however lots were split and rounded, and although _record_fill
\* changes cash and lots before it knows whether there will be a transaction: what a fill
\* that raises has changed by then is worth nothing (_record_fill, _consume_fifo).
LedgerExplainsAccount ==
    /\ acct.cash = InitialCash + Booked(acct, "CASH")
    /\ PositionExposure(acct) = acct.seeded + Booked(acct, "SECURITY")

\* Reservations are made at one price and fills at others, yet what was promised is there:
\* the position never falls below what open sells reserve of it, until a fill raises, which
\* takes the shares and leaves the reservation; the cost of what is held stays within the
\* risk limits, unless more was seeded; and the cash falls below zero by less than half a
\* quantum per share of one fill, and a quantum and a half, which is what sizing by a rounded
\* unit fee can cost (_reserve_or_reject, _fillable_quantity, _consume_fifo).
CommitmentsCovered ==
    /\ \A i \in Instruments :
          /\ acct.raised \/ ReservedQuantity(acct, 0, i) <= Position(acct, i)
          /\ CostBasis(acct, i) <= Greater(MaxInstrumentExposure, acct.seeded)
    /\ PositionExposure(acct)
         <= Greater(Lesser(MaxStrategyNotional, MaxGrossExposure), acct.seeded)
    /\ \/ acct.cash >= 0
       \/ \E f \in Range(acct.fills) : 0 < 2 * Share * acct.cash + f.quantity + 3 * Share

\* The fills an order received add up to what it reports, a notional order never spends
\* more than its amount, and only an open order reserves anything (_advance_remainder,
\* _release_reservation).
OrdersAddUp ==
    \A k \in DOMAIN acct.orders :
        LET o == acct.orders[k]
        IN  /\ o.filled = FilledBy(acct, k)
            /\ IF o.request.notional > 0 THEN o.left = o.request.notional - SpentBy(acct, k)
               ELSE o.left + o.filled = o.request.quantity
            /\ ~IsOpen(o) => {o.cash, o.notional, o.quantity} = {0}
            /\ o.status = "ACCEPTED" => o.filled = 0
            /\ o.status = "FILLED" => \E f \in Range(acct.fills) : f.order = k

\* LIMIT_PROTECTED_PRICE_RULE: the executed price lies between the base price and the
\* limit; and no order is filled by a bar that began before it was eligible.
FillsRespectOrders ==
    \A f \in Range(acct.fills) :
        LET r == acct.orders[f.order].request
        IN  /\ f.bar.starts >= r.eligible
            /\ f.bar.low <= f.base /\ f.base <= f.bar.high
            /\ IF r.side = "BUY" THEN f.price >= f.base /\ (r.limit > 0 => f.price <= r.limit)
               ELSE f.price <= f.base /\ (r.limit > 0 => f.price >= r.limit)

NewFills == SubSeq(acct'.fills, Len(acct.fills) + 1, Len(acct'.fills))

\* VOLUME_PARTICIPATION_RULE: the orders a bar fills share one capacity.
CapacityShared ==
    [][NewFills # <<>> =>
         SumOver(NewFills, LAMBDA f : f.quantity) <= Capacity(NewFills[1].bar)]_vars

\* CAPACITY_FLOOR_RULE, for cash: what a fill costs, its fee included, fits in the buying
\* power that is left.
FillsFitBuyingPower ==
    [][NewFills # <<>> /\ acct.orders[NewFills[1].order].request.side = "BUY" =>
         NewFills[1].gross + NewFills[1].fee
           <= BuyingPower(acct) - ReservedCash(Expire(acct, now'), NewFills[1].order)]_vars
================================================================================
