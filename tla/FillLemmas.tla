------------------------------ MODULE FillLemmas ------------------------------
(***************************************************************************)
(* One fill of ExecutionModel, for every policy, order and bar: its price, *)
(* its quantity and the record of it keep the invariant of the account.    *)
(***************************************************************************)
EXTENDS AccountLemmas

\* Most steps are first-order; a step that needs arithmetic or records says SMT, or cites
\* ONLY what it computes with.
USE Zenon

\* What is not used below stays hidden: a visible name is expanded in every step.
HIDE DEF NatInduction, DownwardNatInduction, GeneralNatInduction, SmallestNatural,
         RecursiveFcnOfNat, NatInductiveDef, RecursiveFcnOfNatType, NatInductiveDefType,
         RecursiveFcnOfNatUnique, NatInductiveUnique, FiniteNatInductiveDef,
         FiniteNatInductiveDefType, FiniteNatInductiveUnique, EmptyIsWellFounded,
         IsWellFoundedOnSubset, IsWellFoundedOnSubrelation, MinWF,
         WellFoundedIsIrreflexive, WellFoundedIsAsymmetric, WFSetLessThanIrreflexive,
         SetLessTransitive, WFInduction, WFDefOnUnique, WFInductiveDefLemma,
         TransitiveClosureThm, TransitiveClosureMinimal, TCTCTC, TCRTC, RTCTC,
         TransitiveClosureChopLast, TransitiveClosureWF, WFInductiveDef,
         WFInductiveDefType, PreImageWellFounded, WFLexPairOrdering,
         WFLexProductOrdering, FS_NatSurjection, FS_NatBijection, FS_CountingElements,
         FS_SurjCardinalityBound, FS_CardinalityType, FS_Bijection,
         FS_SameCardinalityBij, FS_SurjSameCardinalityImpliesInj, FS_Surjection,
         FS_Image, FS_Injection, FS_PigeonHole, FS_EmptySet, FS_AddElement,
         FS_RemoveElement, FS_Singleton, FS_Subset, FS_Interval,
         FS_BoundedSetOfNaturals, FS_Induction, FS_FiniteSubsetsOfFinite,
         FS_StrictSubsetOrderingWellFounded, FS_WFInduction, FS_Union,
         FS_MajoritiesIntersect, FS_Intersection, FS_Difference, FS_UNION, FS_Product,
         FS_SUBSET, Induction, SomeIn, SmallSubset, SmallerSubset, SumsExist, SumDef,
         SumsAgree, SumOfNothing, SumStep, SumClosed, SumInt, SumRemove, SumDifference,
         SumSame, SumNat, SumChange, SumExtend, SumGrows, DivMod, RoundPositive,
         ConsumeFifoRuns, SeqDomain, FiniteDomain, SumOverNothing, PartOfBasis,
         TakeFromLotTurn, SideIs, SideAppend, KeptSide, EntriesRuns, BothSides,
         KeptFromNothing, EntriesOfThree, EntriesOfFour, SumAtLeast, BookedNothing,
         NotFilled, HeldIs, HeldShrinks, HeldAppend, OthersHeld, CommitmentNat, Closed,
         OrdersReplaced, OrdersSettle, SettlesSelf, OrderSettles, CancelKeeps,
         VisitedSettles, ExpireRuns, ExpireKeeps, ObserveSettles, OrderAdded,
         NewOrderIs, Rejected, WholeMultiple, Accepted, Amended, RefusalIs,
         EligibilityIs, SubmittedKeeps, SeedKeeps, SeedsKeep

(* Prices and quantities of a fill *)

\* A price of the bar, and one within the limit of a request.
Within(b, base) == base \in Nat /\ b.low <= base /\ base <= b.high
Meets(r, p) == r.limit > 0 => IF r.side = "BUY" THEN p <= r.limit ELSE p >= r.limit

\* What ExecutionBar demands, as facts.
LEMMA BarNat ==
    ASSUME NEW b, ValidBar(b)
    PROVE  /\ b.open \in Nat /\ b.high \in Nat /\ b.low \in Nat /\ b.volume \in Nat
           /\ b.starts \in Nat /\ 0 < b.low /\ b.low <= b.open /\ b.open <= b.high
  BY DEF ValidBar

\* The base price of a limit order lies in the bar and within the limit.
LEMMA LimitBaseWithin ==
    ASSUME NEW b, ValidBar(b), NEW side, NEW limit \in Nat, LimitBase(side, limit, b) # 0
    PROVE  /\ Within(b, LimitBase(side, limit, b))
           /\ IF side = "BUY" THEN LimitBase(side, limit, b) <= limit
              ELSE LimitBase(side, limit, b) >= limit
  BY BarNat, SMT DEF LimitBase, Within, Lesser, Greater

\* That of a stop order lies in the bar.
LEMMA StopBaseWithin ==
    ASSUME NEW b, ValidBar(b), NEW side, NEW stop \in Int, StopBase(side, stop, b) # 0
    PROVE  Within(b, StopBase(side, stop, b))
  BY BarNat, SMT DEF StopBase, Within

\* Whatever the order type, the base price lies in the bar and within the limit.
LEMMA BasePriceWithin ==
    ASSUME NEW R, NEW o \in Order(R), ValidRequest(o.request), NEW b, ValidBar(b),
           BasePrice(o, b) # 0
    PROVE  Within(b, BasePrice(o, b)) /\ Meets(o.request, BasePrice(o, b))
<1> DEFINE r == o.request
<1>1. /\ r.limit \in Nat /\ r.stop \in Nat /\ r.trail \in Nat
      /\ r.side \in {"BUY", "SELL"}
      /\ r.type \in {"MARKET", "LIMIT", "STOP", "STOP_LIMIT", "TRAILING_STOP"}
  BY DEF ValidRequest
<1>2. r.limit > 0 => r.type \in {"LIMIT", "STOP_LIMIT"}
  BY DEF ValidRequest, ValidParameters
<1>3. Within(b, b.open)  BY BarNat DEF Within
<1>4. TrailingStop(o) \in Int
  <2>1. r.trail \in 0..BasisPoints  BY <1>1, Constants, SMT DEF ValidRequest, ValidParameters
  <2>2. o.trailReference \in Nat  BY DEF Order
  <2>3. ApplyRate(o.trailReference, r.trail) \in Nat  BY <2>1, <2>2, RateOf
  <2> QED  BY ONLY <2>2, <2>3 DEF TrailingStop
<1>5. CASE r.type = "MARKET"
  <2>1. BasePrice(o, b) = b.open  BY <1>5 DEF BasePrice
  <2> QED  BY <1>2, <1>3, <1>5, <2>1 DEF Meets
<1>6. CASE r.type = "LIMIT"
  <2>1. BasePrice(o, b) = LimitBase(r.side, r.limit, b)  BY <1>6 DEF BasePrice
  <2> QED  BY <1>1, <2>1, LimitBaseWithin DEF Meets
<1>7. CASE r.type = "STOP"
  <2>1. BasePrice(o, b) = StopBase(r.side, r.stop, b)  BY <1>7 DEF BasePrice
  <2> QED  BY <1>1, <1>2, <1>7, <2>1, StopBaseWithin, SMT DEF Meets
<1>8. CASE r.type = "STOP_LIMIT" /\ o.triggered
  <2>1. BasePrice(o, b) = LimitBase(r.side, r.limit, b)  BY <1>8 DEF BasePrice
  <2> QED  BY <1>1, <2>1, LimitBaseWithin DEF Meets
<1>9. CASE r.type = "STOP_LIMIT" /\ ~o.triggered
  <2>1. /\ BasePrice(o, b) = StopBase(r.side, r.stop, b)
        /\ IF r.side = "BUY" THEN BasePrice(o, b) <= r.limit ELSE BasePrice(o, b) >= r.limit
    BY <1>9 DEF BasePrice
  <2> QED  BY <1>1, <2>1, StopBaseWithin, SMT DEF Meets
<1>10. CASE r.type = "TRAILING_STOP"
  <2>1. BasePrice(o, b) = StopBase(r.side, TrailingStop(o), b)  BY <1>10 DEF BasePrice
  <2> QED  BY <1>2, <1>4, <1>10, <2>1, StopBaseWithin DEF Meets
<1> QED  BY <1>1, <1>5, <1>6, <1>7, <1>8, <1>9, <1>10

\* LIMIT_PROTECTED_PRICE_RULE: slippage moves the price against the order, by the rate at
\* most, and not past its limit.
LEMMA ExecutionPriceBounds ==
    ASSUME NEW r, ValidRequest(r), NEW base \in Nat, base > 0, Meets(r, base)
    PROVE  /\ ExecutionPrice(r, base) \in Nat /\ Meets(r, ExecutionPrice(r, base))
           /\ r.side = "BUY" => ExecutionPrice(r, base) >= base
           /\ r.side # "BUY" => /\ ExecutionPrice(r, base) <= base
                                /\ ExecutionPrice(r, base) >= base - ApplyRate(base, SlippageRate)
<1>1. ApplyRate(base, SlippageRate) \in Nat /\ ApplyRate(base, SlippageRate) <= base  BY Rates
<1>2. r.limit \in Nat  BY DEF ValidRequest
<1> QED  BY <1>1, <1>2, SMT DEF ExecutionPrice, Meets

\* A set of naturals has a least element.
LEMMA LeastIs ==
    ASSUME NEW S \in SUBSET Nat, S # {}
    PROVE  Least(S) \in S /\ \A y \in S : Least(S) <= y
<1>1. \E x \in S : \A y \in S : x <= y
  <2>1. IsWellFoundedOn(OpToRel(<, Nat), Nat)  BY NatLessThanWellFounded
  <2>2. PICK x \in S : \A y \in S : ~(<<y, x>> \in OpToRel(<, Nat))
    BY <2>1, WFMin
  <2>3. \A y \in S : x <= y
    <3> TAKE y \in S
    <3>1. x \in Nat /\ y \in Nat  OBVIOUS
    <3>2. ~(<<y, x>> \in OpToRel(<, Nat))  BY <2>2
    <3>3. ~(y < x)  BY <3>1, <3>2 DEF OpToRel
    <3> QED  BY ONLY <3>1, <3>3
  <2> QED  BY <2>3
<1> QED  BY <1>1 DEF Least

\* What was floored for a bound keeps to it.
LEMMA Capped ==
    ASSUME NEW n \in Int, NEW d \in Nat \ {0}, NEW quantum \in Nat \ {0}, NEW q \in Nat, q > 0,
           q <= FloorToQuantum(n, d, quantum)
    PROVE  d * q <= n
<1> DEFINE F == FloorToQuantum(n, d, quantum)
<1>1. F \in Nat /\ (F > 0 => d * F <= n)  BY FloorBounds
<1> HIDE DEF F
<1>2. q <= F  BY DEF F
<1>3. F > 0  BY <1>1, <1>2, SMT
<1>4. d * q <= d * F /\ d * q \in Int /\ d * F \in Int  BY ONLY <1>1, <1>2, Scaling
<1> QED  BY ONLY <1>1, <1>3, <1>4

\* The least of several such caps is a multiple of the quantum and keeps to all of them.
LEMMA LeastCap ==
    ASSUME NEW quantum \in Nat \ {0}, NEW S, S # {},
           \A y \in S : \E n \in Int, d \in Nat \ {0} : y = FloorToQuantum(n, d, quantum)
    PROVE  /\ Least(S) \in Nat /\ \A y \in S : Least(S) <= y
           /\ \E m \in Nat : Least(S) = quantum * m
<1>1. \A y \in S : y \in Nat /\ \E m \in Nat : y = quantum * m
  <2> TAKE y \in S
  <2>1. PICK n \in Int, d \in Nat \ {0} : y = FloorToQuantum(n, d, quantum)  OBVIOUS
  <2>2. /\ FloorToQuantum(n, d, quantum) \in Nat
        /\ \E m \in Nat : FloorToQuantum(n, d, quantum) = quantum * m
    BY ONLY FloorBounds
  <2> QED  BY <2>1, <2>2
<1>2. S \in SUBSET Nat  BY <1>1
<1>3. Least(S) \in S /\ \A y \in S : Least(S) <= y  BY <1>2, LeastIs
<1> QED  BY <1>1, <1>3

\* The quantum a fill of a request is a multiple of.
Quantum(r) == IF IsFractional(r) THEN 1 ELSE Share

\* Such a fill is whole shares where the request demands it.
LEMMA QuantumIs ==
    ASSUME NEW r, NEW q \in Nat, \E m \in Nat : q = Quantum(r) * m
    PROVE  /\ Quantum(r) \in Nat \ {0}
           /\ r.mode = "WHOLE_SHARES" => Multiple(q)
<1>1. Share \in Nat \ {0}  BY Constants
<1>2. Quantum(r) \in Nat \ {0}  BY ONLY <1>1 DEF Quantum
<1>3. ASSUME r.mode = "WHOLE_SHARES" PROVE Multiple(q)
  <2>1. Quantum(r) = Share  BY <1>3 DEF Quantum, IsFractional
  <2>2. PICK m \in Nat : q = Share * m  BY <2>1
  <2>3. m * 1 <= m * Share  BY ONLY <1>1, Scaling
  <2>4. m \in 0..q  BY ONLY <1>1, <2>2, <2>3
  <2> QED  BY <2>2, <2>4 DEF Multiple
<1> QED  BY <1>2, <1>3

\* The buying power is at most the cash, and none if the cash is negative.
LEMMA Affords ==
    ASSUME NEW cash \in Int
    PROVE  /\ cash - ApplyRate(cash, BufferRate) \in Int
           /\ cash >= 0 => cash - ApplyRate(cash, BufferRate) <= cash
           /\ cash < 0 => cash - ApplyRate(cash, BufferRate) <= 0
<1>1. BufferRate \in 0..BasisPoints /\ BasisPoints \in Nat \ {0}  BY ONLY Constants
<1>2. cash * BufferRate \in Int  BY ONLY <1>1
<1>3. ApplyRate(cash, BufferRate) \in Int  BY <1>1, <1>2, RoundBounds DEF ApplyRate
<1>4. CASE cash >= 0
  <2>1. cash \in Nat  BY ONLY <1>4
  <2>2. ApplyRate(cash, BufferRate) \in Nat  BY <1>1, <2>1, RateOf
  <2> QED  BY ONLY <1>4, <2>1, <2>2
<1>5. CASE cash < 0
  <2>1. -cash \in Nat  BY ONLY <1>5
  <2>2. (-cash) * BufferRate <= (-cash) * BasisPoints  BY ONLY <1>1, <2>1, Scaling
  <2>3. BasisPoints * cash <= cash * BufferRate  BY ONLY <1>1, <2>2
  <2>4. cash <= ApplyRate(cash, BufferRate)  BY <1>1, <1>2, <2>3, RoundAtLeast DEF ApplyRate
  <2> QED  BY ONLY <1>3, <1>5, <2>4
<1> QED  BY ONLY <1>3, <1>4, <1>5

\* What a quantity sold may be.
SellCaps(a, k, capacity, q) ==
    /\ q \in Nat /\ q <= capacity /\ q <= a.orders[k].left
    /\ q <= Position(a, a.orders[k].request.instrument)
    /\ \E m \in Nat : q = Quantum(a.orders[k].request) * m

\* _fillable_quantity of a sell: no more than the capacity, the order and the position.
LEMMA FillableSell ==
    ASSUME NEW a, a.lots \in [Instruments -> Seq(Lot)], NEW k, NEW price,
           a.orders[k].request.instrument \in Instruments, a.orders[k].left \in Nat,
           a.orders[k].request.side = "SELL", NEW capacity \in Nat
    PROVE  SellCaps(a, k, capacity, FillableQuantity(a, k, price, capacity))
<1> DEFINE o == a.orders[k]
           held == Position(a, o.request.instrument)
           quantum == Quantum(o.request)
           S == {FloorToQuantum(q, 1, quantum) : q \in {capacity, o.left, held}}
           q == FillableQuantity(a, k, price, capacity)
<1>1. q = Least(S)  BY DEF FillableQuantity, Quantum
<1>2. held \in Nat  BY Exposures
<1>3. quantum \in Nat \ {0}  BY ONLY Constants DEF Quantum
<1> HIDE DEF q, held, quantum
<1>4. S # {} /\ \A y \in S : \E n \in Int, d \in Nat \ {0} : y = FloorToQuantum(n, d, quantum)
  <2>1. \A n \in {capacity, o.left, held} : n \in Int  BY <1>2, SMT
  <2> QED  BY ONLY <2>1
<1>5. /\ FloorToQuantum(capacity, 1, quantum) \in S
      /\ FloorToQuantum(o.left, 1, quantum) \in S
      /\ FloorToQuantum(held, 1, quantum) \in S
  OBVIOUS
<1> HIDE DEF S
<1>6. q \in Nat /\ (\A y \in S : q <= y) /\ \E m \in Nat : q = quantum * m
  BY <1>1, <1>3, <1>4, LeastCap
<1>7. ASSUME NEW n \in Nat, FloorToQuantum(n, 1, quantum) \in S PROVE q <= n
  <2>1. CASE q = 0  BY ONLY <2>1
  <2>2. CASE q > 0
    <3>1. q <= FloorToQuantum(n, 1, quantum)  BY <1>6, <1>7
    <3>2. 1 * q <= n  BY ONLY <1>3, <1>6, <2>2, <3>1, Capped
    <3> QED  BY ONLY <1>6, <3>2
  <2> QED  BY ONLY <1>6, <2>1, <2>2
<1> QED  BY <1>2, <1>5, <1>6, <1>7 DEF q, held, quantum, SellCaps

\* The caps _fillable_quantity puts on a buy.
BuyCaps(a, k, price, capacity, q) ==
    LET o == a.orders[k]
        i == o.request.instrument
        unitCash == price + ApplyRate(price, FeeRate)
    IN  /\ q \in Nat /\ \E m \in Nat : q = Quantum(o.request) * m
        /\ q > 0 =>
             /\ q <= capacity
             /\ IF o.request.notional > 0 THEN price * q <= o.left * Share ELSE q <= o.left
             /\ unitCash * q <= (BuyingPower(a) - ReservedCash(a, k)) * Share
             /\ unitCash * q
                  <= (MaxStrategyNotional - PositionExposure(a) - ReservedCash(a, k)) * Share
             /\ price * q
                  <= (MaxGrossExposure - PositionExposure(a) - ReservedNotional(a, k)) * Share
             /\ price * q
                  <= (MaxInstrumentExposure - CostBasis(a, i)
                        - InstrumentReservedNotional(a, k, i)) * Share

\* _fillable_quantity keeps to them.
LEMMA FillableBuy ==
    ASSUME NEW R, NEW B, NEW a \in Account(R, B), NEW k \in DOMAIN a.orders,
           ValidRequest(a.orders[k].request), a.orders[k].request.side = "BUY",
           NEW price \in Nat \ {0}, NEW capacity \in Nat
    PROVE  BuyCaps(a, k, price, capacity, FillableQuantity(a, k, price, capacity))
<1> DEFINE o == a.orders[k]
           r == o.request
           i == r.instrument
           q == FillableQuantity(a, k, price, capacity)
           quantum == Quantum(r)
           unitCash == price + ApplyRate(price, FeeRate)
           n2 == o.left * Share
           n3 == (BuyingPower(a) - ReservedCash(a, k)) * Share
           n4 == (MaxStrategyNotional - PositionExposure(a) - ReservedCash(a, k)) * Share
           n5 == (MaxGrossExposure - PositionExposure(a) - ReservedNotional(a, k)) * Share
           n6 == (MaxInstrumentExposure - CostBasis(a, i) - InstrumentReservedNotional(a, k, i))
                   * Share
           n7 == (r.cap - RoundHalfEven(Position(a, i) * price, Share)
                    - InstrumentReservedNotional(a, k, i)) * Share
           F(n, d) == FloorToQuantum(n, d, quantum)
           S == {F(capacity, 1), IF r.notional > 0 THEN F(n2, price) ELSE F(o.left, 1),
                 F(n3, unitCash), F(n4, unitCash), F(n5, price), F(n6, price)}
                \cup IF r.cap = 0 THEN {} ELSE {F(n7, price)}
<1>1. q = Least(S)  BY DEF FillableQuantity, Quantum
<1>2. /\ a.lots \in [Instruments -> Seq(Lot)] /\ a.cash \in Int
      /\ a.orders \in Seq(Order(R))
  BY Fields
<1>3. o \in Order(R)  BY ONLY <1>2
<1>4. o.left \in Nat  BY <1>3 DEF Order
<1>5. i \in Instruments /\ r.cap \in Nat  BY DEF ValidRequest
<1>6. /\ ReservedCash(a, k) \in Nat /\ ReservedNotional(a, k) \in Nat
      /\ InstrumentReservedNotional(a, k, i) \in Nat
  BY <1>2, ReservedNat
<1>7. PositionExposure(a) \in Nat /\ CostBasis(a, i) \in Nat /\ Position(a, i) \in Nat
  BY <1>2, <1>5, Exposures
<1>8. BuyingPower(a) \in Int  BY <1>2, Affords DEF BuyingPower
<1>9. /\ Share \in Nat \ {0} /\ MaxStrategyNotional \in Nat
      /\ MaxGrossExposure \in Nat /\ MaxInstrumentExposure \in Nat
  BY Constants
<1>10. quantum \in Nat \ {0}  BY ONLY <1>9 DEF Quantum
<1>11. unitCash \in Nat \ {0}
  <2>1. ApplyRate(price, FeeRate) \in Nat  BY Rates
  <2> QED  BY ONLY <2>1
<1>12. n2 \in Int /\ n3 \in Int /\ n4 \in Int /\ n5 \in Int /\ n6 \in Int /\ n7 \in Int
  <2>1. n2 \in Int  BY ONLY <1>4, <1>9
  <2>2. n3 \in Int  BY ONLY <1>6, <1>8, <1>9
  <2>3. n4 \in Int  BY ONLY <1>6, <1>7, <1>9
  <2>4. n5 \in Int  BY ONLY <1>6, <1>7, <1>9
  <2>5. n6 \in Int  BY ONLY <1>6, <1>7, <1>9
  <2>6. n7 \in Int
    <3>1. Position(a, i) * price \in Int  BY ONLY <1>7
    <3>2. RoundHalfEven(Position(a, i) * price, Share) \in Int  BY <1>9, <3>1, RoundBounds
    <3> QED  BY ONLY <1>5, <1>6, <1>9, <3>2
  <2> QED  BY <2>1, <2>2, <2>3, <2>4, <2>5, <2>6
<1> HIDE DEF q, quantum, unitCash, n2, n3, n4, n5, n6, n7, r
<1>13. \A y \in S : \E n \in Int, d \in Nat \ {0} : y = F(n, d)
  <2> TAKE y \in S
  <2>1. /\ capacity \in Int /\ o.left \in Int /\ 1 \in Nat \ {0} /\ price \in Nat \ {0}
    BY ONLY <1>4
  <2>2. \/ y = F(capacity, 1) \/ y = F(n2, price) \/ y = F(o.left, 1)
        \/ y = F(n3, unitCash) \/ y = F(n4, unitCash) \/ y = F(n5, price) \/ y = F(n6, price)
        \/ y = F(n7, price)
    OBVIOUS
  <2> QED  BY <1>11, <1>12, <2>1, <2>2
<1>14. /\ F(capacity, 1) \in S
       /\ IF r.notional > 0 THEN F(n2, price) \in S ELSE F(o.left, 1) \in S
       /\ F(n3, unitCash) \in S /\ F(n4, unitCash) \in S /\ F(n5, price) \in S
       /\ F(n6, price) \in S
  OBVIOUS
<1>15. S # {}  BY <1>14
<1> HIDE DEF S
<1>16. q \in Nat /\ (\A y \in S : q <= y) /\ \E m \in Nat : q = quantum * m
  BY <1>1, <1>10, <1>13, <1>15, LeastCap
<1>17. ASSUME q > 0, NEW n \in Int, NEW d \in Nat \ {0}, F(n, d) \in S
       PROVE  d * q <= n
  <2>1. q <= FloorToQuantum(n, d, quantum)  BY <1>16, <1>17
  <2> QED  BY <1>10, <1>16, <1>17, <2>1, Capped
<1> HIDE DEF F
<1>18. ASSUME q > 0
       PROVE  /\ q <= capacity
              /\ IF r.notional > 0 THEN price * q <= n2 ELSE q <= o.left
              /\ unitCash * q <= n3 /\ unitCash * q <= n4 /\ price * q <= n5 /\ price * q <= n6
  <2>1. 1 * q <= capacity  BY ONLY <1>14, <1>17, <1>18
  <2>2. q <= capacity  BY ONLY <1>16, <2>1
  <2>3. IF r.notional > 0 THEN price * q <= n2 ELSE q <= o.left
    <3>1. CASE r.notional > 0  BY <1>12, <1>14, <1>17, <1>18, <3>1
    <3>2. CASE ~(r.notional > 0)
      <4>1. 1 * q <= o.left  BY ONLY <1>4, <1>14, <1>17, <1>18, <3>2
      <4> QED  BY ONLY <1>16, <3>2, <4>1
    <3> QED  BY <3>1, <3>2
  <2>4. unitCash * q <= n3  BY <1>11, <1>12, <1>14, <1>17, <1>18
  <2>5. unitCash * q <= n4  BY <1>11, <1>12, <1>14, <1>17, <1>18
  <2>6. price * q <= n5  BY <1>11, <1>12, <1>14, <1>17, <1>18
  <2>7. price * q <= n6  BY <1>11, <1>12, <1>14, <1>17, <1>18
  <2> QED  BY <2>2, <2>3, <2>4, <2>5, <2>6, <2>7
<1> QED  BY <1>16, <1>18 DEF q, quantum, unitCash, n2, n3, n4, n5, n6, r, BuyCaps

\* The gross amount of a fill.
Gross(price, q) == RoundHalfEven(price * q, Share)
\* What a bought quantity may be: within the order's remainder and the risk limits to the quantum,
\* and within the cash up to the rounding of the unit fee.
FitsBuy(a, k, price, capacity, q) ==
    LET o == a.orders[k]
        gross == Gross(price, q)
        fee == ApplyRate(gross, FeeRate)
    IN  /\ q \in Nat /\ q <= capacity /\ \E m \in Nat : q = Quantum(o.request) * m
        /\ gross \in Nat /\ fee \in Nat /\ fee <= gross
        /\ IF o.request.notional > 0 THEN gross <= o.left ELSE q <= o.left
        /\ a.cash >= 0
        /\ 0 < 2 * Share * (a.cash - gross - fee) + q + 3 * Share
        /\ PositionExposure(a) + gross <= MaxStrategyNotional
        /\ PositionExposure(a) + gross <= MaxGrossExposure
        /\ CostBasis(a, o.request.instrument) + gross <= MaxInstrumentExposure

\* The quantity _fillable_quantity gives a buy is one of these.
LEMMA BuyFits ==
    ASSUME NEW R, NEW B, NEW a \in Account(R, B), NEW k \in DOMAIN a.orders,
           ValidRequest(a.orders[k].request), a.orders[k].request.side = "BUY",
           NEW price \in Nat \ {0}, NEW capacity \in Nat, NEW q,
           q = FillableQuantity(a, k, price, capacity), q > 0
    PROVE  FitsBuy(a, k, price, capacity, q)
<1> DEFINE o == a.orders[k]
           i == o.request.instrument
           u == ApplyRate(price, FeeRate)
           gross == Gross(price, q)
           fee == ApplyRate(gross, FeeRate)
<1>1. /\ q \in Nat /\ \E m \in Nat : q = Quantum(o.request) * m
      /\ q <= capacity
      /\ IF o.request.notional > 0 THEN price * q <= o.left * Share ELSE q <= o.left
      /\ (price + u) * q <= (BuyingPower(a) - ReservedCash(a, k)) * Share
      /\ (price + u) * q
           <= (MaxStrategyNotional - PositionExposure(a) - ReservedCash(a, k)) * Share
      /\ price * q
           <= (MaxGrossExposure - PositionExposure(a) - ReservedNotional(a, k)) * Share
      /\ price * q
           <= (MaxInstrumentExposure - CostBasis(a, i)
                 - InstrumentReservedNotional(a, k, i)) * Share
  <2>1. BuyCaps(a, k, price, capacity, q)  BY FillableBuy
  <2> QED  BY <2>1 DEF BuyCaps
<1>2. /\ a.lots \in [Instruments -> Seq(Lot)] /\ a.cash \in Int
      /\ a.orders \in Seq(Order(R))
  BY Fields
<1>3. o \in Order(R)  BY ONLY <1>2
<1>4. o.left \in Nat  BY <1>3 DEF Order
<1>5. i \in Instruments  BY DEF ValidRequest
<1>6. /\ ReservedCash(a, k) \in Nat /\ ReservedNotional(a, k) \in Nat
      /\ InstrumentReservedNotional(a, k, i) \in Nat
  BY <1>2, ReservedNat
<1>7. PositionExposure(a) \in Nat /\ CostBasis(a, i) \in Nat
  BY <1>2, <1>5, Exposures
<1>8. BuyingPower(a) \in Int /\ (a.cash >= 0 => BuyingPower(a) <= a.cash)
      /\ (a.cash < 0 => BuyingPower(a) <= 0)
  BY <1>2, Affords DEF BuyingPower
<1>9. /\ Share \in Nat \ {0} /\ MaxStrategyNotional \in Nat
      /\ MaxGrossExposure \in Nat /\ MaxInstrumentExposure \in Nat
      /\ FeeRate \in 0..(BasisPoints - 1) /\ BasisPoints \in Nat \ {0}
  BY Constants
<1>10. u \in Nat  BY Rates
<1>11. price * q \in Nat  BY ONLY <1>1
<1>12. gross \in Nat  BY <1>9, <1>11, RoundNat DEF Gross
<1>13. fee \in Nat /\ fee <= gross  BY <1>12, Rates
<1> HIDE DEF u
<1>14. price * q <= (price + u) * q
  <2>1. q * price <= q * (price + u)  BY ONLY <1>1, <1>10, Scaling
  <2> QED  BY ONLY <1>1, <1>10, <2>1
<1>15. (price + u) * q \in Int /\ (price + u) * q > 0
  <2>1. price * q > 0
    <3>1. q * 1 <= q * price  BY ONLY <1>1, Scaling
    <3> QED  BY <1>1, <3>1, SMT
  <2> QED  BY ONLY <1>1, <1>10, <1>11, <1>14, <2>1
<1>16. ASSUME NEW m \in Int, NEW res \in Nat, price * q <= (m - res) * Share
       PROVE  gross <= m
  <2>1. Share * (m - res) <= Share * m /\ Share * (m - res) \in Int /\ Share * m \in Int
    BY ONLY <1>9, Scaling
  <2>2. (m - res) * Share = Share * (m - res)  BY ONLY <1>9
  <2>3. price * q <= Share * m  BY ONLY <1>11, <1>16, <2>1, <2>2
  <2> QED  BY ONLY <1>9, <1>11, <2>3, RoundAtMost DEF Gross
<1> DEFINE m4 == MaxStrategyNotional - PositionExposure(a)
           m5 == MaxGrossExposure - PositionExposure(a)
           m6 == MaxInstrumentExposure - CostBasis(a, i)
<1>17. m4 \in Int /\ m5 \in Int /\ m6 \in Int  BY ONLY <1>7, <1>9
<1>18. gross <= m4
  <2>1. price * q <= (m4 - ReservedCash(a, k)) * Share
    <3>1. (m4 - ReservedCash(a, k)) * Share \in Int  BY ONLY <1>6, <1>9, <1>17
    <3> QED  BY ONLY <1>1, <1>11, <1>14, <1>15, <3>1
  <2> HIDE DEF m4, gross
  <2> QED  BY <1>6, <1>16, <1>17, <2>1
<1>19. gross <= m5
  <2>1. price * q <= (m5 - ReservedNotional(a, k)) * Share  BY <1>1
  <2> HIDE DEF m5, gross
  <2> QED  BY <1>6, <1>16, <1>17, <2>1
<1>20. gross <= m6
  <2>1. price * q <= (m6 - InstrumentReservedNotional(a, k, i)) * Share  BY <1>1
  <2> HIDE DEF m6, gross
  <2> QED  BY <1>6, <1>16, <1>17, <2>1
<1>21. o.request.notional > 0 => gross <= o.left
  <2>1. SUFFICES ASSUME o.request.notional > 0 PROVE gross <= o.left  OBVIOUS
  <2>2. price * q <= (o.left - 0) * Share  BY ONLY <1>1, <1>4, <2>1
  <2>3. o.left \in Int /\ 0 \in Nat  BY ONLY <1>4
  <2> HIDE DEF gross
  <2> QED  BY <1>16, <2>2, <2>3
<1>22. (price + u) * q <= Share * BuyingPower(a)
  <2> DEFINE rest == BuyingPower(a) - ReservedCash(a, k)
  <2>1. rest \in Int /\ rest <= BuyingPower(a)  BY ONLY <1>6, <1>8
  <2>2. (price + u) * q <= rest * Share  BY <1>1
  <2> HIDE DEF rest
  <2>3. Share * rest <= Share * BuyingPower(a) /\ Share * rest \in Int /\ Share * BuyingPower(a) \in Int
    BY <1>8, <1>9, <2>1, Scaling
  <2>4. rest * Share = Share * rest  BY ONLY <1>9, <2>1
  <2> QED  BY ONLY <1>15, <2>2, <2>3, <2>4
<1>23. a.cash >= 0
  <2>1. SUFFICES ASSUME a.cash < 0 PROVE FALSE  BY <1>2, SMT
  <2>2. BuyingPower(a) <= 0  BY <1>8, <2>1
  <2>3. Share * BuyingPower(a) <= Share * 0 /\ Share * BuyingPower(a) \in Int
    BY ONLY <1>8, <1>9, <2>2, Scaling
  <2> QED  BY ONLY <1>9, <1>15, <1>22, <2>3
<1>24. (price + u) * q <= a.cash * Share
  <2>1. BuyingPower(a) <= a.cash  BY <1>8, <1>23
  <2>2. Share * BuyingPower(a) <= Share * a.cash /\ Share * BuyingPower(a) \in Int /\ Share * a.cash \in Int
    BY <1>2, <1>8, <1>9, <2>1, Scaling
  <2>3. Share * a.cash = a.cash * Share  BY ONLY <1>2, <1>9
  <2> QED  BY ONLY <1>15, <1>22, <2>2, <2>3
<1>25. /\ 2 * (price * FeeRate) <= 2 * (BasisPoints * u) + BasisPoints
       /\ 2 * (Share * gross) <= 2 * (price * q) + Share
       /\ 2 * (BasisPoints * fee) <= 2 * (gross * FeeRate) + BasisPoints
  <2>1. price * FeeRate \in Int  BY ONLY <1>9
  <2>2. 2 * (price * FeeRate) <= 2 * (BasisPoints * u) + BasisPoints
    BY <1>9, <2>1, RoundBounds DEF u, ApplyRate
  <2>3. 2 * (Share * gross) <= 2 * (price * q) + Share
    BY ONLY <1>9, <1>11, RoundBounds DEF Gross
  <2>4. gross * FeeRate \in Int  BY ONLY <1>9, <1>12
  <2> HIDE DEF gross
  <2>5. 2 * (BasisPoints * fee) <= 2 * (gross * FeeRate) + BasisPoints
    BY <1>9, <2>4, RoundBounds DEF ApplyRate
  <2> QED  BY <2>2, <2>3, <2>5
<1> HIDE DEF gross, fee
<1>26. 2 * (Share * (gross + fee)) < 2 * (Share * a.cash) + q + 3 * Share
  BY <1>1, <1>2, <1>9, <1>10, <1>12, <1>13, <1>24, <1>25, Overdraft
<1>27. 0 < 2 * Share * (a.cash - gross - fee) + q + 3 * Share
  <2>1. Share * (a.cash - gross - fee) = Share * a.cash - Share * (gross + fee)
    BY ONLY <1>2, <1>9, <1>12, <1>13
  <2>2. 2 * Share * (a.cash - gross - fee) = 2 * (Share * (a.cash - gross - fee))
    BY ONLY <1>2, <1>9, <1>12, <1>13
  <2>3. Share * a.cash \in Int /\ Share * (gross + fee) \in Int  BY ONLY <1>2, <1>9, <1>12, <1>13
  <2> QED  BY ONLY <1>1, <1>9, <1>26, <2>1, <2>2, <2>3
<1>28. /\ PositionExposure(a) + gross <= MaxStrategyNotional
       /\ PositionExposure(a) + gross <= MaxGrossExposure
       /\ CostBasis(a, i) + gross <= MaxInstrumentExposure
  BY ONLY <1>7, <1>9, <1>12, <1>18, <1>19, <1>20
<1> QED  BY <1>1, <1>12, <1>13, <1>21, <1>23, <1>27, <1>28 DEF gross, fee, FitsBuy
--------------------------------------------------------------------------------
(* Recording a fill *)

HIDE DEF WFMin, NatLessThanWellFounded, RoundBounds, RoundAtMost, RoundAtLeast,
         FloorBounds, Overdraft, RateOf, BarNat, LimitBaseWithin, StopBaseWithin,
         BasePriceWithin, ExecutionPriceBounds, LeastIs, Capped, LeastCap, Affords,
         FillableBuy

\* Whole shares stay whole when added or subtracted.
LEMMA Multiples ==
    ASSUME NEW x \in Nat, Multiple(x), NEW y \in Nat, Multiple(y)
    PROVE  /\ QuantizeQuantity(x + y, FALSE) = x + y /\ Multiple(x + y)
           /\ y <= x => QuantizeQuantity(x - y, FALSE) = x - y /\ Multiple(x - y)
<1>0. Share \in Nat \ {0}  BY Constants
<1>1. PICK m \in 0..x : x = Share * m  BY DEF Multiple
<1>2. PICK n \in 0..y : y = Share * n  BY DEF Multiple
<1>3. x + y = Share * (m + n) /\ x - y = Share * (m - n)  BY ONLY <1>0, <1>1, <1>2
<1>4. /\ RoundHalfEven(Share * (m + n), Share) = m + n
      /\ RoundHalfEven(Share * (m - n), Share) = m - n
  <2>1. m + n \in Int /\ m - n \in Int  BY ONLY <1>1, <1>2
  <2> QED  BY <1>0, <2>1, RoundExact
<1>5. QuantizeQuantity(x + y, FALSE) = x + y /\ QuantizeQuantity(x - y, FALSE) = x - y
  BY <1>3, <1>4 DEF QuantizeQuantity
<1>6. m + n \in 0..(x + y)  BY ONLY <1>1, <1>2
<1>7. Multiple(x + y)  BY <1>3, <1>6 DEF Multiple
<1>8. ASSUME y <= x PROVE Multiple(x - y)
  <2>1. m - n >= 0
    <3>1. Share * n < Share * m + Share
      <4>1. Share * m \in Int /\ Share * n \in Int  BY ONLY <1>0, <1>1, <1>2
      <4> QED  BY ONLY <1>0, <1>1, <1>2, <1>8, <4>1
    <3>2. n <= m  BY ONLY <1>0, <1>1, <1>2, <3>1, Unscaling
    <3> QED  BY ONLY <1>1, <1>2, <3>2
  <2>2. (m - n) * 1 <= (m - n) * Share  BY ONLY <1>0, <1>1, <1>2, <2>1, Scaling
  <2>3. m - n \in 0..(x - y)  BY ONLY <1>0, <1>1, <1>2, <1>3, <2>1, <2>2
  <2> QED  BY <1>3, <2>3 DEF Multiple
<1> QED  BY <1>5, <1>7, <1>8

\* What an order's progress by a fill is.
Advances(R, o, p, q, gross) ==
    /\ p \in Order(R) /\ OrderOK(p) /\ p.request = o.request
    /\ p.filled = o.filled + q
    /\ p.left = IF o.request.notional > 0 THEN o.left - gross ELSE o.left - q
    /\ \A i : /\ Held(p, i) <= Held(o, i)
              /\ o.request.side = "SELL" /\ o.request.instrument = i =>
                   Held(p, i) = Held(o, i) - q

\* _advance_remainder: the order reports the fill, and holds what it fills no longer.
LEMMA Advanced ==
    ASSUME NEW R, NEW o \in Order(R), OrderOK(o), IsOpen(o), NEW q \in Nat, NEW gross \in Nat,
           NEW price, o.request.mode = "WHOLE_SHARES" => Multiple(q),
           IF o.request.notional > 0 THEN gross <= o.left ELSE q <= o.left
    PROVE  Advances(R, o, AdvanceRemainder(o, q, gross, price), q, gross)
<1> DEFINE r == o.request
           left == IF r.notional > 0 THEN o.left - gross ELSE o.left - q
           advanced == [o EXCEPT !.left = left, !.filled = o.filled + q]
           complete == IF r.notional > 0 THEN left * Share < price ELSE left = 0
           p == AdvanceRemainder(o, q, gross, price)
<1>1. /\ r \in R /\ o.left \in Nat /\ o.filled \in Nat /\ o.quantity \in Nat
  BY DEF Order
<1>2. /\ ValidRequest(r) /\ EligibilityReason(r) = "NONE"
      /\ r.mode = "WHOLE_SHARES" => Multiple(o.left) /\ Multiple(o.filled)
      /\ r.side = "SELL" => o.quantity = o.left
  BY DEF OrderOK
<1>3. r.notional \in Nat /\ r.side \in {"BUY", "SELL"}
      /\ r.mode \in {"WHOLE_SHARES", "FRACTIONAL_SHARES", "NOTIONAL_AMOUNT"}
  BY <1>2 DEF ValidRequest
<1>4. r.notional > 0 => r.mode = "NOTIONAL_AMOUNT"
  BY <1>2 DEF ValidRequest, ValidMeasure
<1>5. r.side = "SELL" => ~(r.notional > 0)
  BY <1>2, <1>4 DEF EligibilityReason
<1> HIDE DEF r
<1>6. left \in Nat  BY <1>1, SMT DEF r
<1>7. QuantizeQuantity(o.filled + q, IsFractional(r)) = o.filled + q
  <2>1. CASE r.mode = "WHOLE_SHARES"
    <3>1. IsFractional(r) = FALSE  BY <2>1 DEF IsFractional
    <3> QED  BY <1>1, <1>2, <2>1, <3>1, Multiples DEF r
  <2>2. CASE r.mode # "WHOLE_SHARES"  BY <2>2 DEF IsFractional, QuantizeQuantity
  <2> QED  BY <2>1, <2>2
<1>8. left = IF r.notional > 0 THEN Greater(o.left - gross, 0)
             ELSE QuantizeQuantity(o.left - q, IsFractional(r))
  <2>1. CASE r.notional > 0
    <3>1. gross <= o.left  BY <2>1 DEF r
    <3> QED  BY ONLY <1>1, <2>1, <3>1 DEF Greater
  <2>2. CASE ~(r.notional > 0) /\ r.mode = "WHOLE_SHARES"
    <3>1. IsFractional(r) = FALSE  BY <2>2 DEF IsFractional
    <3>2. q <= o.left  BY <2>2 DEF r
    <3> QED  BY <1>1, <1>2, <2>2, <3>1, <3>2, Multiples DEF r
  <2>3. CASE ~(r.notional > 0) /\ r.mode # "WHOLE_SHARES"
    BY <2>3 DEF IsFractional, QuantizeQuantity
  <2> QED  BY <2>1, <2>2, <2>3
<1>9. r.mode = "WHOLE_SHARES" => Multiple(left) /\ Multiple(o.filled + q)
  <2>1. SUFFICES ASSUME r.mode = "WHOLE_SHARES" PROVE Multiple(left) /\ Multiple(o.filled + q)
    OBVIOUS
  <2>2. ~(r.notional > 0)  BY <1>4, <2>1
  <2>3. q <= o.left /\ Multiple(q)  BY <2>1, <2>2 DEF r
  <2> QED  BY <1>1, <1>2, <2>1, <2>2, <2>3, Multiples
<1> HIDE DEF left
<1>10. p = IF complete THEN [Release(advanced) EXCEPT !.status = "FILLED"]
           ELSE Refresh([advanced EXCEPT !.status = "PARTIALLY_FILLED"])
  BY <1>7, <1>8 DEF AdvanceRemainder, r
<1>11. "FILLED" \in Statuses /\ "PARTIALLY_FILLED" \in Statuses  BY DEF Statuses
<1>12. /\ advanced \in Order(R) /\ advanced.request = r /\ advanced.left = left
       /\ advanced.filled = o.filled + q /\ advanced.quantity = o.quantity
  <2>1. o.filled + q \in Nat  BY ONLY <1>1
  <2>2. advanced \in Order(R)  BY <1>6, <2>1 DEF Order
  <2> QED  BY <2>2 DEF Order, r
<1> HIDE DEF advanced, complete, p
<1>13. \A i : Held(o, i) = IF r.instrument = i /\ r.side = "SELL" THEN o.left ELSE 0
  BY <1>2 DEF Held, r
<1>14. CASE complete
  <2>1. p = [advanced EXCEPT !.cash = 0, !.notional = 0, !.quantity = 0, !.status = "FILLED"]
    BY <1>10, <1>12, <1>14 DEF Release, Order
  <2>2. p \in Order(R)  BY <1>11, <1>12, <2>1 DEF Order
  <2>3. /\ p.request = r /\ p.left = left /\ p.filled = o.filled + q /\ p.status = "FILLED"
        /\ p.cash = 0 /\ p.notional = 0 /\ p.quantity = 0
    BY <1>12, <2>1 DEF Order
  <2>4. ~IsOpen(p)  BY <2>3 DEF IsOpen
  <2>5. OrderOK(p)  BY <1>2, <2>3, <2>4 DEF OrderOK
  <2>6. \A i : Held(p, i) = 0  BY <2>4 DEF Held
  <2>7. r.side = "SELL" => o.left - q = 0  BY <1>1, <1>5, <1>14 DEF complete, left
  <2>8. \A i : /\ Held(p, i) <= Held(o, i)
               /\ r.side = "SELL" /\ r.instrument = i => Held(p, i) = Held(o, i) - q
    BY ONLY <1>1, <1>13, <2>6, <2>7
  <2> QED  BY <2>2, <2>3, <2>5, <2>8 DEF p, left, r, Advances
<1>15. CASE ~complete
  <2> DEFINE s == [advanced EXCEPT !.status = "PARTIALLY_FILLED"]
  <2>1. /\ s \in Order(R) /\ s.request = r /\ s.left = left /\ s.filled = o.filled + q
        /\ s.status = "PARTIALLY_FILLED"
    BY <1>11, <1>12 DEF Order
  <2>2. p = Refresh(s)  BY <1>10, <1>15
  <2> HIDE DEF s
  <2>3. /\ p \in Order(R) /\ p.request = r /\ p.left = left /\ p.filled = o.filled + q
        /\ p.status = "PARTIALLY_FILLED" /\ (r.side = "SELL" => p.quantity = left)
    BY <1>2, <2>1, <2>2, Refreshed
  <2>4. IsOpen(p)  BY <2>3 DEF IsOpen
  <2>5. OrderOK(p)  BY <1>2, <1>9, <2>3, <2>4 DEF OrderOK
  <2>6. \A i : Held(p, i) = IF r.instrument = i /\ r.side = "SELL" THEN left ELSE 0
    BY <2>3, <2>4 DEF Held
  <2>7. r.side = "SELL" => left = o.left - q  BY <1>5 DEF left
  <2>8. \A i : /\ Held(p, i) <= Held(o, i)
               /\ r.side = "SELL" /\ r.instrument = i => Held(p, i) = Held(o, i) - q
    BY ONLY <1>1, <1>6, <1>13, <2>6, <2>7
  <2> QED  BY <2>3, <2>5, <2>8 DEF p, left, r, Advances
<1> QED  BY <1>14, <1>15

\* The account after a fill.
Recorded(a, k, p, cash, i, lots, entries, f) ==
    [a EXCEPT !.cash = cash, !.lots = [a.lots EXCEPT ![i] = lots],
              !.ledger = Append(a.ledger, entries), !.fills = Append(a.fills, f),
              !.orders = [a.orders EXCEPT ![k] = p]]

\* Its parts.
Records(R, B, a, k, p, cash, i, lots, entries, f, c) ==
    /\ c \in Account(R, B) /\ c.cash = cash /\ c.seeded = a.seeded
    /\ Replaces(c.lots, a.lots, i, lots) /\ Replaces(c.orders, a.orders, k, p)
    /\ Adds(c.ledger, a.ledger, entries) /\ Adds(c.fills, a.fills, f)
    /\ c.raised = a.raised

\* A fill replaces its order and the lots of its instrument, and adds a transaction and a fill.
LEMMA RecordedFields ==
    ASSUME NEW R, NEW B, NEW a \in Account(R, B), NEW k \in DOMAIN a.orders, NEW p \in Order(R),
           NEW cash \in Int, NEW i \in Instruments, NEW lots \in Seq(Lot),
           NEW entries \in Seq(Posting), NEW f \in Fill(B)
    PROVE  Records(R, B, a, k, p, cash, i, lots, entries, f,
                   Recorded(a, k, p, cash, i, lots, entries, f))
<1> DEFINE L == [a.lots EXCEPT ![i] = lots]
           T == Append(a.ledger, entries)
           F == Append(a.fills, f)
           O == [a.orders EXCEPT ![k] = p]
           c == Recorded(a, k, p, cash, i, lots, entries, f)
<1>1. /\ a.lots \in [Instruments -> Seq(Lot)] /\ a.seeded \in Nat
      /\ a.orders \in Seq(Order(R)) /\ a.fills \in Seq(Fill(B))
      /\ a.ledger \in Seq(Seq(Posting)) /\ a.raised \in BOOLEAN
  BY Fields
<1>2. L \in [Instruments -> Seq(Lot)]  BY <1>1
<1>3. T \in Seq(Seq(Posting))  BY ONLY <1>1
<1>4. F \in Seq(Fill(B))  BY ONLY <1>1
<1>5. O \in Seq(Order(R))  BY ONLY <1>1
<1>6. c = [a EXCEPT !.cash = cash, !.lots = L, !.ledger = T, !.fills = F, !.orders = O]
  BY DEF Recorded
<1> HIDE DEF L, T, F, O, c
<1>7. c \in Account(R, B)  BY <1>2, <1>3, <1>4, <1>5, <1>6 DEF Account
<1>8. /\ c.cash = cash /\ c.seeded = a.seeded /\ c.lots = L /\ c.orders = O
      /\ c.ledger = T /\ c.fills = F /\ c.raised = a.raised
  BY <1>6 DEF Account
<1> QED  BY <1>7, <1>8 DEF L, T, F, O, c, Replaces, Adds, Records

\* The elements of a sequence with one more.
LEMMA RangeAppend ==
    ASSUME NEW S, NEW s \in Seq(S), NEW x \in S, NEW t, Adds(t, s, x)
    PROVE  Range(t) = Range(s) \cup {x} /\ t # <<>>
<1>1. /\ t \in Seq(S) /\ Len(s) \in Nat /\ DOMAIN s = 1..Len(s) /\ DOMAIN t = 1..(Len(s) + 1)
      /\ t[Len(s) + 1] = x /\ \A j \in 1..Len(s) : t[j] = s[j]
  BY Appended, SMT DEF Adds
<1>2. Len(s) + 1 \in DOMAIN t  BY ONLY <1>1
<1>3. t # <<>>  BY ONLY <1>2
<1>4. \A j \in DOMAIN t : j = Len(s) + 1 \/ j \in DOMAIN s  BY ONLY <1>1
<1>5. \A j \in DOMAIN s : j \in DOMAIN t  BY ONLY <1>1
<1> QED  BY <1>1, <1>2, <1>3, <1>4, <1>5 DEF Range

\* A fill keeps the invariant if the order advances by it, what it takes from the position is
\* no longer reserved, its transaction explains cash and cost, and the risk limits and the
\* cash allow it.
LEMMA FillRecorded ==
    ASSUME NEW R, NEW B, NEW a, AccountOK(R, B, a), NEW k \in DOMAIN a.orders,
           NEW p \in Order(R), NEW cash \in Int, NEW i \in Instruments, NEW lots \in Seq(Lot),
           NEW entries \in Seq(Posting), NEW f \in Fill(B),
           OrderOK(p), p.request = a.orders[k].request,
           p.filled = a.orders[k].filled + f.quantity,
           p.left = IF p.request.notional > 0 THEN a.orders[k].left - f.gross
                    ELSE a.orders[k].left - f.quantity,
           \A j : Held(p, j) <= Held(a.orders[k], j),
           Held(p, i) + Position(a, i) <= Held(a.orders[k], i) + Quantities(lots),
           f.order = k, Respects(a, f),
           cash = a.cash + Side(entries, {"CASH"}, "DEBIT") - Side(entries, {"CASH"}, "CREDIT"),
           Bases(lots) = CostBasis(a, i) + Side(entries, {"SECURITY"}, "DEBIT")
                           - Side(entries, {"SECURITY"}, "CREDIT"),
           Bases(lots) <= Greater(MaxInstrumentExposure, a.seeded),
           PositionExposure(a) - CostBasis(a, i) + Bases(lots)
             <= Greater(Lesser(MaxStrategyNotional, MaxGrossExposure), a.seeded),
           cash >= a.cash \/ 0 < 2 * Share * cash + f.quantity + 3 * Share
    PROVE  AccountOK(R, B, Recorded(a, k, p, cash, i, lots, entries, f))
<1> DEFINE o == a.orders[k]
           c == Recorded(a, k, p, cash, i, lots, entries, f)
<1>0. /\ a \in Account(R, B) /\ Balanced(a) /\ Covered(a)
      /\ \A j \in DOMAIN a.orders : OrderOK(a.orders[j]) /\ AddsUp(a, j)
      /\ \A g \in Range(a.fills) : Respects(a, g)
  BY DEF AccountOK
<1>1. /\ a.cash \in Int /\ a.lots \in [Instruments -> Seq(Lot)] /\ a.seeded \in Nat
      /\ a.orders \in Seq(Order(R)) /\ a.fills \in Seq(Fill(B))
      /\ a.ledger \in Seq(Seq(Posting)) /\ a.raised \in BOOLEAN
  BY <1>0, Fields
<1>2. /\ c \in Account(R, B) /\ c.cash = cash /\ c.seeded = a.seeded
      /\ Replaces(c.lots, a.lots, i, lots) /\ Replaces(c.orders, a.orders, k, p)
      /\ Adds(c.ledger, a.ledger, entries) /\ Adds(c.fills, a.fills, f)
  <2>1. Records(R, B, a, k, p, cash, i, lots, entries, f, c)  BY <1>0, RecordedFields
  <2> QED  BY <2>1 DEF Records
<1> HIDE DEF c
<1>3. /\ DOMAIN c.orders = DOMAIN a.orders /\ c.orders[k] = p
      /\ \A j \in DOMAIN a.orders : j # k => c.orders[j] = a.orders[j]
  BY <1>1, <1>2 DEF Replaces
<1>4. Range(c.fills) = Range(a.fills) \cup {f} /\ c.fills # <<>>
  BY ONLY <1>1, <1>2, RangeAppend
<1>5. \A j : /\ FilledBy(a, j) \in Int /\ SpentBy(a, j) \in Int
             /\ FilledBy(c, j) = FilledBy(a, j) + IF k = j THEN f.quantity ELSE 0
             /\ SpentBy(c, j) = SpentBy(a, j) + IF k = j THEN f.gross ELSE 0
  <2>1. a.fills \in Seq(Fill(B))  BY <1>1
  <2>2. Adds(c.fills, a.fills, f)  BY <1>2
  <2> QED  BY <2>1, <2>2, FilledAppend, SMT
<1>6. f.quantity \in Nat /\ f.gross \in Nat  BY DEF Fill
<1>7. ASSUME NEW j \in DOMAIN c.orders PROVE OrderOK(c.orders[j]) /\ AddsUp(c, j)
  <2>1. CASE j # k
    <3>1. c.orders[j] = a.orders[j] /\ j \in DOMAIN a.orders  BY <1>3, <2>1
    <3>2. FilledBy(c, j) = FilledBy(a, j) /\ SpentBy(c, j) = SpentBy(a, j)  BY ONLY <1>5, <2>1
    <3>3. OrderOK(a.orders[j]) /\ AddsUp(a, j)  BY <1>0, <3>1
    <3>4. AddsUp(c, j)  BY <1>4, <3>1, <3>2, <3>3 DEF AddsUp
    <3> QED  BY <3>1, <3>3, <3>4
  <2>2. CASE j = k
    <3>1. c.orders[j] = p  BY <1>3, <2>2
    <3>2. AddsUp(a, k)  BY <1>0
    <3>3. o \in Order(R)  BY ONLY <1>1
    <3>4. o.left \in Nat /\ o.filled \in Nat  BY <3>3 DEF Order
    <3>5. /\ FilledBy(c, k) = FilledBy(a, k) + f.quantity
          /\ SpentBy(c, k) = SpentBy(a, k) + f.gross
          /\ SpentBy(a, k) \in Int
      BY <1>5
    <3>6. p.filled = FilledBy(c, k)  BY <3>2, <3>5 DEF AddsUp
    <3>7. CASE p.request.notional > 0
      <4>1. o.left = p.request.notional - SpentBy(a, k)  BY <3>2, <3>7 DEF AddsUp
      <4>2. p.left = o.left - f.gross  BY <3>7
      <4>3. p.request.notional \in Nat  BY DEF OrderOK, ValidRequest
      <4>4. p.left = p.request.notional - SpentBy(c, k)
        BY ONLY <1>6, <3>4, <3>5, <4>1, <4>2, <4>3
      <4>5. AddsUp(c, j)  BY <1>4, <2>2, <3>1, <3>6, <3>7, <4>4 DEF AddsUp
      <4> QED  BY <3>1, <4>5
    <3>8. CASE ~(p.request.notional > 0)
      <4>1. o.left + o.filled = p.request.quantity  BY <3>2, <3>8 DEF AddsUp
      <4>2. p.left + p.filled = p.request.quantity  BY <1>6, <3>4, <3>8, <4>1, SMTT(20)
      <4>3. AddsUp(c, j)  BY <1>4, <2>2, <3>1, <3>6, <3>8, <4>2 DEF AddsUp
      <4> QED  BY <3>1, <4>3
    <3> QED  BY <3>7, <3>8
  <2> QED  BY <2>1, <2>2
<1>8. ASSUME NEW g \in Range(c.fills) PROVE Respects(c, g)
  <2>1. Respects(a, g)  BY <1>0, <1>4, <1>8
  <2>2. g.order \in DOMAIN a.orders  BY <2>1 DEF Respects
  <2>3. c.orders[g.order].request = a.orders[g.order].request  BY <1>3, <2>2
  <2> QED  BY <1>3, <2>1, <2>2, <2>3 DEF Respects
<1>9. /\ c.lots \in [Instruments -> Seq(Lot)]
      /\ PositionExposure(c) = PositionExposure(a) - CostBasis(a, i) + Bases(lots)
      /\ CostBasis(c, i) = Bases(lots) /\ Position(c, i) = Quantities(lots)
      /\ \A j \in Instruments : j # i => /\ CostBasis(c, j) = CostBasis(a, j)
                                         /\ Position(c, j) = Position(a, j)
  <2>1. a.lots \in [Instruments -> Seq(Lot)]  BY <1>1
  <2>2. Replaces(c.lots, a.lots, i, lots)  BY <1>2
  <2> QED  BY ONLY <2>1, <2>2, ExposureChange, ZenonT(30)
<1>10. /\ PositionExposure(a) \in Nat
       /\ \A j \in Instruments : Position(a, j) \in Nat /\ CostBasis(a, j) \in Nat
  BY <1>1, Exposures
<1>11. \A account, direction : Side(entries, {account}, direction) \in Nat  BY SideNat
<1>12. \A account : /\ Booked(a, account) \in Int
                    /\ Booked(c, account) = Booked(a, account) + Side(entries, {account}, "DEBIT")
                                              - Side(entries, {account}, "CREDIT")
  <2>1. a.ledger \in Seq(Seq(Posting))  BY <1>1
  <2>2. Adds(c.ledger, a.ledger, entries)  BY <1>2
  <2>3. ASSUME NEW account
        PROVE  /\ Booked(a, account) \in Int
               /\ Booked(c, account) = Booked(a, account) + Side(entries, {account}, "DEBIT")
                                         - Side(entries, {account}, "CREDIT")
    BY ONLY <2>1, <2>2, entries \in Seq(Posting), BookedAppend
  <2> QED  BY <2>3
<1>13. Balanced(c)
  <2>1. /\ a.cash = InitialCash + Booked(a, "CASH")
        /\ PositionExposure(a) = a.seeded + Booked(a, "SECURITY")
    BY <1>0 DEF Balanced
  <2>2. InitialCash \in Nat  BY Constants
  <2>3. c.cash = InitialCash + Booked(c, "CASH")
    <3>1. Booked(c, "CASH") = Booked(a, "CASH") + Side(entries, {"CASH"}, "DEBIT")
                                - Side(entries, {"CASH"}, "CREDIT")
      BY <1>12
    <3>2. Booked(a, "CASH") \in Int /\ Side(entries, {"CASH"}, "DEBIT") \in Nat
          /\ Side(entries, {"CASH"}, "CREDIT") \in Nat
      BY <1>11, <1>12
    <3> QED  BY <1>2, <2>1, <2>2, <3>1, <3>2, SMTT(20)
  <2>4. PositionExposure(c) = c.seeded + Booked(c, "SECURITY")
    <3>1. Booked(c, "SECURITY") = Booked(a, "SECURITY") + Side(entries, {"SECURITY"}, "DEBIT")
                                    - Side(entries, {"SECURITY"}, "CREDIT")
      BY <1>12
    <3>2. Booked(a, "SECURITY") \in Int /\ Side(entries, {"SECURITY"}, "DEBIT") \in Nat
          /\ Side(entries, {"SECURITY"}, "CREDIT") \in Nat
      BY <1>11, <1>12
    <3>3. CostBasis(a, i) \in Nat  BY <1>10
    <3>4. PositionExposure(c) = PositionExposure(a) - CostBasis(a, i) + Bases(lots)  BY <1>9
    <3>5. c.seeded = a.seeded /\ a.seeded \in Nat  BY <1>1, <1>2
    <3>6. Bases(lots) = CostBasis(a, i) + Side(entries, {"SECURITY"}, "DEBIT")
                          - Side(entries, {"SECURITY"}, "CREDIT")
      OBVIOUS
    <3> QED  BY ONLY <2>1, <3>1, <3>2, <3>3, <3>4, <3>5, <3>6
  <2> QED  BY <1>4, <2>3, <2>4 DEF Balanced
<1>14. ASSUME NEW j \in Instruments
       PROVE  /\ ReservedQuantity(c, 0, j) <= Position(c, j)
              /\ CostBasis(c, j) <= Greater(MaxInstrumentExposure, c.seeded)
  <2>1. ReservedQuantity(c, 0, j) = ReservedQuantity(a, 0, j) - Held(o, j) + Held(p, j)
    <3>1. OrderReplaced(R, c, a, k, p)  BY <1>1, <1>2 DEF OrderReplaced
    <3> QED  BY ONLY <3>1, HeldChange
  <2>2. ReservedQuantity(a, 0, j) \in Nat  BY <1>1, ReservedNat
  <2>3. o \in Order(R)  BY ONLY <1>1
  <2>4. Held(o, j) \in Nat /\ Held(p, j) \in Nat  BY <2>3, HeldNat
  <2>5. /\ ReservedQuantity(a, 0, j) <= Position(a, j)
        /\ CostBasis(a, j) <= Greater(MaxInstrumentExposure, a.seeded)
    BY <1>0 DEF Covered
  <2>6. CASE j = i
    <3>1. Position(c, j) = Quantities(lots) /\ CostBasis(c, j) = Bases(lots)  BY <1>9, <2>6
    <3>2. Held(p, j) + Position(a, j) <= Held(o, j) + Quantities(lots)  BY <2>6
    <3>3. Quantities(lots) \in Nat /\ Position(a, j) \in Nat  BY <1>10, LotSumsNat
    <3>4. CostBasis(c, j) <= Greater(MaxInstrumentExposure, c.seeded)  BY <1>2, <3>1
    <3> QED  BY ONLY <2>1, <2>2, <2>4, <2>5, <3>1, <3>2, <3>3, <3>4
  <2>7. CASE j # i
    <3>1. Position(c, j) = Position(a, j) /\ CostBasis(c, j) = CostBasis(a, j)  BY <1>9, <2>7
    <3>2. Held(p, j) <= Held(o, j)  OBVIOUS
    <3>3. CostBasis(c, j) <= Greater(MaxInstrumentExposure, c.seeded)  BY <1>2, <2>5, <3>1
    <3>4. Position(a, j) \in Nat  BY <1>10
    <3> QED  BY ONLY <2>1, <2>2, <2>4, <2>5, <3>1, <3>2, <3>3, <3>4
  <2> QED  BY <2>6, <2>7
<1>15. c.cash >= 0 \/ \E g \in Range(c.fills) : 0 < 2 * Share * c.cash + g.quantity + 3 * Share
  <2>1. CASE 0 < 2 * Share * cash + f.quantity + 3 * Share  BY <1>2, <1>4, <2>1
  <2>2. CASE cash >= a.cash /\ a.cash >= 0  BY ONLY <1>1, <1>2, <2>2
  <2>3. CASE cash >= a.cash /\ ~(a.cash >= 0)
    <3>1. PICK g \in Range(a.fills) : 0 < 2 * Share * a.cash + g.quantity + 3 * Share
      BY <1>0, <2>3 DEF Covered
    <3>2. Share \in Nat \ {0}  BY Constants
    <3>3. g.quantity \in Nat
      <4>1. g \in Fill(B)  BY ONLY <1>1 DEF Range
      <4> QED  BY <4>1 DEF Fill
    <3>4. 2 * Share * a.cash <= 2 * Share * cash /\ 2 * Share * a.cash \in Int
          /\ 2 * Share * cash \in Int
      <4>1. 2 * Share \in Nat  BY ONLY <3>2
      <4> QED  BY <1>1, <2>3, <4>1, Scaling
    <3>5. 0 < 2 * Share * cash + g.quantity + 3 * Share  BY ONLY <3>1, <3>2, <3>3, <3>4
    <3> QED  BY <1>2, <1>4, <3>5
  <2> QED  BY <2>1, <2>2, <2>3
<1>16. Covered(c)
  <2>1. PositionExposure(c)
          <= Greater(Lesser(MaxStrategyNotional, MaxGrossExposure), c.seeded)
    BY <1>2, <1>9
  <2> QED  BY <1>14, <1>15, <2>1 DEF Covered
<1>17. AccountOK(R, B, c)  BY <1>2, <1>7, <1>8, <1>13, <1>16 DEF AccountOK
<1> QED  BY <1>17 DEF c

\* process_bar decided to fill q of the k-th order at this price.
Decided(R, B, a, k, b, q, base, price, capacity) ==
    /\ AccountOK(R, B, a) /\ k \in DOMAIN a.orders /\ IsOpen(a.orders[k])
    /\ b \in B /\ b.starts >= a.orders[k].request.eligible
    /\ a.orders[k].request.instrument = b.instrument
    /\ Within(b, base) /\ base > 0 /\ price \in Nat /\ Meets(a.orders[k].request, price)
    /\ IF a.orders[k].request.side = "BUY" THEN price >= base ELSE price <= base
    /\ price >= base - ApplyRate(base, SlippageRate)
    /\ capacity \in Nat /\ q = FillableQuantity(a, k, price, capacity) /\ q > 0

\* The fill was posted: one fill and one order changed, and the invariant holds.
Posted(R, B, a, k, b, q, c) ==
    /\ AccountOK(R, B, c) /\ c.raised = a.raised
    /\ \E p \in Order(R) : Replaces(c.orders, a.orders, k, p)
    /\ \E f \in Fill(B) : Adds(c.fills, a.fills, f) /\ f.bar = b /\ f.quantity = q

FillOf(k, b, q, base, price, gross, fee, basis) ==
    [order |-> k, bar |-> b, quantity |-> q, base |-> base, price |-> price, gross |-> gross,
     fee |-> fee, basis |-> basis]

\* The order of such a decision.
LEMMA DecidedOrder ==
    ASSUME NEW R, NEW B, NEW a, NEW k, NEW b, NEW q, NEW base, NEW price, NEW capacity,
           Decided(R, B, a, k, b, q, base, price, capacity)
    PROVE  LET o == a.orders[k]
           IN  /\ a \in Account(R, B) /\ k \in DOMAIN a.orders /\ k \in Nat
               /\ o \in Order(R) /\ OrderOK(o) /\ IsOpen(o) /\ ValidRequest(o.request)
               /\ o.request.instrument \in Instruments /\ o.request.side \in {"BUY", "SELL"}
               /\ a.lots[o.request.instrument] \in Seq(Lot)
               /\ base \in Nat /\ price \in Nat /\ capacity \in Nat
<1> DEFINE o == a.orders[k]
<1>1. /\ AccountOK(R, B, a) /\ k \in DOMAIN a.orders /\ IsOpen(o)
      /\ base \in Nat /\ price \in Nat /\ capacity \in Nat
  BY DEF Decided, Within
<1>2. a \in Account(R, B) /\ OrderOK(o)  BY <1>1 DEF AccountOK
<1>3. a.orders \in Seq(Order(R)) /\ a.lots \in [Instruments -> Seq(Lot)]  BY <1>2, Fields
<1>4. o \in Order(R) /\ k \in Nat  BY ONLY <1>1, <1>3
<1>5. ValidRequest(o.request)  BY <1>2 DEF OrderOK
<1>6. o.request.instrument \in Instruments /\ o.request.side \in {"BUY", "SELL"}
  BY <1>5 DEF ValidRequest
<1> QED  BY <1>1, <1>2, <1>3, <1>4, <1>5, <1>6

\* What a fill is evidence of.
Evidences(B, a, k, b, q, gross, f) ==
    /\ f \in Fill(B) /\ Respects(a, f) /\ f.order = k /\ f.bar = b
    /\ f.quantity = q /\ f.gross = gross

\* The fill of such a decision respects the order.
LEMMA FillMade ==
    ASSUME NEW R, NEW B, NEW a, NEW k, NEW b, NEW q \in Nat, NEW base, NEW price, NEW capacity,
           Decided(R, B, a, k, b, q, base, price, capacity),
           NEW gross \in Nat, NEW fee \in Nat, NEW basis \in Nat
    PROVE  Evidences(B, a, k, b, q, gross, FillOf(k, b, q, base, price, gross, fee, basis))
<1> DEFINE f == FillOf(k, b, q, base, price, gross, fee, basis)
<1>1. k \in DOMAIN a.orders /\ k \in Nat /\ base \in Nat /\ price \in Nat  BY DecidedOrder
<1>2. b \in B  BY DEF Decided
<1>3. f \in Fill(B)  BY <1>1, <1>2 DEF Fill, FillOf
<1>4. /\ f.order = k /\ f.bar = b /\ f.quantity = q /\ f.gross = gross /\ f.base = base
      /\ f.price = price
  BY DEF FillOf
<1> HIDE DEF f
<1>5. Respects(a, f)  BY <1>1, <1>4 DEF Respects, Decided, Within, Meets
<1> QED  BY <1>3, <1>4, <1>5 DEF f, Evidences

\* A recorded fill is posted.
LEMMA RecordedPosts ==
    ASSUME NEW R, NEW B, NEW a \in Account(R, B), NEW k \in DOMAIN a.orders, NEW p \in Order(R),
           NEW cash \in Int, NEW i \in Instruments, NEW lots \in Seq(Lot),
           NEW entries \in Seq(Posting), NEW f \in Fill(B), NEW b, NEW q,
           AccountOK(R, B, Recorded(a, k, p, cash, i, lots, entries, f)),
           f.bar = b, f.quantity = q
    PROVE  Posted(R, B, a, k, b, q, Recorded(a, k, p, cash, i, lots, entries, f))
<1> DEFINE c == Recorded(a, k, p, cash, i, lots, entries, f)
<1>1. Replaces(c.orders, a.orders, k, p) /\ Adds(c.fills, a.fills, f) /\ c.raised = a.raised
  <2>1. Records(R, B, a, k, p, cash, i, lots, entries, f, c)  BY RecordedFields
  <2> QED  BY <2>1 DEF Records
<1> HIDE DEF c
<1>2. AccountOK(R, B, c)  BY DEF c
<1>3. Posted(R, B, a, k, b, q, c)  BY <1>1, <1>2 DEF Posted
<1> QED  BY <1>3 DEF c

\* A fill that raises has changed cash and lots.
Interrupted(a, cash, i, lots) ==
    [a EXCEPT !.cash = cash, !.lots = [a.lots EXCEPT ![i] = lots], !.raised = TRUE]

\* It recorded nothing.
Stops(R, B, a, c) ==
    c.raised /\ Sound(R, B, c) /\ c.orders = a.orders /\ c.fills = a.fills

\* If the cash and the cost of the lots are what they were, the account is sound.
LEMMA Interrupts ==
    ASSUME NEW R, NEW B, NEW a, AccountOK(R, B, a), NEW cash, cash = a.cash,
           NEW i \in Instruments, NEW lots \in Seq(Lot), Bases(lots) = CostBasis(a, i)
    PROVE  Stops(R, B, a, Interrupted(a, cash, i, lots))
<1> DEFINE L == [a.lots EXCEPT ![i] = lots]
           c == Interrupted(a, cash, i, lots)
<1>1. /\ a \in Account(R, B) /\ Balanced(a) /\ Covered(a)
      /\ \A j \in DOMAIN a.orders : OrderOK(a.orders[j]) /\ AddsUp(a, j)
      /\ \A g \in Range(a.fills) : Respects(a, g)
  BY DEF AccountOK
<1>2. a.cash \in Int /\ a.lots \in [Instruments -> Seq(Lot)]  BY <1>1, Fields
<1>3. L \in [Instruments -> Seq(Lot)]  BY <1>2
<1>4. c = [a EXCEPT !.cash = a.cash, !.lots = L, !.raised = TRUE]  BY DEF Interrupted
<1> HIDE DEF L, c
<1>5. c \in Account(R, B)  BY <1>1, <1>2, <1>3, <1>4 DEF Account
<1>6. /\ c.orders = a.orders /\ c.fills = a.fills /\ c.ledger = a.ledger /\ c.lots = L
      /\ c.cash = a.cash /\ c.seeded = a.seeded /\ c.raised = TRUE
  BY <1>1, <1>4 DEF Account
<1>7. /\ \A account : Booked(c, account) = Booked(a, account)
      /\ \A k : FilledBy(c, k) = FilledBy(a, k) /\ SpentBy(c, k) = SpentBy(a, k)
  BY <1>6, SameSums
<1>8. /\ PositionExposure(c) = PositionExposure(a) - CostBasis(a, i) + Bases(lots)
      /\ CostBasis(c, i) = Bases(lots)
      /\ \A j \in Instruments : j # i => CostBasis(c, j) = CostBasis(a, j)
  <2>1. Replaces(c.lots, a.lots, i, lots)  BY <1>6 DEF Replaces, L
  <2> QED  BY ONLY <1>2, <2>1, ExposureChange, ZenonT(30)
<1>9. PositionExposure(a) \in Nat /\ CostBasis(a, i) \in Nat  BY <1>1, <1>2, Exposures
<1>10. PositionExposure(c) = PositionExposure(a)  BY <1>8, <1>9, SMT
<1>11. \A j \in Instruments : CostBasis(c, j) = CostBasis(a, j)  BY <1>8
<1>12. \A j \in DOMAIN c.orders : OrderOK(c.orders[j]) /\ AddsUp(c, j)
  BY ONLY <1>1, <1>6, <1>7 DEF AddsUp
<1>13. \A g \in Range(c.fills) : Respects(c, g)  BY <1>1, <1>6 DEF Respects
<1>14. Balanced(c)  BY <1>1, <1>6, <1>7, <1>10 DEF Balanced
<1>15. Limited(c)  BY <1>1, <1>6, <1>10, <1>11 DEF Covered, Limited
<1>16. Sound(R, B, c)  BY <1>5, <1>12, <1>13, <1>14, <1>15 DEF Sound
<1>17. Stops(R, B, a, c)  BY <1>6, <1>16 DEF Stops
<1> QED  BY <1>17 DEF c

\* The two branches of _record_fill.
BuyRecord(a, k, b, q, base, price) ==
    LET o == a.orders[k]
        i == o.request.instrument
        gross == Gross(price, q)
        fee == ApplyRate(gross, FeeRate)
    IN  IF ~ValidTransaction(BuyEntries(gross, fee))
        THEN Interrupted(a, a.cash - gross - fee, i,
                         Append(a.lots[i], [quantity |-> q, basis |-> gross]))
        ELSE Recorded(a, k, AdvanceRemainder(o, q, gross, price), a.cash - gross - fee, i,
                      Append(a.lots[i], [quantity |-> q, basis |-> gross]),
                      BuyEntries(gross, fee), FillOf(k, b, q, base, price, gross, fee, gross))

SellRecord(a, k, b, q, base, price) ==
    LET o == a.orders[k]
        i == o.request.instrument
        gross == Gross(price, q)
        fee == ApplyRate(gross, FeeRate)
        sold == ConsumeFifo(a.lots[i], q)
    IN  IF sold.left > 0 THEN [a EXCEPT !.lots[i] = sold.lots, !.raised = TRUE]
        ELSE IF ~ValidTransaction(SellEntries(gross, fee, sold.basis))
        THEN Interrupted(a, a.cash + gross - fee, i, sold.lots)
        ELSE Recorded(a, k, AdvanceRemainder(o, q, gross, price), a.cash + gross - fee, i,
                      sold.lots, SellEntries(gross, fee, sold.basis),
                      FillOf(k, b, q, base, price, gross, fee, sold.basis))

\* What is recorded after cash and lots have changed.
Adding(a, m, k, p, entries, f) ==
    [m EXCEPT !.ledger = Append(a.ledger, entries), !.fills = Append(a.fills, f),
              !.orders = [a.orders EXCEPT ![k] = p]]

\* The account once cash and lots have changed; what raises and what is recorded after that.
Moves(a, cash, i, lots, m) ==
    /\ m.ledger = a.ledger /\ m.fills = a.fills /\ m.orders = a.orders
    /\ [m EXCEPT !.raised = TRUE] = Interrupted(a, cash, i, lots)
    /\ \A k, p, entries, f :
          Adding(a, m, k, p, entries, f) = Recorded(a, k, p, cash, i, lots, entries, f)

\* Cash and lots change first, the rest afterwards.
LEMMA MovedFirst ==
    ASSUME NEW R, NEW B, NEW a \in Account(R, B), NEW cash, NEW i, NEW lots
    PROVE  Moves(a, cash, i, lots, [a EXCEPT !.cash = cash, !.lots[i] = lots])
<1> DEFINE L == [a.lots EXCEPT ![i] = lots]
           c == [a EXCEPT !.cash = cash, !.lots = L]
<1> HIDE DEF L
<1>1. c.ledger = a.ledger /\ c.fills = a.fills /\ c.orders = a.orders  BY DEF Account
<1>2. [c EXCEPT !.raised = TRUE] = [a EXCEPT !.cash = cash, !.lots = L, !.raised = TRUE]
  BY DEF Account
<1>3. \A T, F, O : [c EXCEPT !.ledger = T, !.fills = F, !.orders = O]
                    = [a EXCEPT !.cash = cash, !.lots = L, !.ledger = T, !.fills = F, !.orders = O]
  BY DEF Account
<1>4. \A k, p, entries, f :
        Adding(a, c, k, p, entries, f) = Recorded(a, k, p, cash, i, lots, entries, f)
  BY <1>3 DEF Adding, Recorded, L
<1>5. [c EXCEPT !.raised = TRUE] = Interrupted(a, cash, i, lots)  BY <1>2 DEF Interrupted, L
<1>6. c = [a EXCEPT !.cash = cash, !.lots[i] = lots]  BY DEF L
<1> HIDE DEF c
<1>7. Moves(a, cash, i, lots, c)  BY <1>1, <1>4, <1>5 DEF Moves
<1> QED  BY <1>6, <1>7

\* _record_fill is one of them.
LEMMA RecordIs ==
    ASSUME NEW R, NEW B, NEW a \in Account(R, B), NEW k, NEW b, NEW q, NEW base, NEW price
    PROVE  RecordFill(a, k, b, q, base, price) =
             IF a.orders[k].request.side = "BUY" THEN BuyRecord(a, k, b, q, base, price)
             ELSE SellRecord(a, k, b, q, base, price)
<1> DEFINE o == a.orders[k]
           i == o.request.instrument
           gross == Gross(price, q)
           fee == ApplyRate(gross, FeeRate)
           sold == ConsumeFifo(a.lots[i], q)
           c == RecordFill(a, k, b, q, base, price)
<1>1. CASE o.request.side = "BUY"
  <2> DEFINE cash == a.cash - gross - fee
             lots == Append(a.lots[i], [quantity |-> q, basis |-> gross])
             entries == BuyEntries(gross, fee)
             m == [a EXCEPT !.cash = cash, !.lots[i] = lots]
             f == FillOf(k, b, q, base, price, gross, fee, gross)
  <2>1. c = IF ~ValidTransaction(entries) THEN [m EXCEPT !.raised = TRUE]
            ELSE [m EXCEPT !.ledger = Append(m.ledger, entries), !.fills = Append(m.fills, f),
                           !.orders = [m.orders EXCEPT ![k] =
                                         AdvanceRemainder(m.orders[k], q, gross, price)]]
    BY <1>1 DEF RecordFill, Gross, FillOf
  <2> HIDE DEF cash, lots, entries, f
  <2>2. Moves(a, cash, i, lots, m)  BY MovedFirst
  <2> HIDE DEF m
  <2> DEFINE p == AdvanceRemainder(o, q, gross, price)
             recorded == [m EXCEPT !.ledger = Append(m.ledger, entries),
                                   !.fills = Append(m.fills, f),
                                   !.orders = [m.orders EXCEPT ![k] =
                                                 AdvanceRemainder(m.orders[k], q, gross, price)]]
  <2>3. recorded = Recorded(a, k, p, cash, i, lots, entries, f)
    <3>1. m.ledger = a.ledger /\ m.fills = a.fills /\ m.orders = a.orders  BY <2>2 DEF Moves
    <3>2. recorded = Adding(a, m, k, p, entries, f)  BY ONLY <3>1, Zenon DEF Adding
    <3> HIDE DEF p, recorded
    <3> QED  BY <2>2, <3>2 DEF Moves
  <2>4. c = IF ~ValidTransaction(entries) THEN Interrupted(a, cash, i, lots)
            ELSE Recorded(a, k, p, cash, i, lots, entries, f)
    <3>1. [m EXCEPT !.raised = TRUE] = Interrupted(a, cash, i, lots)  BY <2>2 DEF Moves
    <3> QED  BY ONLY <2>1, <2>3, <3>1, Zenon
  <2> QED  BY <1>1, <2>4 DEF BuyRecord, cash, lots, entries, f
<1>2. CASE o.request.side # "BUY"
  <2> DEFINE cash == a.cash + gross - fee
             entries == SellEntries(gross, fee, sold.basis)
             m == [a EXCEPT !.cash = cash, !.lots[i] = sold.lots]
             f == FillOf(k, b, q, base, price, gross, fee, sold.basis)
  <2>1. c = IF sold.left > 0 THEN [a EXCEPT !.lots[i] = sold.lots, !.raised = TRUE]
            ELSE IF ~ValidTransaction(entries) THEN [m EXCEPT !.raised = TRUE]
            ELSE [m EXCEPT !.ledger = Append(m.ledger, entries), !.fills = Append(m.fills, f),
                           !.orders = [m.orders EXCEPT ![k] =
                                         AdvanceRemainder(m.orders[k], q, gross, price)]]
    BY <1>2 DEF RecordFill, Gross, FillOf
  <2> HIDE DEF cash, entries, f
  <2>2. Moves(a, cash, i, sold.lots, m)  BY MovedFirst
  <2> HIDE DEF m
  <2> DEFINE p == AdvanceRemainder(o, q, gross, price)
             recorded == [m EXCEPT !.ledger = Append(m.ledger, entries),
                                   !.fills = Append(m.fills, f),
                                   !.orders = [m.orders EXCEPT ![k] =
                                                 AdvanceRemainder(m.orders[k], q, gross, price)]]
  <2>3. recorded = Recorded(a, k, p, cash, i, sold.lots, entries, f)
    <3>1. m.ledger = a.ledger /\ m.fills = a.fills /\ m.orders = a.orders  BY <2>2 DEF Moves
    <3>2. recorded = Adding(a, m, k, p, entries, f)  BY ONLY <3>1, Zenon DEF Adding
    <3> HIDE DEF p, recorded
    <3> QED  BY <2>2, <3>2 DEF Moves
  <2>4. c = IF sold.left > 0 THEN [a EXCEPT !.lots[i] = sold.lots, !.raised = TRUE]
            ELSE IF ~ValidTransaction(entries) THEN Interrupted(a, cash, i, sold.lots)
            ELSE Recorded(a, k, p, cash, i, sold.lots, entries, f)
    <3>1. [m EXCEPT !.raised = TRUE] = Interrupted(a, cash, i, sold.lots)  BY <2>2 DEF Moves
    <3> QED  BY ONLY <2>1, <2>3, <3>1, Zenon
  <2> QED  BY <1>2, <2>4 DEF SellRecord, cash, entries, f
<1> QED  BY <1>1, <1>2

\* A buy is posted, unless its gross amount is zero; then LedgerTransaction refuses it, and
\* the lot it added cost nothing.
LEMMA RecordBuy ==
    ASSUME NEW R, NEW B, NEW a, NEW k, NEW b, NEW q, NEW base, NEW price, NEW capacity,
           Decided(R, B, a, k, b, q, base, price, capacity), a.orders[k].request.side = "BUY"
    PROVE  /\ q \in Nat /\ q <= capacity /\ \E m \in Nat : q = Quantum(a.orders[k].request) * m
           /\ \/ /\ Stops(R, B, a, RecordFill(a, k, b, q, base, price))
                 /\ Gross(price, q) = 0
              \/ Posted(R, B, a, k, b, q, RecordFill(a, k, b, q, base, price))
<1> DEFINE o == a.orders[k]
           i == o.request.instrument
           gross == Gross(price, q)
           fee == ApplyRate(gross, FeeRate)
           p == AdvanceRemainder(o, q, gross, price)
           l == [quantity |-> q, basis |-> gross]
           lots == Append(a.lots[i], l)
           cash == a.cash - gross - fee
           entries == BuyEntries(gross, fee)
           f == FillOf(k, b, q, base, price, gross, fee, gross)
           c == RecordFill(a, k, b, q, base, price)
<1>1. /\ a \in Account(R, B) /\ k \in DOMAIN a.orders /\ o \in Order(R) /\ OrderOK(o)
      /\ IsOpen(o) /\ ValidRequest(o.request) /\ i \in Instruments
      /\ a.lots[i] \in Seq(Lot) /\ base \in Nat /\ price \in Nat /\ capacity \in Nat
  BY DecidedOrder
<1>2. /\ price >= base /\ base > 0 /\ q = FillableQuantity(a, k, price, capacity) /\ q > 0
      /\ AccountOK(R, B, a)
  BY DEF Decided
<1>3. price \in Nat \ {0}  BY ONLY <1>1, <1>2
<1>4. /\ q \in Nat /\ q <= capacity /\ \E m \in Nat : q = Quantum(o.request) * m
      /\ gross \in Nat /\ fee \in Nat
      /\ IF o.request.notional > 0 THEN gross <= o.left ELSE q <= o.left
      /\ 0 < 2 * Share * (a.cash - gross - fee) + q + 3 * Share
      /\ PositionExposure(a) + gross <= MaxStrategyNotional
      /\ PositionExposure(a) + gross <= MaxGrossExposure
      /\ CostBasis(a, i) + gross <= MaxInstrumentExposure
  <2>1. /\ a \in Account(R, B) /\ k \in DOMAIN a.orders /\ ValidRequest(o.request)
        /\ o.request.side = "BUY" /\ capacity \in Nat
        /\ q = FillableQuantity(a, k, price, capacity) /\ q > 0
    BY <1>1, <1>2
  <2>2. FitsBuy(a, k, price, capacity, q)  BY ONLY <1>3, <2>1, BuyFits, Zenon
  <2> QED  BY <2>2 DEF FitsBuy
<1>5. c = IF ~ValidTransaction(entries) THEN Interrupted(a, cash, i, lots)
          ELSE Recorded(a, k, p, cash, i, lots, entries, f)
  <2>1. c = BuyRecord(a, k, b, q, base, price)  BY <1>1, RecordIs
  <2> QED  BY <2>1 DEF BuyRecord
<1> HIDE DEF gross, fee, c
<1>6. /\ entries \in Seq(Posting)
      /\ Side(entries, {"SECURITY"}, "DEBIT") = gross /\ Side(entries, {"SECURITY"}, "CREDIT") = 0
      /\ Side(entries, {"CASH"}, "DEBIT") = 0 /\ Side(entries, {"CASH"}, "CREDIT") = gross + fee
      /\ gross > 0 => ValidTransaction(entries)
  BY <1>4, BuyPosts
<1>7. /\ f \in Fill(B) /\ Respects(a, f) /\ f.order = k /\ f.bar = b
      /\ f.quantity = q /\ f.gross = gross
  <2>1. q \in Nat /\ gross \in Nat /\ fee \in Nat  BY <1>4
  <2>2. Evidences(B, a, k, b, q, gross, f)  BY <2>1, FillMade
  <2> QED  BY <2>2 DEF Evidences
<1>8. o.request.mode = "WHOLE_SHARES" => Multiple(q)  BY <1>4, QuantumIs
<1>9. /\ p \in Order(R) /\ OrderOK(p) /\ p.request = o.request /\ p.filled = o.filled + q
      /\ p.left = IF o.request.notional > 0 THEN o.left - gross ELSE o.left - q
      /\ \A j : Held(p, j) <= Held(o, j)
  <2>1. o \in Order(R) /\ OrderOK(o) /\ IsOpen(o)  BY <1>1
  <2>2. /\ q \in Nat /\ gross \in Nat
        /\ IF o.request.notional > 0 THEN gross <= o.left ELSE q <= o.left
    BY <1>4
  <2>3. /\ p \in Order(R) /\ OrderOK(p) /\ p.request = o.request /\ p.filled = o.filled + q
        /\ p.left = IF o.request.notional > 0 THEN o.left - gross ELSE o.left - q
        /\ \A j : /\ Held(p, j) <= Held(o, j)
                  /\ o.request.side = "SELL" /\ o.request.instrument = j =>
                       Held(p, j) = Held(o, j) - q
    <3>1. Advances(R, o, p, q, gross)  BY ONLY <1>8, <2>1, <2>2, Advanced, Zenon
    <3> QED  BY <3>1 DEF Advances
  <2> QED  BY <2>3
<1>10. l \in Lot /\ l.quantity = q /\ l.basis = gross  BY <1>4 DEF Lot
<1> HIDE DEF l
<1>11. lots \in Seq(Lot)
  <2>1. a.lots[i] \in Seq(Lot) /\ l \in Lot  BY <1>1, <1>10
  <2> QED  BY ONLY <2>1, SMTT(20)
<1>12. /\ Quantities(lots) = Position(a, i) + q /\ Bases(lots) = CostBasis(a, i) + gross
  BY <1>1, <1>10, LotSumsAppend, LotSums
<1> HIDE DEF lots, entries, f, p
<1>13. /\ a.cash \in Int /\ a.seeded \in Nat /\ a.lots \in [Instruments -> Seq(Lot)]
  BY <1>1, Fields
<1>14. PositionExposure(a) \in Nat /\ CostBasis(a, i) \in Nat /\ Position(a, i) \in Nat
  BY <1>1, <1>13, Exposures
<1>15. MaxStrategyNotional \in Nat /\ MaxGrossExposure \in Nat /\ MaxInstrumentExposure \in Nat
  BY Constants
<1>16. cash \in Int  BY ONLY <1>4, <1>13
<1>17. Held(p, i) + Position(a, i) <= Held(o, i) + Quantities(lots)
  <2>1. Held(p, i) \in Nat /\ Held(o, i) \in Nat  BY <1>1, <1>9, HeldNat
  <2>2. Held(p, i) <= Held(o, i)  BY <1>9
  <2>3. q \in Nat /\ Quantities(lots) = Position(a, i) + q  BY <1>4, <1>12
  <2> QED  BY ONLY <1>14, <2>1, <2>2, <2>3
<1>18. cash = a.cash + Side(entries, {"CASH"}, "DEBIT") - Side(entries, {"CASH"}, "CREDIT")
  BY ONLY <1>4, <1>6, <1>13
<1>19. Bases(lots) = CostBasis(a, i) + Side(entries, {"SECURITY"}, "DEBIT")
                       - Side(entries, {"SECURITY"}, "CREDIT")
  <2>1. gross \in Nat /\ CostBasis(a, i) \in Nat  BY <1>4, <1>14
  <2>2. Side(entries, {"SECURITY"}, "DEBIT") = gross /\ Side(entries, {"SECURITY"}, "CREDIT") = 0
    BY <1>6
  <2>3. Bases(lots) = CostBasis(a, i) + gross  BY <1>12
  <2> QED  BY ONLY <2>1, <2>2, <2>3
<1>20. Bases(lots) <= Greater(MaxInstrumentExposure, a.seeded)
  <2>1. /\ gross \in Nat /\ CostBasis(a, i) + gross <= MaxInstrumentExposure
        /\ Bases(lots) = CostBasis(a, i) + gross
    BY <1>4, <1>12
  <2>2. Bases(lots) <= MaxInstrumentExposure /\ Bases(lots) \in Nat  BY ONLY <1>14, <2>1
  <2> QED  BY ONLY <1>13, <1>15, <2>2 DEF Greater
<1>21. PositionExposure(a) - CostBasis(a, i) + Bases(lots)
         <= Greater(Lesser(MaxStrategyNotional, MaxGrossExposure), a.seeded)
  <2>1. PositionExposure(a) - CostBasis(a, i) + Bases(lots) = PositionExposure(a) + gross
    BY ONLY <1>4, <1>12, <1>14
  <2>2. PositionExposure(a) + gross \in Nat  BY ONLY <1>4, <1>14
  <2>3. PositionExposure(a) + gross <= Greater(Lesser(MaxStrategyNotional, MaxGrossExposure), a.seeded)
    BY ONLY <1>4, <1>13, <1>15, <2>2 DEF Greater, Lesser
  <2> QED  BY <2>1, <2>3
<1>22. 0 < 2 * Share * cash + f.quantity + 3 * Share  BY <1>4, <1>7
<1>23. /\ p.filled = o.filled + f.quantity
       /\ p.left = IF p.request.notional > 0 THEN o.left - f.gross ELSE o.left - f.quantity
  BY <1>7, <1>9
<1> HIDE DEF cash
<1>24. AccountOK(R, B, Recorded(a, k, p, cash, i, lots, entries, f))
  BY <1>1, <1>2, <1>6, <1>7, <1>9, <1>11, <1>16, <1>17, <1>18, <1>19, <1>20, <1>21, <1>22, <1>23,
     FillRecorded
<1>25. Posted(R, B, a, k, b, q, Recorded(a, k, p, cash, i, lots, entries, f))
  BY <1>1, <1>6, <1>7, <1>9, <1>11, <1>16, <1>24, RecordedPosts
<1>26. CASE ValidTransaction(entries)
  <2>1. c = Recorded(a, k, p, cash, i, lots, entries, f)
    BY <1>5, <1>26 DEF cash, lots, l, entries, f, p
  <2> QED  BY <1>4, <1>25, <2>1 DEF c
<1>27. CASE ~ValidTransaction(entries)
  <2>1. gross = 0  BY ONLY <1>4, <1>6, <1>27
  <2>2. c = Interrupted(a, cash, i, lots)  BY <1>5, <1>27 DEF cash, lots, l, entries
  <2>3. fee <= gross  BY <1>4, Rates DEF fee
  <2>4. cash = a.cash /\ Bases(lots) = CostBasis(a, i)
    BY ONLY <1>4, <1>12, <1>13, <1>14, <2>1, <2>3 DEF cash
  <2>5. Stops(R, B, a, c)  BY <1>1, <1>2, <1>11, <2>2, <2>4, Interrupts
  <2> QED  BY <1>4, <2>1, <2>5 DEF c, gross
<1> QED  BY <1>26, <1>27

\* So is a sell: the position holds what it takes.  It raises only if what it took cost
\* nothing either.
LEMMA RecordSell ==
    ASSUME NEW R, NEW B, NEW a, NEW k, NEW b, NEW q, NEW base, NEW price, NEW capacity,
           Decided(R, B, a, k, b, q, base, price, capacity), a.orders[k].request.side # "BUY"
    PROVE  /\ q \in Nat /\ q <= capacity /\ \E m \in Nat : q = Quantum(a.orders[k].request) * m
           /\ \/ /\ Stops(R, B, a, RecordFill(a, k, b, q, base, price))
                 /\ Gross(price, q) = 0
              \/ Posted(R, B, a, k, b, q, RecordFill(a, k, b, q, base, price))
<1> DEFINE o == a.orders[k]
           i == o.request.instrument
           gross == Gross(price, q)
           fee == ApplyRate(gross, FeeRate)
           p == AdvanceRemainder(o, q, gross, price)
           sold == ConsumeFifo(a.lots[i], q)
           cash == a.cash + gross - fee
           entries == SellEntries(gross, fee, sold.basis)
           f == FillOf(k, b, q, base, price, gross, fee, sold.basis)
           c == RecordFill(a, k, b, q, base, price)
<1>1. /\ a \in Account(R, B) /\ k \in DOMAIN a.orders /\ o \in Order(R) /\ OrderOK(o)
      /\ IsOpen(o) /\ ValidRequest(o.request) /\ i \in Instruments /\ o.request.side = "SELL"
      /\ a.lots[i] \in Seq(Lot) /\ base \in Nat /\ price \in Nat /\ capacity \in Nat
  BY DecidedOrder
<1>2. q = FillableQuantity(a, k, price, capacity) /\ q > 0 /\ AccountOK(R, B, a)
  BY DEF Decided
<1>3. /\ a.cash \in Int /\ a.seeded \in Nat /\ a.lots \in [Instruments -> Seq(Lot)]
  BY <1>1, Fields
<1>4. o.left \in Nat  BY <1>1 DEF Order
<1>5. /\ q \in Nat /\ q <= capacity /\ q <= o.left /\ q <= Position(a, i)
      /\ \E m \in Nat : q = Quantum(o.request) * m
  <2>1. SellCaps(a, k, capacity, q)  BY ONLY <1>1, <1>2, <1>3, <1>4, FillableSell, Zenon
  <2> QED  BY <2>1 DEF SellCaps
<1>6. c = IF sold.left > 0 THEN [a EXCEPT !.lots[i] = sold.lots, !.raised = TRUE]
          ELSE IF ~ValidTransaction(entries) THEN Interrupted(a, cash, i, sold.lots)
          ELSE Recorded(a, k, p, cash, i, sold.lots, entries, f)
  <2>1. c = SellRecord(a, k, b, q, base, price)  BY <1>1, RecordIs
  <2> QED  BY <2>1 DEF SellRecord
<1>7. /\ sold \in Taking /\ sold.left = 0
      /\ Quantities(sold.lots) = Position(a, i) - q
      /\ Bases(sold.lots) = CostBasis(a, i) - sold.basis
  <2>1. Position(a, i) = Quantities(a.lots[i]) /\ CostBasis(a, i) = Bases(a.lots[i])  BY LotSums
  <2> QED  BY <1>1, <1>5, <2>1, ConsumeFifoTakes
<1>8. gross \in Nat
  <2>1. price * q \in Nat  BY ONLY <1>1, <1>5
  <2> QED  BY <2>1, RoundNat, Constants DEF Gross
<1> HIDE DEF gross
<1>9. fee \in Nat /\ fee <= gross  BY <1>8, Rates
<1> HIDE DEF fee, c, sold
<1>10. sold.basis \in Nat /\ sold.lots \in Seq(Lot)  BY <1>7 DEF Taking
<1>11. /\ entries \in Seq(Posting)
       /\ Side(entries, {"SECURITY"}, "DEBIT") = 0
       /\ Side(entries, {"SECURITY"}, "CREDIT") = sold.basis
       /\ Side(entries, {"CASH"}, "DEBIT") = gross - fee
       /\ Side(entries, {"CASH"}, "CREDIT") = 0
       /\ gross > 0 \/ sold.basis > 0 => ValidTransaction(entries)
  BY <1>8, <1>9, <1>10, SellPosts
<1>12. /\ f \in Fill(B) /\ Respects(a, f) /\ f.order = k /\ f.bar = b
       /\ f.quantity = q /\ f.gross = gross
  <2>1. q \in Nat /\ gross \in Nat /\ fee \in Nat /\ sold.basis \in Nat
    BY <1>5, <1>8, <1>9, <1>10
  <2>2. Evidences(B, a, k, b, q, gross, f)  BY <2>1, FillMade
  <2> QED  BY <2>2 DEF Evidences
<1>13. o.request.mode = "WHOLE_SHARES" => Multiple(q)  BY <1>5, QuantumIs
<1>14. IF o.request.notional > 0 THEN gross <= o.left ELSE q <= o.left
  <2>1. EligibilityReason(o.request) = "NONE"  BY <1>1 DEF OrderOK
  <2>2. ~(o.request.notional > 0)
    BY <1>1, <2>1 DEF EligibilityReason, ValidRequest, ValidMeasure
  <2> QED  BY <1>5, <2>2
<1>15. /\ p \in Order(R) /\ OrderOK(p) /\ p.request = o.request /\ p.filled = o.filled + q
       /\ p.left = IF o.request.notional > 0 THEN o.left - gross ELSE o.left - q
       /\ \A j : /\ Held(p, j) <= Held(o, j)
                 /\ o.request.side = "SELL" /\ o.request.instrument = j =>
                      Held(p, j) = Held(o, j) - q
  <2>1. o \in Order(R) /\ OrderOK(o) /\ IsOpen(o)  BY <1>1
  <2>2. /\ q \in Nat /\ gross \in Nat
        /\ IF o.request.notional > 0 THEN gross <= o.left ELSE q <= o.left
    BY <1>5, <1>8, <1>14
  <2>3. Advances(R, o, p, q, gross)  BY ONLY <1>13, <2>1, <2>2, Advanced, Zenon
  <2> QED  BY <2>3 DEF Advances
<1> HIDE DEF entries, f, p
<1>16. PositionExposure(a) \in Nat /\ CostBasis(a, i) \in Nat /\ Position(a, i) \in Nat
  BY <1>1, <1>3, Exposures
<1>17. cash \in Int /\ cash >= a.cash  BY ONLY <1>3, <1>8, <1>9
<1>18. Held(p, i) + Position(a, i) <= Held(o, i) + Quantities(sold.lots)
  <2>1. Held(p, i) \in Nat /\ Held(o, i) \in Nat  BY <1>1, <1>15, HeldNat
  <2>2. Held(p, i) = Held(o, i) - q  BY <1>1, <1>15
  <2> QED  BY ONLY <1>5, <1>7, <1>16, <2>1, <2>2
<1>19. cash = a.cash + Side(entries, {"CASH"}, "DEBIT") - Side(entries, {"CASH"}, "CREDIT")
  BY ONLY <1>3, <1>8, <1>9, <1>11
<1>20. Bases(sold.lots) = CostBasis(a, i) + Side(entries, {"SECURITY"}, "DEBIT")
                            - Side(entries, {"SECURITY"}, "CREDIT")
  BY ONLY <1>7, <1>10, <1>11, <1>16
<1>21. /\ Bases(sold.lots) <= Greater(MaxInstrumentExposure, a.seeded)
       /\ PositionExposure(a) - CostBasis(a, i) + Bases(sold.lots)
            <= Greater(Lesser(MaxStrategyNotional, MaxGrossExposure), a.seeded)
  <2>1. /\ CostBasis(a, i) <= Greater(MaxInstrumentExposure, a.seeded)
        /\ PositionExposure(a) <= Greater(Lesser(MaxStrategyNotional, MaxGrossExposure), a.seeded)
    BY <1>1, <1>2 DEF AccountOK, Covered
  <2>2. /\ Greater(MaxInstrumentExposure, a.seeded) \in Int
        /\ Greater(Lesser(MaxStrategyNotional, MaxGrossExposure), a.seeded) \in Int
    BY ONLY <1>3, Constants DEF Greater, Lesser
  <2> QED  BY ONLY <1>7, <1>10, <1>16, <2>1, <2>2
<1>22. /\ p.filled = o.filled + f.quantity
       /\ p.left = IF p.request.notional > 0 THEN o.left - f.gross ELSE o.left - f.quantity
  BY <1>12, <1>15
<1> HIDE DEF cash
<1>23. AccountOK(R, B, Recorded(a, k, p, cash, i, sold.lots, entries, f))
  BY <1>1, <1>2, <1>10, <1>11, <1>12, <1>15, <1>17, <1>18, <1>19, <1>20, <1>21, <1>22,
     FillRecorded
<1>24. Posted(R, B, a, k, b, q, Recorded(a, k, p, cash, i, sold.lots, entries, f))
  BY <1>1, <1>10, <1>11, <1>12, <1>15, <1>17, <1>23, RecordedPosts
<1>25. CASE ValidTransaction(entries)
  <2>1. c = Recorded(a, k, p, cash, i, sold.lots, entries, f)
    BY ONLY <1>6, <1>7, <1>25 DEF cash, entries, f, p
  <2> QED  BY <1>5, <1>24, <2>1 DEF c
<1>26. CASE ~ValidTransaction(entries)
  <2>1. gross = 0 /\ sold.basis = 0  BY ONLY <1>8, <1>10, <1>11, <1>26
  <2>2. c = Interrupted(a, cash, i, sold.lots)  BY ONLY <1>6, <1>7, <1>26 DEF cash, entries
  <2>3. cash = a.cash /\ Bases(sold.lots) = CostBasis(a, i)
    BY ONLY <1>3, <1>7, <1>8, <1>9, <1>16, <2>1 DEF cash
  <2>4. Stops(R, B, a, c)  BY <1>1, <1>2, <1>10, <2>2, <2>3, Interrupts
  <2> QED  BY <1>5, <2>1, <2>4 DEF c, gross
<1> QED  BY <1>25, <1>26
================================================================================
