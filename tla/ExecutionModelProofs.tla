------------------------- MODULE ExecutionModelProofs -------------------------
(***************************************************************************)
(* Proofs about the account of ExecutionModel, for every policy, every set *)
(* of requests, bars and seeded lots and every number of them: the ledger  *)
(* explains the account, what open orders were promised is there, orders   *)
(* add up, fills respect their orders and share the capacity of their bar. *)
(***************************************************************************)
EXTENDS FillLemmas, TLAPS

\* Most steps are first-order; a step that needs arithmetic or records says SMT, or cites
\* ONLY what it computes with.
USE Zenon

\* What is not used below stays hidden: a visible name is expanded in every step.
HIDE DEF NatInduction, DownwardNatInduction, GeneralNatInduction, SmallestNatural,
         RecursiveFcnOfNat, NatInductiveDef, RecursiveFcnOfNatType, NatInductiveDefType,
         RecursiveFcnOfNatUnique, NatInductiveUnique, FiniteNatInductiveDef,
         FiniteNatInductiveDefType, FiniteNatInductiveUnique, EmptyIsWellFounded,
         IsWellFoundedOnSubset, IsWellFoundedOnSubrelation, WFMin, MinWF,
         WellFoundedIsIrreflexive, WellFoundedIsAsymmetric, WFSetLessThanIrreflexive,
         SetLessTransitive, WFInduction, WFDefOnUnique, WFInductiveDefLemma,
         TransitiveClosureThm, TransitiveClosureMinimal, TCTCTC, TCRTC, RTCTC,
         TransitiveClosureChopLast, TransitiveClosureWF, WFInductiveDef,
         WFInductiveDefType, NatLessThanWellFounded, PreImageWellFounded,
         WFLexPairOrdering, WFLexProductOrdering, FS_NatSurjection, FS_NatBijection,
         FS_CountingElements, FS_SurjCardinalityBound, FS_Bijection,
         FS_SameCardinalityBij, FS_SurjSameCardinalityImpliesInj, FS_Surjection,
         FS_Image, FS_Injection, FS_PigeonHole, FS_AddElement, FS_Singleton,
         FS_BoundedSetOfNaturals, FS_Induction, FS_FiniteSubsetsOfFinite,
         FS_StrictSubsetOrderingWellFounded, FS_WFInduction, FS_Union,
         FS_MajoritiesIntersect, FS_Intersection, FS_Difference, FS_UNION, FS_Product,
         FS_SUBSET, SomeIn, SmallSubset, SumsExist, SumDef, SumsAgree, SumOfNothing,
         SumStep, SumInt, SumRemove, SumDifference, SumSame, SumChange, SumGrows,
         DivMod, Unscaling, RoundBounds, RoundAtMost, RoundAtLeast, RoundExact,
         RoundNat, Overdraft, ConsumeFifoRuns, LotSumsNat, LotSumsAppend, PartOfBasis,
         TakeFromLotTurn, ConsumeFifoTakes, SideIs, SideNat, SideAppend, KeptSide,
         EntriesRuns, BothSides, KeptFromNothing, EntriesOfThree, EntriesOfFour,
         BuyPosts, SellPosts, SumAtLeast, Exposures, ExposureChange, BookedAppend,
         BookedNothing, FilledAppend, NotFilled, HeldNat, ReservedNat, HeldIs,
         HeldShrinks, HeldChange, HeldAppend, OthersHeld, RateOf, CommitmentNat,
         Refreshed, Closed, OrdersSettle, SettlesSelf, VisitedSettles, ExpireRuns,
         OrderAdded, NewOrderIs, Rejected, WholeMultiple, Accepted, Amended, RefusalIs,
         EligibilityIs, SeedKeeps, LimitBaseWithin, StopBaseWithin, LeastIs, Capped,
         LeastCap, QuantumIs, Affords, BuyFits, Multiples, Advanced, RecordedFields,
         RangeAppend, FillRecorded, FillMade, RecordedPosts, RecordIs

(* No fill is worth nothing *)

\* With prices that are worth a quantum, no fill is worth nothing.
LEMMA FillWorth ==
    ASSUME NoDust, NEW R, NEW a, NEW k, NEW b, NEW q \in Nat, NEW base, NEW price, NEW capacity,
           Decided(R, Bars, a, k, b, q, base, price, capacity),
           \E m \in Nat : q = Quantum(a.orders[k].request) * m
    PROVE  Gross(price, q) > 0
<1> DEFINE o == a.orders[k]
           net == base - ApplyRate(base, SlippageRate)
           unit == IF b.instrument \in Fractional THEN 1 ELSE Share
<1>1. /\ OrderOK(o) /\ IsOpen(o) /\ base \in Nat /\ price \in Nat
  BY DecidedOrder
<1>2. /\ b \in Bars /\ o.request.instrument = b.instrument
      /\ b.low <= base /\ base <= b.high /\ price >= net /\ q > 0
  BY DEF Decided, Within
<1>3. Share \in Nat \ {0}  BY Constants
<1>4. net \in Nat
  <2>1. ApplyRate(base, SlippageRate) \in Nat /\ ApplyRate(base, SlippageRate) <= base
    BY <1>1, Rates
  <2> QED  BY ONLY <1>1, <2>1
<1>5. Share < 2 * net * unit
  <2>1. ValidBar(b)  BY <1>2, ExecutionAssumption
  <2>2. b.low \in Nat /\ b.high \in Nat  BY <2>1, BarNat
  <2>3. base \in b.low..b.high  BY ONLY <1>1, <1>2, <2>2
  <2> QED  BY <1>2, <2>3 DEF NoDust
<1>6. unit <= Quantum(o.request) /\ unit \in Nat /\ Quantum(o.request) \in Nat
  <2>1. EligibilityReason(o.request) = "NONE"  BY <1>1 DEF OrderOK
  <2>2. IsFractional(o.request) => o.request.instrument \in Fractional
    BY <2>1 DEF EligibilityReason, IsFractional
  <2> QED  BY ONLY <1>2, <1>3, <2>2 DEF Quantum
<1> HIDE DEF unit, net
<1>7. Quantum(o.request) <= q
  <2>1. PICK m \in Nat : q = Quantum(o.request) * m  OBVIOUS
  <2>2. m >= 1
    <3>1. m # 0  BY ONLY <1>2, <1>6, <2>1
    <3> QED  BY ONLY <3>1
  <2>3. Quantum(o.request) * 1 <= Quantum(o.request) * m  BY ONLY <1>6, <2>2, Scaling
  <2> QED  BY ONLY <1>6, <2>1, <2>3
<1>8. unit <= q  BY ONLY <1>6, <1>7
<1>9. net * unit <= net * q /\ net * unit \in Int /\ net * q \in Int  BY ONLY <1>4, <1>6, <1>8, Scaling
<1>10. q * net <= q * price /\ q * net \in Int /\ q * price \in Int  BY ONLY <1>1, <1>2, <1>4, Scaling
<1>11. price * q \in Nat  BY ONLY <1>1
<1>12. Share < 2 * (price * q)
  <2>1. q * net = net * q /\ q * price = price * q  BY ONLY <1>1, <1>4
  <2>2. 2 * net * unit = 2 * (net * unit)  BY ONLY <1>4, <1>6
  <2> QED  BY ONLY <1>3, <1>5, <1>9, <1>10, <1>11, <2>1, <2>2
<1> QED  BY <1>3, <1>11, <1>12, RoundPositive DEF Gross
--------------------------------------------------------------------------------
(* process_bar *)

HIDE DEF Scaling, RoundPositive, SameSums, DecidedOrder

\* What the fills after the n-th add up to.
TailQuantity(fills, n) ==
    SumFunction([j \in 1..(Len(fills) - n) |-> fills[n + j].quantity])

\* It is a natural,
LEMMA TailInt ==
    ASSUME NEW B, NEW s \in Seq(Fill(B)), NEW n \in 0..Len(s)
    PROVE  TailQuantity(s, n) \in Nat
<1> DEFINE g == [j \in 1..(Len(s) - n) |-> s[n + j].quantity]
<1>1. \A j \in 1..(Len(s) - n) : s[n + j] \in Fill(B)
  <2> TAKE j \in 1..(Len(s) - n)
  <2>1. n + j \in 1..Len(s)  BY SMT
  <2> QED  BY ONLY <2>1
<1>2. DOMAIN g = 1..(Len(s) - n) /\ \A j \in DOMAIN g : g[j] \in Nat  BY <1>1 DEF Fill
<1>3. IsFiniteSet(DOMAIN g)
  <2>1. Len(s) - n \in Int  BY SMT
  <2> QED  BY ONLY <1>2, <2>1, FS_Interval
<1> HIDE DEF g
<1>4. SumFunction(g) \in Nat  BY <1>2, <1>3, SumNat
<1> QED  BY <1>4 DEF TailQuantity, g

\* and a fill adds its quantity.
LEMMA TailAppend ==
    ASSUME NEW B, NEW s \in Seq(Fill(B)), NEW n \in 0..Len(s), NEW f \in Fill(B), NEW t,
           Adds(t, s, f)
    PROVE  /\ TailQuantity(s, n) \in Int /\ TailQuantity(t, n) = TailQuantity(s, n) + f.quantity
<1> DEFINE m == Len(s) - n
           g == [j \in 1..(Len(s) - n) |-> s[n + j].quantity]
           h == [j \in 1..(Len(t) - n) |-> t[n + j].quantity]
<1>1. /\ Len(s) \in Nat /\ Len(t) = Len(s) + 1 /\ t[Len(s) + 1] = f
      /\ \A j \in 1..Len(s) : t[j] = s[j] /\ s[j] \in Fill(B)
  BY Appended, SMT DEF Adds
<1>2. m \in Nat /\ Len(t) - n = m + 1  BY ONLY <1>1
<1>3. DOMAIN g = 1..m /\ DOMAIN h = 1..(m + 1)  BY <1>2
<1>4. \A j \in 1..m : g[j] \in Int /\ h[j] = g[j]
  <2> TAKE j \in 1..m
  <2>1. n + j \in 1..Len(s) /\ j \in 1..(m + 1)  BY ONLY <1>1, <1>2
  <2>2. t[n + j] = s[n + j] /\ s[n + j] \in Fill(B)  BY <1>1, <2>1
  <2>3. s[n + j].quantity \in Nat  BY <2>2 DEF Fill
  <2> QED  BY ONLY <1>2, <2>1, <2>2, <2>3
<1>5. h[m + 1] = f.quantity /\ h[m + 1] \in Int
  <2>1. n + (m + 1) = Len(s) + 1 /\ m + 1 \in 1..(m + 1)  BY ONLY <1>1, <1>2
  <2>2. f.quantity \in Nat  BY DEF Fill
  <2> QED  BY ONLY <1>1, <1>2, <2>1, <2>2
<1> HIDE DEF g, h, m
<1>6. SumFunction(g) \in Int /\ SumFunction(h) = SumFunction(g) + h[m + 1]
  BY <1>2, <1>3, <1>4, <1>5, SumExtend
<1> QED  BY <1>5, <1>6 DEF TailQuantity, g, h

\* _record_fill: the fill is posted, or it is worth nothing and raises.
LEMMA RecordKeeps ==
    ASSUME NEW R, NEW B, NEW a, NEW k, NEW b, NEW q, NEW base, NEW price, NEW capacity,
           Decided(R, B, a, k, b, q, base, price, capacity)
    PROVE  /\ q \in Nat /\ q <= capacity /\ \E m \in Nat : q = Quantum(a.orders[k].request) * m
           /\ \/ /\ Stops(R, B, a, RecordFill(a, k, b, q, base, price))
                 /\ Gross(price, q) = 0
              \/ Posted(R, B, a, k, b, q, RecordFill(a, k, b, q, base, price))
  BY RecordBuy, RecordSell

\* The fills made since account a all belong to bar b, and with the capacity that is left
\* they stay within that of the bar.
Shares(a, b, c) ==
    /\ Len(a.fills) <= Len(c.acct.fills)
    /\ \A j \in (Len(a.fills) + 1)..Len(c.acct.fills) : c.acct.fills[j].bar = b
    /\ TailQuantity(c.acct.fills, Len(a.fills)) + c.capacity <= Capacity(b)

\* Between two turns of process_bar: the invariant, and the orders that did not have their
\* turn are as they were.
LoopOK(R, a, b, c, done) ==
    /\ c \in [acct : Account(R, Bars), capacity : Nat]
    /\ Standing(R, Bars, c.acct)
    /\ DOMAIN c.acct.orders = DOMAIN a.orders
    /\ \A k \in DOMAIN a.orders \ done : c.acct.orders[k] = a.orders[k]
    /\ Shares(a, b, c)
    /\ NoDust => c.acct.raised = a.raised

\* A turn does nothing, observes the bar, or fills; after a fill that raised, it does nothing.
LEMMA FillOrderIs ==
    ASSUME NEW R, NEW c \in [acct : Account(R, Bars), capacity : Nat], NEW b, NEW k
    PROVE  LET base == BasePrice(c.acct.orders[k], b)
               price == ExecutionPrice(c.acct.orders[k].request, base)
               a == [c.acct EXCEPT !.orders[k] = Observe(c.acct.orders[k], b)]
               q == FillableQuantity(a, k, price, c.capacity)
           IN  \/ FillOrder(b, c, k) = c
               \/ ~c.acct.raised /\ FillOrder(b, c, k) = [acct |-> a, capacity |-> c.capacity]
               \/ /\ ~c.acct.raised /\ base # 0 /\ ~(q <= 0)
                  /\ FillOrder(b, c, k) = [acct |-> RecordFill(a, k, b, q, base, price),
                                           capacity |-> c.capacity - q]
<1> DEFINE base == BasePrice(c.acct.orders[k], b)
           price == ExecutionPrice(c.acct.orders[k].request, base)
           a == [c.acct EXCEPT !.orders[k] = Observe(c.acct.orders[k], b)]
           q == FillableQuantity(a, k, price, c.capacity)
<1>1. \A x : [c EXCEPT !.acct = x] = [acct |-> x, capacity |-> c.capacity]  BY SMT
<1>2. FillOrder(b, c, k) =
        IF c.capacity <= 0 \/ c.acct.raised THEN c
        ELSE IF base = 0 THEN [c EXCEPT !.acct = a]
        ELSE IF q <= 0 THEN [c EXCEPT !.acct = a]
        ELSE [acct |-> RecordFill(a, k, b, q, base, price), capacity |-> c.capacity - q]
  BY DEF FillOrder
<1> HIDE DEF base, price, a, q
<1>3. \/ FillOrder(b, c, k) = c
      \/ ~c.acct.raised /\ FillOrder(b, c, k) = [acct |-> a, capacity |-> c.capacity]
      \/ /\ ~c.acct.raised /\ base # 0 /\ ~(q <= 0)
         /\ FillOrder(b, c, k) = [acct |-> RecordFill(a, k, b, q, base, price),
                                  capacity |-> c.capacity - q]
  BY <1>1, <1>2
<1> QED  BY <1>3 DEF base, price, a, q

\* The order may be filled by the bar.
MayFill(a, b, k) ==
    /\ k \in DOMAIN a.orders /\ IsOpen(a.orders[k])
    /\ a.orders[k].request.instrument = b.instrument
    /\ a.orders[k].request.eligible <= b.starts

\* Observing the bar keeps the invariant, and the order open.
LEMMA Observed ==
    ASSUME NEW R, NEW x, AccountOK(R, Bars, x), NEW b \in Bars, NEW k, MayFill(x, b, k)
    PROVE  LET d == [x EXCEPT !.orders[k] = Observe(x.orders[k], b)]
           IN  /\ AccountOK(R, Bars, d) /\ d.fills = x.fills /\ d.raised = x.raised
               /\ Replaces(d.orders, x.orders, k, Observe(x.orders[k], b))
               /\ d.orders[k] = Observe(x.orders[k], b)
               /\ MayFill(d, b, k) /\ d.orders[k].request = x.orders[k].request
<1> DEFINE o == x.orders[k]
           p == Observe(o, b)
           s == [x.orders EXCEPT ![k] = p]
           d == [x EXCEPT !.orders[k] = p]
<1>1. x \in Account(R, Bars) /\ k \in DOMAIN x.orders /\ OrderOK(o)  BY DEF AccountOK, MayFill
<1>2. x.orders \in Seq(Order(R))  BY <1>1, Fields
<1>3. o \in Order(R)  BY ONLY <1>1, <1>2
<1>4. ValidBar(b)  BY ExecutionAssumption
<1>5. p \in Order(R) /\ Settles(o, p) /\ (IsOpen(o) => IsOpen(p))
  BY <1>1, <1>3, <1>4, ObserveSettles
<1> HIDE DEF p
<1>6. AccountOK(R, Bars, d) /\ d = [x EXCEPT !.orders = s]
  BY <1>1, <1>5, OrderSettles
<1>7. s \in Seq(Order(R)) /\ s[k] = p /\ DOMAIN s = DOMAIN x.orders  BY ONLY <1>1, <1>2, <1>5
<1> HIDE DEF s, d
<1>8. d.orders = s /\ d.fills = x.fills /\ d.raised = x.raised
  BY ONLY <1>1, <1>6, <1>7, OrdersReplaced
<1>9. p.request = o.request  BY <1>5 DEF Settles
<1>10. MayFill(d, b, k)  BY <1>5, <1>7, <1>8, <1>9 DEF MayFill
<1>11. Replaces(d.orders, x.orders, k, p)  BY <1>8 DEF Replaces, s
<1> QED  BY <1>6, <1>7, <1>8, <1>9, <1>10, <1>11 DEF d, p

\* What a turn decides on.
LEMMA PricedFill ==
    ASSUME NEW R, NEW x, AccountOK(R, Bars, x), NEW b \in Bars, NEW k, MayFill(x, b, k),
           NEW d, AccountOK(R, Bars, d), MayFill(d, b, k),
           d.orders[k].request = x.orders[k].request, NEW capacity \in Nat,
           BasePrice(x.orders[k], b) # 0
    PROVE  LET base == BasePrice(x.orders[k], b)
               price == ExecutionPrice(x.orders[k].request, base)
               q == FillableQuantity(d, k, price, capacity)
           IN  ~(q <= 0) => Decided(R, Bars, d, k, b, q, base, price, capacity)
<1> DEFINE o == x.orders[k]
           r == o.request
           base == BasePrice(o, b)
           price == ExecutionPrice(r, base)
           q == FillableQuantity(d, k, price, capacity)
<1>1. x \in Account(R, Bars) /\ k \in DOMAIN x.orders /\ OrderOK(o)  BY DEF AccountOK, MayFill
<1>2. x.orders \in Seq(Order(R))  BY <1>1, Fields
<1>3. o \in Order(R) /\ ValidRequest(r)  BY ONLY <1>1, <1>2 DEF OrderOK
<1>4. ValidBar(b)  BY ExecutionAssumption
<1>5. Within(b, base) /\ Meets(r, base)  BY <1>3, <1>4, BasePriceWithin
<1>6. base \in Nat /\ base > 0
  BY ONLY <1>4, <1>5, BarNat DEF Within
<1> HIDE DEF base
<1>7. /\ price \in Nat /\ Meets(r, price)
      /\ r.side = "BUY" => price >= base
      /\ r.side # "BUY" => price <= base /\ price >= base - ApplyRate(base, SlippageRate)
  BY <1>3, <1>5, <1>6, ExecutionPriceBounds
<1>8. ApplyRate(base, SlippageRate) \in Nat  BY <1>6, Rates
<1> HIDE DEF price
<1>9. price >= base - ApplyRate(base, SlippageRate)  BY ONLY <1>6, <1>7, <1>8
<1>10. q \in Nat
  <2>1. d \in Account(R, Bars) /\ k \in DOMAIN d.orders /\ OrderOK(d.orders[k])
    BY DEF AccountOK, MayFill
  <2>2. d.orders \in Seq(Order(R)) /\ d.lots \in [Instruments -> Seq(Lot)]  BY <2>1, Fields
  <2>3. d.orders[k] \in Order(R)  BY ONLY <2>1, <2>2
  <2>4. d.orders[k].left \in Nat /\ ValidRequest(d.orders[k].request)
    BY <2>1, <2>3 DEF Order, OrderOK
  <2>5. /\ d.orders[k].request.instrument \in Instruments
        /\ d.orders[k].request.side \in {"BUY", "SELL"}
    BY <2>4 DEF ValidRequest
  <2>6. CASE d.orders[k].request.side = "SELL"
    BY <2>2, <2>4, <2>5, <2>6, FillableSell DEF SellCaps
  <2>7. CASE d.orders[k].request.side = "BUY"
    <3>1. price \in Nat \ {0}  BY <1>6, <1>7, <2>7, SMT
    <3>2. BuyCaps(d, k, price, capacity, q)  BY <2>1, <2>4, <2>7, <3>1, FillableBuy
    <3> QED  BY <3>2 DEF BuyCaps
  <2> QED  BY <2>5, <2>6, <2>7
<1> HIDE DEF q
<1>11. ASSUME ~(q <= 0) PROVE Decided(R, Bars, d, k, b, q, base, price, capacity)
  <2>1. q > 0 /\ q = FillableQuantity(d, k, price, capacity)  BY ONLY <1>10, <1>11 DEF q
  <2>2. /\ k \in DOMAIN d.orders /\ IsOpen(d.orders[k])
        /\ d.orders[k].request.instrument = b.instrument
        /\ d.orders[k].request.eligible <= b.starts
    BY DEF MayFill
  <2>3. b.starts >= d.orders[k].request.eligible
    BY <1>3, <1>4, <2>2, BarNat DEF ValidRequest
  <2> QED  BY <1>5, <1>6, <1>7, <1>9, <2>1, <2>2, <2>3 DEF Decided
<1> QED  BY <1>11 DEF base, price, q

\* The capacity of a bar.
LEMMA CapacityNat ==
    ASSUME NEW b \in Bars
    PROVE  Capacity(b) \in Nat
<1>1. ValidBar(b)  BY ExecutionAssumption
<1>2. b.volume \in Nat  BY <1>1, BarNat
<1>3. ParticipationRate \in Nat /\ BasisPoints \in Nat \ {0}  BY ONLY Constants
<1>4. b.volume * ParticipationRate \in Int  BY ONLY <1>2, <1>3
<1> DEFINE n == b.volume * ParticipationRate
<1> HIDE DEF n
<1>5. n \in Int  BY <1>4 DEF n
<1>6. FloorToQuantum(n, BasisPoints, 1) \in Nat  BY ONLY <1>3, <1>5, FloorBounds
<1> QED  BY <1>6 DEF Capacity, n

\* A turn that changes its own order keeps LoopOK.
LEMMA TurnTaken ==
    ASSUME NEW R, NEW a, NEW b \in Bars, NEW c, NEW done, LoopOK(R, a, b, c, done),
           NEW k \in DOMAIN a.orders, NEW d, Standing(R, Bars, d),
           NEW p, Replaces(d.orders, c.acct.orders, k, p), NEW capacity \in Nat,
           Shares(a, b, [acct |-> d, capacity |-> capacity]),
           NoDust => d.raised = c.acct.raised
    PROVE  LoopOK(R, a, b, [acct |-> d, capacity |-> capacity], done \cup {k})
<1> DEFINE e == [acct |-> d, capacity |-> capacity]
<1>1. /\ DOMAIN c.acct.orders = DOMAIN a.orders
      /\ \A j \in DOMAIN a.orders \ done : c.acct.orders[j] = a.orders[j]
      /\ NoDust => c.acct.raised = a.raised
      /\ c \in [acct : Account(R, Bars), capacity : Nat]
  BY DEF LoopOK
<1>2. d \in Account(R, Bars)  BY DEF Standing, Sound
<1>3. e \in [acct : Account(R, Bars), capacity : Nat] /\ e.acct = d  BY <1>2
<1>4. c.acct \in Account(R, Bars)  BY <1>1
<1>5. c.acct.orders \in Seq(Order(R))  BY <1>4, Fields
<1>6. /\ DOMAIN d.orders = DOMAIN c.acct.orders
      /\ \A j \in DOMAIN c.acct.orders : j # k => d.orders[j] = c.acct.orders[j]
  BY <1>1, <1>5 DEF Replaces
<1>7. \A j \in DOMAIN a.orders \ (done \cup {k}) : d.orders[j] = a.orders[j]
  BY <1>1, <1>6
<1>8. NoDust => d.raised = a.raised  BY <1>1
<1>9. Shares(a, b, e)  OBVIOUS
<1> HIDE DEF e
<1>10. LoopOK(R, a, b, e, done \cup {k})
  BY <1>1, <1>3, <1>6, <1>7, <1>8, <1>9 DEF LoopOK
<1> QED  BY <1>10 DEF e

\* Every turn of process_bar keeps LoopOK.
LEMMA FillOrderTurn ==
    ASSUME NEW R, NEW a, AccountOK(R, Bars, a), NEW b \in Bars, NEW c, NEW done,
           LoopOK(R, a, b, c, done), NEW k, k \notin done, MayFill(a, b, k)
    PROVE  LoopOK(R, a, b, FillOrder(b, c, k), done \cup {k})
<1> DEFINE x == c.acct
           o == x.orders[k]
           base == BasePrice(o, b)
           price == ExecutionPrice(o.request, base)
           d == [x EXCEPT !.orders[k] = Observe(o, b)]
           q == FillableQuantity(d, k, price, c.capacity)
           y == RecordFill(d, k, b, q, base, price)
<1>1. /\ c \in [acct : Account(R, Bars), capacity : Nat] /\ Standing(R, Bars, x)
      /\ DOMAIN x.orders = DOMAIN a.orders
      /\ \A j \in DOMAIN a.orders \ done : x.orders[j] = a.orders[j]
      /\ Shares(a, b, c) /\ (NoDust => x.raised = a.raised)
  BY DEF LoopOK
<1>2. k \in DOMAIN a.orders /\ k \in DOMAIN x.orders /\ o = a.orders[k]  BY <1>1 DEF MayFill
<1>3. MayFill(x, b, k)  BY <1>1, <1>2 DEF MayFill
<1>4. c.capacity \in Nat /\ x \in Account(R, Bars)  BY <1>1
<1>5. \/ FillOrder(b, c, k) = c
      \/ ~x.raised /\ FillOrder(b, c, k) = [acct |-> d, capacity |-> c.capacity]
      \/ /\ ~x.raised /\ base # 0 /\ ~(q <= 0)
         /\ FillOrder(b, c, k) = [acct |-> y, capacity |-> c.capacity - q]
  BY ONLY <1>1, FillOrderIs
<1>6. CASE FillOrder(b, c, k) = c
  <2>1. LoopOK(R, a, b, c, done \cup {k})
    BY DEF LoopOK
  <2> QED  BY <1>6, <2>1
<1>7. SUFFICES ASSUME FillOrder(b, c, k) # c
               PROVE  LoopOK(R, a, b, FillOrder(b, c, k), done \cup {k})
  BY <1>6
<1>8. ~x.raised  BY <1>5, <1>7
<1>9. AccountOK(R, Bars, x)  BY <1>1, <1>8 DEF Standing
<1>10. /\ AccountOK(R, Bars, d) /\ d.fills = x.fills /\ d.raised = x.raised
      /\ Replaces(d.orders, x.orders, k, Observe(o, b)) /\ d.orders[k] = Observe(o, b)
      /\ MayFill(d, b, k) /\ d.orders[k].request = o.request
  BY ONLY <1>3, <1>9, b \in Bars, Observed
<1> HIDE DEF d, x
<1>11. Shares(a, b, [acct |-> d, capacity |-> c.capacity])
  BY <1>1, <1>10 DEF Shares, x
<1>12. CASE FillOrder(b, c, k) = [acct |-> d, capacity |-> c.capacity]
  <2>1. Standing(R, Bars, d)  BY <1>10, OKStands
  <2>2. LoopOK(R, a, b, [acct |-> d, capacity |-> c.capacity], done \cup {k})
    BY <1>2, <1>4, <1>10, <1>11, <2>1, TurnTaken DEF x
  <2> QED  BY <1>12, <2>2
<1>13. CASE /\ base # 0 /\ ~(q <= 0)
            /\ FillOrder(b, c, k) = [acct |-> y, capacity |-> c.capacity - q]
  <2>1. Decided(R, Bars, d, k, b, q, base, price, c.capacity)
    BY <1>3, <1>4, <1>9, <1>10, <1>13, PricedFill
  <2> HIDE DEF q, base, price
  <2>2. /\ q \in Nat /\ q <= c.capacity /\ \E m \in Nat : q = Quantum(d.orders[k].request) * m
        /\ \/ Stops(R, Bars, d, y) /\ Gross(price, q) = 0
           \/ Posted(R, Bars, d, k, b, q, y)
    BY <2>1, RecordKeeps
  <2> HIDE DEF y
  <2>3. c.capacity - q \in Nat /\ c.capacity - q <= c.capacity  BY ONLY <1>4, <2>2
  <2>4. d \in Account(R, Bars) /\ d.orders \in Seq(Order(R)) /\ d.fills \in Seq(Fill(Bars))
    <3>1. d \in Account(R, Bars)  BY <1>10 DEF AccountOK
    <3> QED  BY <3>1, Fields
  <2>5. a.fills \in Seq(Fill(Bars)) /\ Len(a.fills) \in Nat
    <3>1. a \in Account(R, Bars)  BY DEF AccountOK
    <3>2. a.fills \in Seq(Fill(Bars))  BY <3>1, Fields
    <3> QED  BY ONLY <3>2
  <2> DEFINE n == Len(a.fills)
  <2>6. /\ n <= Len(d.fills) /\ \A j \in (n + 1)..Len(d.fills) : d.fills[j].bar = b
        /\ TailQuantity(d.fills, n) + c.capacity <= Capacity(b)
    BY <1>1, <1>10 DEF Shares, x
  <2>7. Len(d.fills) \in Nat /\ n \in 0..Len(d.fills)  BY ONLY <2>4, <2>5, <2>6
  <2>8. Capacity(b) \in Nat  BY CapacityNat
  <2>9. CASE Stops(R, Bars, d, y) /\ Gross(price, q) = 0
    <3>1. Standing(R, Bars, y) /\ y.orders = d.orders /\ y.fills = d.fills
      BY <2>9 DEF Stops, Standing
    <3>2. ~NoDust
      <4>1. SUFFICES ASSUME NoDust PROVE FALSE  OBVIOUS
      <4>2. Gross(price, q) > 0  BY <2>1, <2>2, <4>1, FillWorth
      <4> QED  BY ONLY <2>9, <4>2
    <3>3. TailQuantity(d.fills, n) \in Nat  BY <2>4, <2>7, TailInt
    <3>4. Shares(a, b, [acct |-> y, capacity |-> c.capacity - q])
      BY <2>2, <2>3, <2>6, <2>8, <3>1, <3>3, <1>4, SMTT(20) DEF Shares
    <3>5. Replaces(y.orders, c.acct.orders, k, Observe(o, b))  BY <1>10, <3>1 DEF x
    <3>6. LoopOK(R, a, b, [acct |-> y, capacity |-> c.capacity - q], done \cup {k})
      BY <1>2, <2>3, <3>1, <3>2, <3>4, <3>5, TurnTaken
    <3> QED  BY <1>13, <3>6
  <2>10. CASE Posted(R, Bars, d, k, b, q, y)
    <3>1. Standing(R, Bars, y) /\ y.raised = d.raised  BY <2>10, OKStands DEF Posted
    <3>2. PICK p \in Order(R) : Replaces(y.orders, d.orders, k, p)  BY <2>10 DEF Posted
    <3>3. PICK f \in Fill(Bars) : Adds(y.fills, d.fills, f) /\ f.bar = b /\ f.quantity = q
      BY <2>10 DEF Posted
    <3>4. Replaces(y.orders, c.acct.orders, k, p)
      <4>1. c.acct \in Account(R, Bars)  BY <1>4 DEF x
      <4>2. c.acct.orders \in Seq(Order(R))  BY <4>1, Fields
      <4>3. y.orders = [[c.acct.orders EXCEPT ![k] = Observe(o, b)] EXCEPT ![k] = p]
        BY <1>10, <3>2 DEF Replaces, x
      <4>4. y.orders = [c.acct.orders EXCEPT ![k] = p]  BY <4>2, <4>3
      <4> QED  BY <4>4 DEF Replaces
    <3>5. /\ TailQuantity(d.fills, n) \in Int
          /\ TailQuantity(y.fills, n) = TailQuantity(d.fills, n) + q
      BY <2>4, <2>7, <3>3, TailAppend
    <3>6. /\ Len(y.fills) = Len(d.fills) + 1 /\ y.fills[Len(d.fills) + 1] = f
          /\ \A j \in 1..Len(d.fills) : y.fills[j] = d.fills[j]
      BY ONLY <2>4, <3>3, Appended DEF Adds
    <3>7. \A j \in (n + 1)..Len(y.fills) : y.fills[j].bar = b
      <4> TAKE j \in (n + 1)..Len(y.fills)
      <4>1. CASE j = Len(d.fills) + 1  BY <3>3, <3>6, <4>1
      <4>2. CASE j # Len(d.fills) + 1
        <5>1. j \in 1..Len(d.fills) /\ j \in (n + 1)..Len(d.fills)  BY ONLY <2>5, <2>7, <3>6, <4>2
        <5> QED  BY <2>6, <3>6, <5>1
      <4> QED  BY <4>1, <4>2
    <3>8. n <= Len(y.fills)  BY ONLY <2>6, <2>7, <3>6
    <3>9. TailQuantity(y.fills, n) + (c.capacity - q) <= Capacity(b)
      BY ONLY <1>4, <2>2, <2>6, <3>5
    <3>10. Shares(a, b, [acct |-> y, capacity |-> c.capacity - q])
      BY <3>7, <3>8, <3>9 DEF Shares
    <3>11. NoDust => y.raised = c.acct.raised  BY <1>10, <3>1 DEF x
    <3>12. LoopOK(R, a, b, [acct |-> y, capacity |-> c.capacity - q], done \cup {k})
      BY <1>2, <2>3, <3>1, <3>4, <3>10, <3>11, TurnTaken
    <3> QED  BY <1>13, <3>12
  <2> QED  BY <2>2, <2>9, <2>10
<1> QED  BY <1>5, <1>7, <1>12, <1>13
--------------------------------------------------------------------------------
(* The order of the turns, and the loop over them *)

HIDE DEF FS_Interval, SumNat, SumExtend, FloorBounds, Appended, Rates, OrdersReplaced,
         OrderSettles, ObserveSettles, BarNat, BasePriceWithin, ExecutionPriceBounds,
         FillableSell, FillableBuy, RecordBuy, RecordSell, FillWorth,
         TailAppend, RecordKeeps, FillOrderIs, Observed, PricedFill, TurnTaken

\* The order of _order_key.
Earlier(a, j, k) ==
    LET s == a.orders[j].request.submitted  t == a.orders[k].request.submitted
    IN  s < t \/ (s = t /\ j < k)

\* Among finitely many orders one is the last,
LEMMA LastExists ==
    ASSUME NEW a, NEW D, D \subseteq Nat, IsFiniteSet(D), D # {},
           \A k \in D : a.orders[k].request.submitted \in Nat
    PROVE  \E k \in D : \A j \in D \ {k} : Earlier(a, j, k)
<1> DEFINE T == {n \in Nat : \A s \in SUBSET D : s # {} /\ Cardinality(s) <= n =>
                                \E k \in s : \A j \in s \ {k} : Earlier(a, j, k)}
<1>1. 0 \in T
  <2> SUFFICES ASSUME NEW s \in SUBSET D, s # {}, Cardinality(s) <= 0 PROVE FALSE
    OBVIOUS
  <2>1. IsFiniteSet(s)  BY FS_Subset
  <2> QED  BY <2>1, FS_EmptySet, FS_CardinalityType, SMT
<1>2. ASSUME NEW n \in Nat, n \in T PROVE n + 1 \in T
  <2> SUFFICES ASSUME NEW s \in SUBSET D, s # {}, Cardinality(s) <= n + 1
               PROVE  \E k \in s : \A j \in s \ {k} : Earlier(a, j, k)
    BY SMT
  <2> DEFINE x == Some(s)
             r == s \ {x}
  <2>1. r \in SUBSET D /\ Cardinality(r) <= n  BY SmallerSubset
  <2>2. x \in s  BY DEF Some
  <2>3. CASE r = {}
    <3>1. \A j \in s \ {x} : Earlier(a, j, x)  BY <2>3
    <3> QED  BY <2>2, <3>1
  <2>4. CASE r # {}
    <3>1. PICK k \in r : \A j \in r \ {k} : Earlier(a, j, k)  BY <1>2, <2>1, <2>4
    <3>2. k \in Nat /\ x \in Nat /\ k # x /\ k \in s  BY <2>1, <2>2, <3>1
    <3>3. a.orders[k].request.submitted \in Nat /\ a.orders[x].request.submitted \in Nat
      BY <2>2, <3>2
    <3>4. Earlier(a, x, k) \/ Earlier(a, k, x)  BY ONLY <3>2, <3>3 DEF Earlier
    <3>5. CASE Earlier(a, x, k)
      <4>1. \A j \in s \ {k} : Earlier(a, j, k)  BY <3>1, <3>5
      <4> QED  BY <3>2, <4>1
    <3>6. CASE Earlier(a, k, x)
      <4>1. ASSUME NEW j \in s \ {x} PROVE Earlier(a, j, x)
        <5>1. CASE j = k  BY <3>6, <5>1
        <5>2. CASE j # k
          <6>1. Earlier(a, j, k)  BY <3>1, <4>1, <5>2
          <6>2. j \in Nat /\ a.orders[j].request.submitted \in Nat  BY <4>1
          <6> QED  BY ONLY <3>2, <3>3, <3>6, <6>1, <6>2 DEF Earlier
        <5> QED  BY <5>1, <5>2
      <4> QED  BY <2>2, <4>1
    <3> QED  BY <3>4, <3>5, <3>6
  <2> QED  BY <2>3, <2>4
<1> HIDE DEF T
<1>3. Cardinality(D) \in Nat  BY FS_CardinalityType
<1>4. Cardinality(D) \in T  BY <1>1, <1>2, <1>3, Induction
<1> QED  BY <1>3, <1>4, SMT DEF T

\* and LastSubmitted is it.
LEMMA LastIsOne ==
    ASSUME NEW a, NEW D, D \subseteq Nat, IsFiniteSet(D), D # {},
           \A k \in D : a.orders[k].request.submitted \in Nat
    PROVE  LastSubmitted(a, D) \in D
<1>1. \E k \in D : \A j \in D \ {k} : Earlier(a, j, k)  BY LastExists
<1> QED  BY <1>1 DEF LastSubmitted, Earlier

\* What the loop has done when the orders in a set had their turns.
Turns(a, b, F, start, g) ==
    g = [s \in SUBSET F |-> IF s = {} THEN start
                            ELSE FillOrder(b, g[s \ {LastSubmitted(a, s)}], LastSubmitted(a, s))]

\* The last one taken out of a set of orders.
LEMMA LastRemoved ==
    ASSUME NEW a, NEW F, F \subseteq Nat, IsFiniteSet(F), NEW s \in SUBSET F, s # {},
           \A k \in F : a.orders[k].request.submitted \in Nat
    PROVE  /\ LastSubmitted(a, s) \in s /\ IsFiniteSet(s)
           /\ s \ {LastSubmitted(a, s)} \in SUBSET F
           /\ \A n \in Nat : Cardinality(s) <= n + 1 => Cardinality(s \ {LastSubmitted(a, s)}) <= n
<1>1. IsFiniteSet(s)  BY FS_Subset
<1>2. LastSubmitted(a, s) \in s  BY <1>1, LastIsOne
<1>3. Cardinality(s \ {LastSubmitted(a, s)}) = Cardinality(s) - 1 /\ Cardinality(s) \in Nat
  BY <1>1, <1>2, FS_RemoveElement, FS_CardinalityType
<1> QED  BY ONLY <1>1, <1>2, <1>3

\* This defines a function,
LEMMA TurnsExist ==
    ASSUME NEW a, NEW b, NEW start, NEW F, F \subseteq Nat, IsFiniteSet(F),
           \A k \in F : a.orders[k].request.submitted \in Nat
    PROVE  \E g : Turns(a, b, F, start, g)
<1> DEFINE D(n) == {s \in SUBSET F : Cardinality(s) <= n}
           E(g, s) == IF s = {} THEN start
                      ELSE FillOrder(b, g[s \ {LastSubmitted(a, s)}], LastSubmitted(a, s))
           T == {n \in Nat : \E g : \A s \in D(n) : g[s] = E(g, s)}
<1>1. 0 \in T
  <2> DEFINE g == [s \in D(0) |-> start]
  <2>1. \A s \in D(0) : s = {}
    <3> TAKE s \in D(0)
    <3>1. IsFiniteSet(s)  BY FS_Subset
    <3> QED  BY ONLY <3>1, FS_EmptySet, FS_CardinalityType
  <2>2. \A s \in D(0) : g[s] = E(g, s)  BY <2>1
  <2> QED  BY <2>2
<1>2. ASSUME NEW n \in Nat, n \in T PROVE n + 1 \in T
  <2>1. PICK g : \A s \in D(n) : g[s] = E(g, s)  BY <1>2
  <2> DEFINE h == [s \in D(n + 1) |-> E(g, s)]
  <2>2. ASSUME NEW s \in D(n + 1), s # {} PROVE s \ {LastSubmitted(a, s)} \in D(n)
    BY <2>2, LastRemoved
  <2>3. \A s \in D(n) : s \in D(n + 1)
    <3> TAKE s \in D(n)
    <3>1. IsFiniteSet(s)  BY FS_Subset
    <3> QED  BY ONLY <3>1, FS_CardinalityType
  <2>4. ASSUME NEW s \in D(n + 1) PROVE h[s] = E(h, s)
    <3>1. CASE s = {}  BY <3>1
    <3>2. CASE s # {}
      <4> DEFINE r == s \ {LastSubmitted(a, s)}
      <4>1. r \in D(n) /\ r \in D(n + 1)  BY <2>2, <2>3, <3>2
      <4>2. g[r] = E(g, r)  BY <4>1, <2>1
      <4>3. h[r] = E(g, r)  BY <4>1
      <4>4. h[r] = g[r]  BY <4>2, <4>3
      <4>5. h[s] = FillOrder(b, g[r], LastSubmitted(a, s))  BY <3>2
      <4>6. E(h, s) = FillOrder(b, h[r], LastSubmitted(a, s))  BY <3>2
      <4> QED  BY <4>4, <4>5, <4>6
    <3> QED  BY <3>1, <3>2
  <2> HIDE DEF h, E
  <2> QED  BY ONLY <2>4
<1> HIDE DEF T
<1>3. Cardinality(F) \in Nat  BY FS_CardinalityType
<1>4. Cardinality(F) \in T  BY <1>1, <1>2, <1>3, Induction
<1>5. PICK g : \A s \in D(Cardinality(F)) : g[s] = E(g, s)  BY <1>4 DEF T
<1>6. \A s \in SUBSET F : s \in D(Cardinality(F))  BY FS_Subset
<1> DEFINE h == [s \in SUBSET F |-> g[s]]
<1>7. h = [s \in SUBSET F |-> E(h, s)]
  <2>1. ASSUME NEW s \in SUBSET F PROVE g[s] = E(h, s)
    <3>1. g[s] = E(g, s)  BY <1>5, <1>6
    <3>2. CASE s = {}  BY <3>1, <3>2
    <3>3. CASE s # {}
      <4>1. s \ {LastSubmitted(a, s)} \in SUBSET F  OBVIOUS
      <4>2. h[s \ {LastSubmitted(a, s)}] = g[s \ {LastSubmitted(a, s)}]  BY <4>1
      <4> QED  BY <3>1, <3>3, <4>2
    <3> QED  BY <3>2, <3>3
  <2> HIDE DEF E
  <2> QED  BY <2>1
<1> QED  BY <1>7 DEF Turns

\* and process_bar computes its value for the fillable orders.
LEMMA MatchedIs ==
    ASSUME NEW a, NEW b, ~(~b.complete \/ Capacity(b) <= 0),
           Fillable(a, b) \subseteq Nat, IsFiniteSet(Fillable(a, b)),
           \A k \in Fillable(a, b) : a.orders[k].request.submitted \in Nat
    PROVE  \E g : /\ Turns(a, b, Fillable(a, b), [acct |-> a, capacity |-> Capacity(b)], g)
                  /\ Matched(a, b) = g[Fillable(a, b)].acct
<1> DEFINE F == Fillable(a, b)
           start == [acct |-> a, capacity |-> Capacity(b)]
           g == CHOOSE g : Turns(a, b, F, start, g)
<1> HIDE DEF F, start
<1>1. \E h : Turns(a, b, F, start, h)  BY TurnsExist DEF F
<1>2. Turns(a, b, F, start, g)  BY <1>1
<1>3. Matched(a, b) = g[F].acct
  BY DEF Matched, MapThenFoldSet, Turns, F, start
<1> QED  BY <1>2, <1>3 DEF F, start

\* The fillable orders.
LEMMA FillableTyped ==
    ASSUME NEW R, NEW B, NEW a, AccountOK(R, B, a), NEW b
    PROVE  /\ Fillable(a, b) \subseteq Nat /\ IsFiniteSet(Fillable(a, b))
           /\ \A k \in Fillable(a, b) : MayFill(a, b, k) /\ a.orders[k].request.submitted \in Nat
<1>1. a \in Account(R, B) /\ \A k \in DOMAIN a.orders : OrderOK(a.orders[k])  BY DEF AccountOK
<1>2. a.orders \in Seq(Order(R))  BY <1>1, Fields
<1>3. DOMAIN a.orders = 1..Len(a.orders) /\ Len(a.orders) \in Nat  BY <1>2, SeqDomain
<1>4. IsFiniteSet(1..Len(a.orders))  BY <1>2, <1>3, FiniteDomain
<1>5. Fillable(a, b) \subseteq 1..Len(a.orders)  BY <1>3 DEF Fillable
<1>6. IsFiniteSet(Fillable(a, b))  BY <1>4, <1>5, FS_Subset
<1>7. Fillable(a, b) \subseteq Nat  BY ONLY <1>3, <1>5
<1>8. \A k \in Fillable(a, b) : MayFill(a, b, k)  BY DEF Fillable, MayFill
<1>9. ASSUME NEW k \in Fillable(a, b) PROVE a.orders[k].request.submitted \in Nat
  <2>1. OrderOK(a.orders[k])  BY <1>1, <1>8 DEF MayFill
  <2>2. ValidRequest(a.orders[k].request)  BY <2>1 DEF OrderOK
  <2> QED  BY <2>2 DEF ValidRequest
<1> QED  BY <1>6, <1>7, <1>8, <1>9

\* Before the first turn.
LEMMA NothingFilled ==
    ASSUME NEW B, NEW fills \in Seq(Fill(B))
    PROVE  TailQuantity(fills, Len(fills)) = 0
<1>1. Len(fills) - Len(fills) = 0  BY SMT
<1>2. 1..(Len(fills) - Len(fills)) = {}  BY ONLY <1>1
<1> DEFINE g == [j \in 1..(Len(fills) - Len(fills)) |-> fills[Len(fills) + j].quantity]
<1>3. DOMAIN g = {}  BY <1>2
<1> HIDE DEF g
<1>4. SumFunction(g) = 0  BY <1>3, SumOverNothing
<1> QED  BY <1>4 DEF TailQuantity, g

\* LoopOK holds after all turns, by induction on how many there were.
LEMMA TurnsKeep ==
    ASSUME NEW R, NEW a, AccountOK(R, Bars, a), NEW b \in Bars, NEW F, NEW start, NEW g,
           F \subseteq Nat, IsFiniteSet(F),
           \A k \in F : MayFill(a, b, k) /\ a.orders[k].request.submitted \in Nat,
           Turns(a, b, F, start, g), LoopOK(R, a, b, start, {})
    PROVE  LoopOK(R, a, b, g[F], F)
<1> DEFINE T == {n \in Nat : \A s \in SUBSET F : Cardinality(s) <= n => LoopOK(R, a, b, g[s], s)}
<1>0. \A s \in SUBSET F :
        g[s] = IF s = {} THEN start
               ELSE FillOrder(b, g[s \ {LastSubmitted(a, s)}], LastSubmitted(a, s))
  BY DEF Turns
<1>1. 0 \in T
  <2> SUFFICES ASSUME NEW s \in SUBSET F, Cardinality(s) <= 0 PROVE LoopOK(R, a, b, g[s], s)
    OBVIOUS
  <2>1. IsFiniteSet(s)  BY FS_Subset
  <2>2. s = {}  BY <2>1, FS_EmptySet, FS_CardinalityType, SMT
  <2> QED  BY <2>2, <1>0
<1>2. ASSUME NEW n \in Nat, n \in T PROVE n + 1 \in T
  <2> SUFFICES ASSUME NEW s \in SUBSET F, Cardinality(s) <= n + 1
               PROVE  LoopOK(R, a, b, g[s], s)
    BY SMT
  <2>1. CASE s = {}  BY <2>1, <1>0
  <2>2. CASE s # {}
    <3> DEFINE k == LastSubmitted(a, s)
               r == s \ {k}
    <3>1. k \in s /\ r \in SUBSET F /\ Cardinality(r) <= n  BY <2>2, LastRemoved
    <3>2. LoopOK(R, a, b, g[r], r)  BY <1>2, <3>1
    <3>3. MayFill(a, b, k) /\ k \notin r /\ s = r \cup {k}  BY <3>1
    <3>4. g[s] = FillOrder(b, g[r], k)  BY <1>0, <2>2
    <3> HIDE DEF k, r
    <3>5. LoopOK(R, a, b, FillOrder(b, g[r], k), r \cup {k})  BY <3>2, <3>3, FillOrderTurn
    <3> QED  BY <3>3, <3>4, <3>5
  <2> QED  BY <2>1, <2>2
<1> HIDE DEF T
<1>3. Cardinality(F) \in Nat  BY FS_CardinalityType
<1>4. Cardinality(F) \in T  BY <1>1, <1>2, <1>3, Induction
<1> QED  BY ONLY <1>3, <1>4 DEF T

\* c has the fills of a and those of one bar, within its capacity.
Filled(a, b, c) ==
    /\ Len(a.fills) <= Len(c.fills)
    /\ \A j \in (Len(a.fills) + 1)..Len(c.fills) : c.fills[j].bar = b
    /\ TailQuantity(c.fills, Len(a.fills)) <= Capacity(b)

\* process_bar keeps the invariant; it fills within the capacity; and it does not raise if
\* prices are worth a quantum of money.
LEMMA MatchedKeeps ==
    ASSUME NEW R, NEW a, AccountOK(R, Bars, a), NEW b \in Bars
    PROVE  /\ Standing(R, Bars, Matched(a, b))
           /\ NoDust => Matched(a, b).raised = a.raised
           /\ Filled(a, b, Matched(a, b))
<1>1. a \in Account(R, Bars)  BY DEF AccountOK
<1>2. a.fills \in Seq(Fill(Bars))  BY <1>1, Fields
<1>3. TailQuantity(a.fills, Len(a.fills)) = 0 /\ Len(a.fills) \in Nat  BY ONLY <1>2, NothingFilled
<1>4. Capacity(b) \in Nat  BY CapacityNat
<1>5. CASE ~b.complete \/ Capacity(b) <= 0
  <2>1. Matched(a, b) = a  BY <1>5 DEF Matched
  <2>2. Filled(a, b, a)  BY ONLY <1>3, <1>4 DEF Filled
  <2> QED  BY <2>1, <2>2, OKStands
<1>6. CASE ~(~b.complete \/ Capacity(b) <= 0)
  <2> DEFINE F == Fillable(a, b)
             start == [acct |-> a, capacity |-> Capacity(b)]
  <2>1. F \subseteq Nat /\ IsFiniteSet(F)  BY FillableTyped
  <2>2. \A k \in F : MayFill(a, b, k) /\ a.orders[k].request.submitted \in Nat  BY FillableTyped
  <2>3. PICK g : Turns(a, b, F, start, g) /\ Matched(a, b) = g[F].acct
    BY <1>6, <2>1, <2>2, MatchedIs
  <2>4. LoopOK(R, a, b, start, {})
    <3>1. start \in [acct : Account(R, Bars), capacity : Nat] /\ start.acct = a
          /\ start.capacity = Capacity(b)
      BY <1>1, <1>4
    <3> HIDE DEF start
    <3>2. Shares(a, b, start)  BY ONLY <1>3, <1>4, <3>1 DEF Shares
    <3>3. Standing(R, Bars, a)  BY OKStands
    <3> QED  BY <3>1, <3>2, <3>3 DEF LoopOK
  <2> HIDE DEF F, start
  <2>5. LoopOK(R, a, b, g[F], F)  BY <2>1, <2>2, <2>3, <2>4, TurnsKeep
  <2>6. /\ Standing(R, Bars, g[F].acct) /\ g[F].capacity \in Nat /\ Shares(a, b, g[F])
        /\ NoDust => g[F].acct.raised = a.raised
        /\ g[F].acct \in Account(R, Bars)
    BY <2>5 DEF LoopOK
  <2>7. g[F].acct.fills \in Seq(Fill(Bars))  BY <2>6, Fields
  <2>8. TailQuantity(g[F].acct.fills, Len(a.fills)) \in Nat
    <3>1. Len(a.fills) \in 0..Len(g[F].acct.fills)  BY ONLY <1>3, <2>6, <2>7 DEF Shares
    <3> QED  BY <2>7, <3>1, TailInt
  <2>9. Filled(a, b, g[F].acct)  BY ONLY <1>4, <2>6, <2>8 DEF Filled, Shares
  <2> QED  BY <2>3, <2>6, <2>9
<1> QED  BY <1>5, <1>6
--------------------------------------------------------------------------------
(* The invariant is inductive *)

HIDE DEF FS_CardinalityType, FS_EmptySet, FS_RemoveElement, FS_Subset, Induction,
         SmallerSubset, SeqDomain, FiniteDomain, TailInt, CapacityNat, FillOrderTurn,
         LastExists, LastIsOne, LastRemoved, TurnsExist, MatchedIs, FillableTyped,
         NothingFilled, TurnsKeep

\* A sum of zeros.
LEMMA SumZeros ==
    ASSUME NEW f, IsFiniteSet(DOMAIN f), \A x \in DOMAIN f : f[x] = 0
    PROVE  SumFunction(f) = 0
<1>1. 0 \in {0} /\ (\A m, n \in {0} : m + n \in {0}) /\ \A x \in DOMAIN f : f[x] \in {0}
  BY SMT
<1>2. SumFunctionOnSet(f, DOMAIN f) \in {0}  BY <1>1, SumClosed
<1> QED  BY <1>2 DEF SumFunction

\* The invariant holds of a new account.
LEMMA InitOK == Init => IInv
<1> SUFFICES ASSUME Init PROVE IInv  OBVIOUS
<1>1. acct = [cash |-> InitialCash, lots |-> [i \in Instruments |-> <<>>], seeded |-> 0,
              orders |-> <<>>, fills |-> <<>>, ledger |-> <<>>, raised |-> FALSE]
  BY DEF Init
<1>2. /\ acct.cash = InitialCash /\ acct.lots = [i \in Instruments |-> <<>>]
      /\ acct.seeded = 0 /\ acct.orders = <<>> /\ acct.fills = <<>> /\ acct.ledger = <<>>
      /\ acct.raised = FALSE
  BY <1>1
<1>3. InitialCash \in Nat /\ IsFiniteSet(Instruments)  BY Constants
<1>4. /\ <<>> \in Seq(Lot) /\ <<>> \in Seq(Order(Requests)) /\ <<>> \in Seq(Fill(Bars))
      /\ <<>> \in Seq(Seq(Posting))
  BY SMT
<1>5. acct \in Account(Requests, Bars)
  <2>1. [i \in Instruments |-> <<>>] \in [Instruments -> Seq(Lot)]  BY <1>4
  <2> QED  BY ONLY <1>1, <1>3, <1>4, <2>1 DEF Account
<1>6. DOMAIN acct.orders = {} /\ DOMAIN acct.fills = {} /\ DOMAIN acct.ledger = {}  BY ONLY <1>2
<1>7. Range(acct.fills) = {}  BY <1>6 DEF Range
<1>8. \A account : Booked(acct, account) = 0
  <2> TAKE account
  <2> DEFINE g == [j \in DOMAIN acct.ledger |->
                     Side(acct.ledger[j], {account}, "DEBIT") - Side(acct.ledger[j], {account}, "CREDIT")]
  <2>1. DOMAIN g = {}  BY <1>6
  <2> HIDE DEF g
  <2>2. SumFunction(g) = 0  BY <2>1, SumOverNothing
  <2> QED  BY <2>2 DEF Booked, SumOver, g
<1>9. \A i \in Instruments : Position(acct, i) = 0 /\ CostBasis(acct, i) = 0
  BY <1>2, LotSums
<1>10. PositionExposure(acct) = 0
  <2> DEFINE g == [i \in Instruments |-> CostBasis(acct, i)]
  <2>1. IsFiniteSet(DOMAIN g) /\ \A i \in DOMAIN g : g[i] = 0  BY <1>3, <1>9
  <2> HIDE DEF g
  <2>2. SumFunction(g) = 0  BY <2>1, SumZeros
  <2> QED  BY <2>2 DEF PositionExposure, SumOverAll, g
<1>11. \A i \in Instruments : ReservedQuantity(acct, 0, i) = 0
  <2> TAKE i \in Instruments
  <2> DEFINE g == [j \in DOMAIN acct.orders |->
                     IF j # 0 /\ IsOpen(acct.orders[j])
                        /\ (acct.orders[j].request.instrument = i /\ acct.orders[j].request.side = "SELL")
                     THEN acct.orders[j].quantity ELSE 0]
  <2>1. DOMAIN g = {}  BY <1>6
  <2> HIDE DEF g
  <2>2. SumFunction(g) = 0  BY <2>1, SumOverNothing
  <2> QED  BY <2>2 DEF ReservedQuantity, Reserved, g
<1>12. Balanced(acct)  BY ONLY <1>2, <1>3, <1>8, <1>10 DEF Balanced
<1>13. Covered(acct)
  <2>1. MaxInstrumentExposure \in Nat /\ MaxStrategyNotional \in Nat /\ MaxGrossExposure \in Nat
    BY Constants
  <2>2. 0 <= Greater(MaxInstrumentExposure, 0)
        /\ 0 <= Greater(Lesser(MaxStrategyNotional, MaxGrossExposure), 0)
    BY ONLY <2>1 DEF Greater, Lesser
  <2> QED  BY ONLY <1>2, <1>3, <1>9, <1>10, <1>11, <2>2 DEF Covered
<1>14. AccountOK(Requests, Bars, acct)  BY <1>5, <1>6, <1>7, <1>12, <1>13 DEF AccountOK
<1> QED  BY <1>14, OKStands DEF IInv

\* What every step does.
Step ==
    /\ IInv'
    /\ NoDust => acct'.raised = acct.raised
    /\ acct'.fills = acct.fills \/ \E b \in Bars : Filled(acct, b, acct')

\* Every operation of BacktestExecutionModel keeps the invariant.
LEMMA StepOK ==
    ASSUME IInv, [Next]_vars
    PROVE  Step
<1>0. /\ acct \in Account(Requests, Bars)
      /\ ~acct.raised => AccountOK(Requests, Bars, acct)
  BY DEF IInv, Standing, Sound
<1>1. CASE UNCHANGED vars
  <2>1. acct' = acct  BY <1>1 DEF vars
  <2> QED  BY <2>1 DEF Step, IInv
<1>2. ASSUME NEW s \in Seeds, SeedLongPosition(s.instrument, s.quantity, s.unitCost) PROVE Step
  <2>1. IInv' /\ acct'.fills = acct.fills  BY <1>2, SeedsKeep
  <2>2. acct'.raised = acct.raised
    <3> DEFINE q == QuantizeQuantity(s.quantity, s.instrument \in Fractional)
               basis == RoundHalfEven(q * s.unitCost, Share)
    <3>1. acct' = [acct EXCEPT !.lots[s.instrument] = Append(@, [quantity |-> q, basis |-> basis]),
                               !.seeded = @ + basis]
      BY <1>2 DEF SeedLongPosition
    <3> HIDE DEF q, basis
    <3> QED  BY <1>0, <3>1 DEF Account
  <2> QED  BY <2>1, <2>2 DEF Step
<1>3. ASSUME NEW r \in Requests, Submit(r) PROVE Step
  <2>1. acct' = Submitted(acct, r)  BY <1>3 DEF Submit
  <2>2. ValidRequest(r)  BY ExecutionAssumption
  <2>3. /\ AccountOK(Requests, Bars, Submitted(acct, r))
        /\ Submitted(acct, r).fills = acct.fills /\ Submitted(acct, r).raised = acct.raised
    BY <1>0, <1>3, <2>2, SubmittedKeeps DEF Submit
  <2> QED  BY <2>1, <2>3, OKStands DEF Step, IInv
<1>4. ASSUME NEW k \in DOMAIN acct.orders, Cancel(k) PROVE Step
  <2> DEFINE c == [acct EXCEPT !.orders[k] = Close(@, "CANCELLED", "EXPLICITLY_CANCELLED")]
  <2>1. acct' = c  BY <1>4 DEF Cancel
  <2>2. AccountOK(Requests, Bars, c)  BY <1>0, <1>4, CancelKeeps DEF Cancel
  <2>3. c.fills = acct.fills /\ c.raised = acct.raised  BY <1>0 DEF Account
  <2> HIDE DEF c
  <2> QED  BY <2>1, <2>2, <2>3, OKStands DEF Step, IInv
<1>5. ASSUME NEW t \in Instants, AdvanceTime(t) PROVE Step
  <2>1. acct' = Expire(acct, t)  BY <1>5 DEF AdvanceTime
  <2>2. /\ AccountOK(Requests, Bars, Expire(acct, t))
        /\ Expire(acct, t).fills = acct.fills /\ Expire(acct, t).raised = acct.raised
    BY <1>0, <1>5, ExpireKeeps DEF AdvanceTime
  <2> QED  BY <2>1, <2>2, OKStands DEF Step, IInv
<1>6. ASSUME NEW b \in Bars, ProcessBar(b) PROVE Step
  <2> DEFINE a == AdvanceToBar(acct, now, b)
  <2>1. acct' = Matched(a, b)  BY <1>6 DEF ProcessBar
  <2>2. AccountOK(Requests, Bars, a) /\ a.fills = acct.fills /\ a.raised = acct.raised
    BY <1>0, <1>6, ExpireKeeps DEF ProcessBar, AdvanceToBar
  <2> HIDE DEF a
  <2>3. /\ Standing(Requests, Bars, Matched(a, b))
        /\ NoDust => Matched(a, b).raised = a.raised
        /\ Filled(a, b, Matched(a, b))
    BY <2>2, MatchedKeeps
  <2>4. Filled(acct, b, acct')  BY <2>1, <2>2, <2>3 DEF Filled
  <2> QED  BY <2>1, <2>2, <2>3, <2>4 DEF Step, IInv
<1> QED  BY <1>1, <1>2, <1>3, <1>4, <1>5, <1>6 DEF Next
--------------------------------------------------------------------------------
(* Theorems *)

HIDE DEF SumClosed, Constants, SumOverNothing, LotSums, CancelKeeps, ExpireKeeps,
         SubmittedKeeps, SeedsKeep, MatchedKeeps, SumZeros

\* The inductive invariant holds of every sequence of seed_long_position, submit, cancel,
\* advance_time and process_bar, for all policies, requests and bars.
THEOREM AccountInvariant == Spec => []IInv
<1>1. Init => IInv  BY InitOK
<1>2. IInv /\ [Next]_vars => IInv'  BY StepOK DEF Step
<1> QED  BY <1>1, <1>2, PTL DEF Spec

\* What was promised is there: until a fill raises, open sells never reserve more than is
\* held; and always the cost of what is held keeps to the risk limits, and the cash falls
\* below zero by no more than the rounding of the unit fee of one fill (_reserve_or_reject,
\* _fillable_quantity).
THEOREM CommitmentsAreCovered == Spec => []CommitmentsCovered
<1>1. IInv => CommitmentsCovered
  BY DEF IInv, Standing, Sound, Limited, AccountOK, Covered, CommitmentsCovered
<1> QED  BY <1>1, AccountInvariant, PTL

\* The fills of an order add up to what it reports, and a closed order reserves nothing
\* (_advance_remainder, _release_reservation).
THEOREM OrdersDoAddUp == Spec => []OrdersAddUp
<1>1. IInv => OrdersAddUp
  <2> SUFFICES ASSUME IInv, NEW k \in DOMAIN acct.orders
               PROVE  LET o == acct.orders[k]
                      IN  /\ o.filled = FilledBy(acct, k)
                          /\ IF o.request.notional > 0 THEN o.left = o.request.notional - SpentBy(acct, k)
                             ELSE o.left + o.filled = o.request.quantity
                          /\ ~IsOpen(o) => {o.cash, o.notional, o.quantity} = {0}
                          /\ o.status = "ACCEPTED" => o.filled = 0
                          /\ o.status = "FILLED" => \E f \in Range(acct.fills) : f.order = k
    BY DEF OrdersAddUp
  <2>1. OrderOK(acct.orders[k]) /\ AddsUp(acct, k)  BY DEF IInv, Standing, Sound
  <2>2. ~IsOpen(acct.orders[k]) =>
          {acct.orders[k].cash, acct.orders[k].notional, acct.orders[k].quantity} = {0}
    BY <2>1 DEF OrderOK
  <2>3. acct.orders[k].status = "ACCEPTED" => acct.orders[k].filled = 0  BY <2>1 DEF OrderOK
  <2> QED  BY <2>1, <2>2, <2>3 DEF AddsUp
<1> QED  BY <1>1, AccountInvariant, PTL

\* No fill passes the limit of its order, the range of its bar or the time the order became
\* eligible (_base_price, _execution_price).
THEOREM FillsDoRespectOrders == Spec => []FillsRespectOrders
<1>1. IInv => FillsRespectOrders
  <2> SUFFICES ASSUME IInv, NEW f \in Range(acct.fills)
               PROVE  LET r == acct.orders[f.order].request
                      IN  /\ f.bar.starts >= r.eligible
                          /\ f.bar.low <= f.base /\ f.base <= f.bar.high
                          /\ IF r.side = "BUY" THEN f.price >= f.base /\ (r.limit > 0 => f.price <= r.limit)
                             ELSE f.price <= f.base /\ (r.limit > 0 => f.price >= r.limit)
    BY DEF FillsRespectOrders
  <2>1. Respects(acct, f)  BY DEF IInv, Standing, Sound
  <2> QED  BY <2>1 DEF Respects
<1> QED  BY <1>1, AccountInvariant, PTL

\* The ledger explains the cash and the cost of the lots to the quantum, however lots were
\* split and rounded, and also where _record_fill raised after it had changed them: what it
\* had changed is worth nothing (_record_fill, _consume_fifo).
THEOREM LedgerExplains == Spec => []LedgerExplainsAccount
<1>1. IInv => LedgerExplainsAccount
  BY DEF IInv, Standing, Sound, Balanced, LedgerExplainsAccount
<1> QED  BY <1>1, AccountInvariant, PTL

\* Only dust raises: if the prices of the bars are worth a quantum of money, every fill that
\* process_bar decides on is posted, for the position holds what a sell takes and every
\* LedgerTransaction balances (_record_fill, _consume_fifo, LedgerTransaction).
THEOREM OnlyDustRaises == Spec => [](acct.raised => ~NoDust)
<1> DEFINE J == IInv /\ (acct.raised => ~NoDust)
<1>1. Init => J
  <2>1. Init => ~acct.raised  BY SMT DEF Init
  <2> QED  BY <2>1, InitOK
<1>2. J /\ [Next]_vars => J'
  <2> SUFFICES ASSUME J, [Next]_vars PROVE J'  OBVIOUS
  <2>1. Step  BY StepOK
  <2>2. NoDust' = NoDust  BY DEF NoDust, ApplyRate
  <2> QED  BY <2>1, <2>2 DEF Step
<1>3. J => (acct.raised => ~NoDust)  OBVIOUS
<1> HIDE DEF J
<1> QED  BY <1>1, <1>2, <1>3, PTL DEF Spec

\* The fills of a step, as the loop counts them.
LEMMA NewFillsQuantity ==
    ASSUME NEW B, NEW s \in Seq(Fill(B)), NEW n \in 0..Len(s)
    PROVE  LET t == SubSeq(s, n + 1, Len(s))
           IN  /\ SumOver(t, LAMBDA f : f.quantity) = TailQuantity(s, n)
               /\ t # <<>> => n + 1 \in 1..Len(s) /\ t[1] = s[n + 1]
<1> DEFINE t == SubSeq(s, n + 1, Len(s))
<1>0. Len(s) \in Nat /\ n \in Nat /\ n <= Len(s)  BY SMT
<1>1. t = [j \in 1..((1 + Len(s)) - (n + 1)) |-> s[(j + (n + 1)) - 1]]  BY ONLY <1>0
<1>2. (1 + Len(s)) - (n + 1) = Len(s) - n  BY ONLY <1>0
<1>3. DOMAIN t = 1..(Len(s) - n)  BY <1>1, <1>2
<1>4. \A j \in 1..(Len(s) - n) : t[j] = s[n + j]
  <2> TAKE j \in 1..(Len(s) - n)
  <2>1. (j + (n + 1)) - 1 = n + j  BY ONLY <1>0
  <2> QED  BY <1>1, <1>2, <2>1
<1> HIDE DEF t
<1>5. [j \in DOMAIN t |-> t[j].quantity] = [j \in 1..(Len(s) - n) |-> s[n + j].quantity]
  BY <1>3, <1>4
<1>6. SumOver(t, LAMBDA f : f.quantity) = TailQuantity(s, n)
  BY <1>5 DEF SumOver, TailQuantity
<1>7. ASSUME t # <<>> PROVE n + 1 \in 1..Len(s) /\ t[1] = s[n + 1]
  <2>1. CASE n = Len(s)
    <3>1. t = <<>>
      <4>1. t \in Seq(Fill(B)) /\ Len(t) = 0  BY ONLY <1>0, <2>1 DEF t
      <4> QED  BY ONLY <4>1
    <3> QED  BY <1>7, <3>1
  <2>2. CASE n # Len(s)
    <3>1. 1 \in 1..(Len(s) - n) /\ n + 1 \in 1..Len(s)  BY ONLY <1>0, <2>2
    <3> QED  BY <1>4, <3>1
  <2> QED  BY <2>1, <2>2
<1> QED  BY <1>6, <1>7 DEF t

\* VOLUME_PARTICIPATION_RULE: what one process_bar fills, over all orders, stays within the
\* capacity of its bar.
THEOREM CapacityIsShared == Spec => CapacityShared
<1>1. IInv /\ [Next]_vars =>
        (NewFills # <<>> => SumOver(NewFills, LAMBDA f : f.quantity) <= Capacity(NewFills[1].bar))
  <2> SUFFICES ASSUME IInv, [Next]_vars, NewFills # <<>>
               PROVE  SumOver(NewFills, LAMBDA f : f.quantity) <= Capacity(NewFills[1].bar)
    OBVIOUS
  <2> DEFINE n == Len(acct.fills)
             s == acct'.fills
  <2>1. Step  BY StepOK
  <2>2. acct \in Account(Requests, Bars) /\ acct' \in Account(Requests, Bars)
    BY <2>1 DEF Step, IInv, Standing, Sound
  <2>3. acct.fills \in Seq(Fill(Bars)) /\ s \in Seq(Fill(Bars))  BY <2>2, Fields
  <2>4. NewFills = SubSeq(s, n + 1, Len(s))  BY DEF NewFills
  <2>5. n \in 0..Len(s)
    <3>1. CASE s = acct.fills  BY ONLY <2>3, <3>1
    <3>2. CASE \E b \in Bars : Filled(acct, b, acct')  BY ONLY <2>3, <3>2 DEF Filled
    <3> QED  BY <2>1, <3>1, <3>2 DEF Step
  <2> HIDE DEF n, s
  <2>6. /\ SumOver(NewFills, LAMBDA f : f.quantity) = TailQuantity(s, n)
        /\ n + 1 \in 1..Len(s) /\ NewFills[1] = s[n + 1]
    BY <2>3, <2>4, <2>5, NewFillsQuantity
  <2>7. s # acct.fills  BY ONLY <2>3, <2>6 DEF n
  <2>8. PICK b \in Bars : Filled(acct, b, acct')  BY <2>1, <2>7 DEF Step, s
  <2>9. n + 1 \in (n + 1)..Len(s)  BY ONLY <2>3, <2>5, <2>6 DEF n
  <2>10. s[n + 1].bar = b /\ TailQuantity(s, n) <= Capacity(b)  BY <2>8, <2>9 DEF Filled, n, s
  <2> QED  BY <2>6, <2>10
<1>2. IInv /\ [Next]_vars =>
        [NewFills # <<>> =>
           SumOver(NewFills, LAMBDA f : f.quantity) <= Capacity(NewFills[1].bar)]_vars
  BY <1>1
<1> QED  BY <1>2, AccountInvariant, PTL DEF Spec, CapacityShared
================================================================================
