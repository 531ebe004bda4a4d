--------------------------- MODULE Trading_proofs ----------------------------
(***************************************************************************)
(* The lemmas the proofs about accounts and orders share: what the grid's  *)
(* arithmetic returns, and what the risk manager computes from a typed     *)
(* account, for any limits.                                                *)
(*                                                                         *)
(* The sum of a dict's values is a recursive function, whose existence and *)
(* type are proved here by least counterexample: the induction theorems of *)
(* the library take an operator, the well-foundedness of < on Nat a set.   *)
(***************************************************************************)
EXTENDS RiskManager, FiniteSetTheorems, WellFoundedInduction, NaturalsInduction, TLAPS

\* A non-empty set of naturals has a least element.
LEMMA LeastNatural ==
  ASSUME NEW T, T \subseteq Nat, T # {}
  PROVE  \E x \in T : \A y \in T : x <= y
<1>1. IsWellFoundedOn(OpToRel(<, Nat), Nat)
  BY NatLessThanWellFounded
<1>2. PICK x \in T : \A y \in T : ~ (<<y, x>> \in OpToRel(<, Nat))
  BY <1>1, WFMin, Zenon
<1>3. OpToRel(<, Nat) = {ss \in Nat \X Nat : ss[1] < ss[2]}
  BY Zenon DEF OpToRel
<1>4. \A y \in T : y < x => <<y, x>> \in OpToRel(<, Nat)
  BY <1>3
<1>5. \A y \in T : ~ (y < x)
  BY <1>2, <1>4, Zenon
<1>6. QED
  BY <1>5

\* g is the accumulator of the sum of f's first n terms.
IsPartial(g, f, n) == g = [i \in 0 .. n |-> IF i = 0 THEN 0 ELSE g[i - 1] + f[i]]

\* Such an accumulator exists, for any number of integer terms.
LEMMA PartialExists ==
  ASSUME NEW n \in Nat, NEW f \in [1 .. n -> Int]
  PROVE  \E g : IsPartial(g, f, n)
<1> DEFINE Bad == {m \in 0 .. n : ~ \E g \in [0 .. m -> Int] : IsPartial(g, f, m)}
<1>1. SUFFICES Bad = {}
  OBVIOUS
<1>2. SUFFICES ASSUME Bad # {} PROVE FALSE
  OBVIOUS
<1>3. Bad \subseteq Nat
  OBVIOUS
<1>4. PICK m \in Bad : \A k \in Bad : m <= k
  BY <1>2, <1>3, LeastNatural, Zenon
<1>5. CASE m = 0
  <2> DEFINE g == [i \in 0 .. 0 |-> 0]
  <2>1. g \in [0 .. m -> Int] /\ IsPartial(g, f, m)
    BY <1>5 DEF IsPartial
  <2>2. QED
    BY <2>1, <1>4
<1>6. CASE m # 0
  <2>1. m \in 1 .. n /\ m - 1 \in 0 .. n /\ m - 1 \notin Bad
    BY <1>4, <1>6
  <2>2. PICK g \in [0 .. m - 1 -> Int] : IsPartial(g, f, m - 1)
    BY <2>1
  <2> DEFINE h == [i \in 0 .. m |-> IF i = m THEN g[m - 1] + f[m] ELSE g[i]]
  <2>3. h \in [0 .. m -> Int]
    BY <2>1, <2>2
  <2>4. ASSUME NEW i \in 0 .. m
        PROVE  h[i] = IF i = 0 THEN 0 ELSE h[i - 1] + f[i]
    <3>1. \A j \in 0 .. m - 1 : g[j] = IF j = 0 THEN 0 ELSE g[j - 1] + f[j]
      BY <2>2, Zenon DEF IsPartial
    <3>2. CASE i = m
      <4>1. h[i] = g[m - 1] + f[m] /\ h[i - 1] = g[m - 1]
        BY <3>2, <2>1
      <4>2. QED
        BY <4>1, <3>2, <1>6
    <3>3. CASE i # m
      <4>1. i \in 0 .. m - 1 /\ h[i] = g[i] /\ (i # 0 => h[i - 1] = g[i - 1])
        BY <3>3, <2>1
      <4>2. QED
        BY <4>1, <3>1
    <3>4. QED
      BY <3>2, <3>3
  <2>5. IsPartial(h, f, m)
    BY <2>3, <2>4 DEF IsPartial
  <2>6. QED
    BY <2>3, <2>5, <1>4
<1>7. QED
  BY <1>5, <1>6

\* A sum of integers is an integer.
LEMMA SumInt ==
  ASSUME NEW n \in Nat, NEW f \in [1 .. n -> Int]
  PROVE  Sum(f, n) \in Int
<1> DEFINE partial ==
      CHOOSE g : g = [i \in 0 .. n |-> IF i = 0 THEN 0 ELSE g[i - 1] + f[i]]
<1>1. \E g : IsPartial(g, f, n)
  BY PartialExists
<1>2. partial = [i \in 0 .. n |-> IF i = 0 THEN 0 ELSE partial[i - 1] + f[i]]
  BY <1>1, Zenon DEF IsPartial
<1>3. Sum(f, n) = partial[n]
  BY DEF Sum, partial
<1> HIDE DEF partial
<1>4. \A i \in 0 .. n : partial[i] = IF i = 0 THEN 0 ELSE partial[i - 1] + f[i]
  BY <1>2, Zenon
<1> DEFINE NotInt == {i \in 0 .. n : partial[i] \notin Int}
<1>5. SUFFICES NotInt = {}
  BY <1>3
<1>6. SUFFICES ASSUME NotInt # {} PROVE FALSE
  OBVIOUS
<1>7. NotInt \subseteq Nat
  OBVIOUS
<1>8. PICK m \in NotInt : \A k \in NotInt : m <= k
  BY <1>6, <1>7, LeastNatural, Zenon
<1>9. m # 0 => m - 1 \in 0 .. n /\ partial[m - 1] \in Int
  BY <1>8
<1>10. QED
  BY <1>8, <1>9, <1>4

-----------------------------------------------------------------------------

LEMMA ProductNat ==
  ASSUME NEW a \in Nat, NEW b \in Nat
  PROVE  a * b \in Nat
OBVIOUS

LEMMA PortionInt ==
  ASSUME NEW a \in Int, NEW r \in Int
  PROVE  Portion(a, r) \in Int
<1>1. a * r \in Int
  OBVIOUS
<1>2. QED
  BY <1>1, ScaleAssumption DEF Portion

LEMMA PortionNat ==
  ASSUME NEW a \in Nat, NEW r \in Nat
  PROVE  Portion(a, r) \in Nat
<1>1. a * r \in Nat
  BY ProductNat
<1>2. QED
  BY <1>1, ScaleAssumption DEF Portion

LEMMA QuotientBounds ==
  ASSUME NEW a \in Int, NEW b \in Nat \ {0}
  PROVE  a \div b \in Int /\ (a \div b) * b <= a
OBVIOUS

\* A portion is at most the amount times the rate, on the grid.
LEMMA PortionBound ==
  ASSUME NEW a \in Int, NEW r \in Int
  PROVE  Portion(a, r) \in Int /\ Portion(a, r) * Scale <= a * r
<1>1. a * r \in Int
  OBVIOUS
<1>2. QED
  BY <1>1, QuotientBounds, ScaleAssumption DEF Portion

LEMMA ProductOrder ==
  ASSUME NEW a \in Int, NEW b \in Int, NEW c \in Nat, a <= b
  PROVE  a * c <= b * c
<1>1. (b - a) * c \in Nat
  BY ProductNat
<1>2. (b - a) * c = b * c - a * c
  OBVIOUS
<1>3. a * c \in Int /\ b * c \in Int
  OBVIOUS
<1>4. QED
  BY <1>1, <1>2, <1>3

\* Whole lots bought with a budget cost no more than it, and are whole lots.
LEMMA LotsWithin ==
  ASSUME NEW budget \in Int, NEW price \in Nat \ {0}
  PROVE  LET n == LotsOf(budget \div (price * LotSize))
         IN  n \in Int /\ n * price <= budget
<1> DEFINE q == budget \div (price * LotSize)
<1>1. price * LotSize \in Nat \ {0}
  BY LotSizeAssumption
<1>2. q \in Int /\ q * (price * LotSize) <= budget
  BY <1>1, QuotientBounds
<1> HIDE DEF q
<1>3. (q * LotSize) * price = q * (price * LotSize)
  BY <1>2, LotSizeAssumption
<1>4. LotsOf(q) \in Int
  BY <1>2, LotSizeAssumption DEF LotsOf
<1>5. LotsOf(q) * price <= budget
  BY <1>2, <1>3 DEF LotsOf
<1>6. QED
  BY <1>4, <1>5 DEF q

\* n is a whole number of lots, of either sign.
InLots(n) == n % LotSize = 0

LEMMA LotsOfInLots ==
  ASSUME NEW k \in Int
  PROVE  LotsOf(k) \in Int /\ InLots(LotsOf(k))
<1> USE LotSizeAssumption
<1> DEFINE q == (k * LotSize) \div LotSize
<1> DEFINE r == (k * LotSize) % LotSize
<1>1. k * LotSize \in Int
  OBVIOUS
<1>2. \A a \in Int, b \in Nat \ {0} :
        a \div b \in Int /\ a % b \in 0 .. b - 1 /\ a = (a \div b) * b + (a % b)
  OBVIOUS
<1>3. q \in Int /\ r \in 0 .. LotSize - 1 /\ k * LotSize = q * LotSize + r
  BY <1>1, <1>2
<1> HIDE DEF q, r
<1>4. (k - q) * LotSize = r
  <2>1. (k - q) * LotSize = k * LotSize - q * LotSize
    BY <1>3
  <2>2. q * LotSize \in Int
    BY <1>3
  <2>3. QED
    BY <1>1, <1>3, <2>1, <2>2
<1>5. CASE k - q >= 1
  <2>1. 1 * LotSize <= (k - q) * LotSize
    BY <1>3, <1>5, ProductOrder
  <2>2. QED
    BY <1>3, <1>4, <2>1
<1>6. CASE k - q <= -1
  <2>1. (k - q) * LotSize <= (-1) * LotSize
    BY <1>3, <1>6, ProductOrder
  <2>2. QED
    BY <1>3, <1>4, <2>1
<1>7. CASE k = q
  BY <1>1, <1>3, <1>7 DEF LotsOf, InLots, r
<1>8. QED
  BY <1>3, <1>5, <1>6, <1>7

LEMMA NoLots == InLots(0)
<1>1. 0 = LotsOf(0)
  BY LotSizeAssumption DEF LotsOf
<1>2. QED
  BY <1>1, LotsOfInLots

LEMMA InLotsFactor ==
  ASSUME NEW n \in Int, InLots(n)
  PROVE  \E k \in Int : n = LotsOf(k)
<1>1. \A a \in Int, b \in Nat \ {0} :
        a \div b \in Int /\ a = (a \div b) * b + (a % b) /\ (a \div b) * b \in Int
  OBVIOUS
<1>2. n \div LotSize \in Int /\ n = (n \div LotSize) * LotSize
  BY <1>1, LotSizeAssumption DEF InLots
<1>3. QED
  BY <1>2 DEF LotsOf

\* Whole lots added or taken away leave whole lots.
LEMMA InLotsSum ==
  ASSUME NEW a \in Int, NEW b \in Int, InLots(a), InLots(b)
  PROVE  InLots(a + b) /\ InLots(a - b) /\ InLots(- a)
<1>1. PICK k \in Int : a = LotsOf(k)
  BY InLotsFactor
<1>2. PICK m \in Int : b = LotsOf(m)
  BY InLotsFactor
<1>3. a + b = LotsOf(k + m) /\ a - b = LotsOf(k - m) /\ - a = LotsOf(- k)
  BY <1>1, <1>2, LotSizeAssumption DEF LotsOf
<1>4. k + m \in Int /\ k - m \in Int /\ - k \in Int
  OBVIOUS
<1>5. QED
  BY <1>3, <1>4, LotsOfInLots

LEMMA TruncatedInt ==
  ASSUME NEW a \in Int, NEW b \in Nat \ {0}
  PROVE  Truncated(a, b) \in Int
BY DEF Truncated

-----------------------------------------------------------------------------
(* The risk manager. *)

LEMMA MarketValueInt ==
  ASSUME NEW positions \in [Symbols -> Position], NEW prices,
         \A s \in DOMAIN prices : prices[s] \in Int
  PROVE  MarketValue(positions, prices) \in Int
<1> DEFINE value(s) ==
      positions[s].shares *
        (IF s \in DOMAIN prices THEN prices[s] ELSE positions[s].avg_price)
<1> DEFINE values == [i \in 1 .. Len(Universe) |-> value(Universe[i])]
<1>1. ASSUME NEW s \in Symbols PROVE value(s) \in Int
  <2>1. positions[s].shares \in Int /\ positions[s].avg_price \in Int
    BY DEF Position
  <2>2. QED
    BY <2>1
<1>2. \A i \in 1 .. Len(Universe) : Universe[i] \in Symbols
  BY DEF Symbols
<1>3. values \in [1 .. Len(Universe) -> Int]
  BY <1>1, <1>2
<1>4. Sum(values, Len(Universe)) \in Int
  BY <1>3, SumInt, UniverseAssumption
<1>5. QED
  BY <1>4, Zenon DEF MarketValue

LEMMA NameRoomInt ==
  ASSUME NEW eq \in Int, NEW held \in Int, NEW price \in Int
  PROVE  NameRoom(eq, held, price) \in Int
<1>1. MaxPositionWeight \in Int
  BY LimitsAssumption, ScaleAssumption
<1>2. Portion(eq, MaxPositionWeight) \in Int
  BY <1>1, PortionInt
<1>3. held * price \in Int
  OBVIOUS
<1>4. QED
  BY <1>2, <1>3 DEF NameRoom, Higher

LEMMA GrossRoomInt ==
  ASSUME NEW eq \in Int, NEW positions \in [Symbols -> Position], NEW s, NEW price \in Int
  PROVE  GrossRoom(eq, positions, s, price) \in Int
<1>1. MaxGrossExposure \in Int
  BY LimitsAssumption, ScaleAssumption
<1>2. Portion(eq, MaxGrossExposure) \in Int
  BY <1>1, PortionInt
<1>3. MarketValue(positions, [x \in {s} |-> price]) \in Int
  BY MarketValueInt
<1>4. QED
  BY <1>2, <1>3 DEF GrossRoom, Higher

LEMMA MaxBuySharesInt ==
  ASSUME NEW risk, NEW acct \in Account, NEW s \in Symbols, NEW price \in Nat, NEW eq \in Int
  PROVE  MaxBuyShares(risk, acct, s, price, eq) \in Int
<1>1. /\ acct.cash \in Int
      /\ acct.positions \in [Symbols -> Position]
      /\ acct.positions[s].shares \in Int
  BY DEF Account, Position
<1>2. NameRoom(eq, acct.positions[s].shares, price) \in Int
  <2>1. price \in Int
    OBVIOUS
  <2>2. QED
    BY <1>1, <2>1, NameRoomInt, Zenon
<1>3. GrossRoom(eq, acct.positions, s, price) \in Int
  BY <1>1, GrossRoomInt
<1>4. BuyBudget(acct, s, price, eq) \in Int
  BY <1>1, <1>2, <1>3 DEF BuyBudget, Lower
<1>6. CASE ~ CanTrade(risk) \/ price <= 0
  BY <1>6 DEF MaxBuyShares
<1>7. CASE CanTrade(risk) /\ price > 0
  <2>1. price * LotSize \in Nat \ {0}
    BY <1>7, LotSizeAssumption
  <2>2. BuyBudget(acct, s, price, eq) \div (price * LotSize) \in Int
    BY <1>4, <2>1
  <2>3. QED
    BY <1>7, <2>2, LotSizeAssumption DEF MaxBuyShares, LotsOf
<1>8. QED
  BY <1>6, <1>7

\* A purchase that fits the name's room leaves the name within its share of equity.
LEMMA NameRoomKeepsCap ==
  ASSUME NEW eq \in Int, NEW held \in Nat, NEW price \in Nat \ {0}, NEW n \in Nat \ {0},
         n * price <= NameRoom(eq, held, price)
  PROVE  (held + n) * price * Scale <= MaxPositionWeight * eq
<1>1. MaxPositionWeight \in Int /\ Scale \in Nat
  BY LimitsAssumption, ScaleAssumption
<1> DEFINE share == Portion(eq, MaxPositionWeight)
<1>2. share \in Int /\ share * Scale <= eq * MaxPositionWeight
  BY <1>1, PortionBound
<1>3. n * price \in Nat /\ n * price > 0 /\ held * price \in Nat
  OBVIOUS
<1>4. NameRoom(eq, held, price) = Higher(0, share - held * price)
  BY DEF NameRoom
<1> HIDE DEF share
<1>5. n * price <= share - held * price
  BY <1>2, <1>3, <1>4 DEF Higher
<1>6. (held + n) * price = held * price + n * price
  OBVIOUS
<1>7. (held + n) * price \in Int /\ (held + n) * price <= share
  BY <1>2, <1>3, <1>5, <1>6
<1>8. (held + n) * price * Scale <= share * Scale
  BY <1>1, <1>2, <1>7, ProductOrder
<1>9. eq * MaxPositionWeight = MaxPositionWeight * eq
  BY <1>1
<1>10. share * Scale \in Int /\ (held + n) * price * Scale \in Int
       /\ MaxPositionWeight * eq \in Int
  BY <1>1, <1>2, <1>7
<1>11. QED
  BY <1>2, <1>8, <1>9, <1>10

\* A purchase of at most max_buy_shares leaves the name within its share of equity.
LEMMA MaxBuySharesKeepsCap ==
  ASSUME NEW risk, NEW acct \in Account, NEW s \in Symbols, NEW price \in Nat,
         NEW eq \in Int, NEW n \in Nat \ {0}, n <= MaxBuyShares(risk, acct, s, price, eq)
  PROVE  (acct.positions[s].shares + n) * price * Scale <= MaxPositionWeight * eq
<1> DEFINE held == acct.positions[s].shares
<1> DEFINE budget == BuyBudget(acct, s, price, eq)
<1>1. /\ acct.cash \in Int
      /\ acct.positions \in [Symbols -> Position]
      /\ held \in Nat
  BY DEF Account, Position
<1>2. price \in Nat \ {0}
  BY DEF MaxBuyShares
<1>3. NameRoom(eq, held, price) \in Int
  <2>1. price \in Int /\ held \in Int
    BY <1>1
  <2>2. QED
    BY <2>1, NameRoomInt, Zenon
<1>4. GrossRoom(eq, acct.positions, s, price) \in Int
  BY <1>1, GrossRoomInt
<1>5. budget \in Int /\ budget <= NameRoom(eq, held, price)
  BY <1>1, <1>3, <1>4 DEF BuyBudget, Lower
<1>6. n <= LotsOf(budget \div (price * LotSize))
  BY <1>2 DEF MaxBuyShares
<1> HIDE DEF budget
<1> DEFINE most == LotsOf(budget \div (price * LotSize))
<1>7. most \in Int /\ most * price <= budget
  BY <1>2, <1>5, LotsWithin
<1> HIDE DEF most
<1>8. n * price <= most * price
  BY <1>6, <1>7, ProductOrder DEF most
<1>9. n * price <= NameRoom(eq, held, price)
  <2>1. n * price \in Int /\ most * price \in Int
    BY <1>7
  <2>2. QED
    BY <2>1, <1>3, <1>5, <1>7, <1>8
<1>10. QED
  BY <1>1, <1>2, <1>9, NameRoomKeepsCap

\* The steps of a risk manager's record.
LEMMA RiskStep ==
  ASSUME NEW r \in RiskState, NEW eq \in Int
  PROVE  /\ StartDay(eq) \in RiskState /\ StartDay(eq).orders_today = 0
         /\ Killed(r) \in RiskState /\ Killed(r).halted
         /\ Killed(r).orders_today = r.orders_today
         /\ UpdateDailyLoss(r, eq) \in RiskState
         /\ r.halted => UpdateDailyLoss(r, eq).halted
         /\ UpdateDailyLoss(r, eq).orders_today = r.orders_today
         /\ RecordOrder(r) \in RiskState /\ RecordOrder(r).halted = r.halted
         /\ RecordOrder(r).orders_today = r.orders_today + 1
<1>1. LossLimitHit(r, eq) \in BOOLEAN
  BY DEF LossLimitHit
<1>2. (r.halted \/ LossLimitHit(r, eq)) \in BOOLEAN
  BY <1>1
<1>3. /\ UpdateDailyLoss(r, eq) \in RiskState
      /\ r.halted => UpdateDailyLoss(r, eq).halted
      /\ UpdateDailyLoss(r, eq).orders_today = r.orders_today
  BY <1>2 DEF UpdateDailyLoss, RiskState
<1>4. StartDay(eq) \in RiskState /\ StartDay(eq).orders_today = 0
  BY DEF StartDay, NewRisk, RiskState
<1>5. /\ Killed(r) \in RiskState /\ Killed(r).halted
      /\ Killed(r).orders_today = r.orders_today
  BY DEF Killed, RiskState
<1>6. /\ RecordOrder(r) \in RiskState /\ RecordOrder(r).halted = r.halted
      /\ RecordOrder(r).orders_today = r.orders_today + 1
  BY DEF RecordOrder, RiskState
<1>7. QED
  BY <1>3, <1>4, <1>5, <1>6

=============================================================================
