--------------------------- MODULE SimBroker_proofs ---------------------------
(***************************************************************************)
(* Theorems about the simulated broker, for any universe, lot size, cost   *)
(* rates and starting cash: its types, what makes a debt, the ledger it    *)
(* implements, and the average price.                                      *)
(***************************************************************************)
EXTENDS SimBroker, Trading_proofs

-----------------------------------------------------------------------------
(* What a trade costs, and what an order does. *)

LEMMA ISqrtNat ==
  ASSUME NEW n \in Nat
  PROVE  ISqrt(n) \in Nat
<1>1. IsFiniteSet(1 .. n)
  BY FS_Interval
<1>2. IsFiniteSet({r \in 1 .. n : r * r <= n})
  BY <1>1, FS_Subset
<1>3. QED
  BY <1>2, FS_CardinalityType DEF ISqrt

\* A trade of a non-negative amount costs a non-negative amount.
LEMMA TradeCostNat ==
  ASSUME NEW notional \in Nat, NEW isSell \in BOOLEAN, NEW participation \in Nat
  PROVE  TradeCost(notional, isSell, participation) \in Nat
<1> USE RatesAssumption
<1>1. Commission(notional) \in Nat
  <2>1. Portion(notional, CommissionRate) \in Nat
    BY PortionNat
  <2>2. QED
    BY <2>1 DEF Commission, Higher
<1>2. ImpactRate(participation) \in Nat
  <2>1. Higher(participation, 0) = participation \/ Higher(participation, 0) = 0
    BY DEF Higher
  <2>2. Higher(participation, 0) * Scale \in Nat
    BY <2>1, ProductNat, ScaleAssumption
  <2>3. ISqrt(Higher(participation, 0) * Scale) \in Nat
    BY <2>2, ISqrtNat
  <2>4. QED
    BY <2>3, PortionNat DEF ImpactRate
<1>3. Portion(notional, TransferFeeRate + SlippageRate + ImpactRate(participation)) \in Nat
  <2>1. TransferFeeRate + SlippageRate + ImpactRate(participation) \in Nat
    BY <1>2
  <2>2. QED
    BY <2>1, PortionNat
<1>4. Portion(notional, StampTaxRate) \in Nat
  BY PortionNat
<1>5. QED
  BY <1>1, <1>3, <1>4 DEF TradeCost

\* What an accepted order adds up to.
LEMMA CostNat ==
  ASSUME NEW order \in Order, order.shares > 0
  PROVE  Notional(order) \in Nat /\ Cost(order) \in Nat
<1>1. order.shares \in Nat /\ order.price \in Nat /\ order.participation \in Nat
  BY DEF Order
<1>2. Notional(order) \in Nat
  BY <1>1, ProductNat DEF Notional
<1>3. (order.side = "sell") \in BOOLEAN
  OBVIOUS
<1>4. QED
  BY <1>1, <1>2, <1>3, TradeCostNat DEF Cost

\* The log's entry of a settled order.
LEMMA FillOfType ==
  ASSUME clock \in Timestamp, NEW order \in Order, order.shares > 0
  PROVE  FillOf(order) \in Fill
<1>1. Notional(order) \in Nat /\ Cost(order) \in Nat
  BY CostNat
<1>2. QED
  BY <1>1 DEF FillOf, Fill, Order

\* A blended position holds the sum of the shares, at a price on the grid.
LEMMA BlendedType ==
  ASSUME NEW pos \in Position, NEW order \in Order, order.shares > 0
  PROVE  /\ Blended(pos, order) \in Position
         /\ Blended(pos, order).shares = pos.shares + order.shares
<1>1. pos.shares \in Nat /\ pos.avg_price \in Nat /\ order.shares \in Nat \ {0}
  BY DEF Position, Order
<1>2. pos.avg_price * pos.shares \in Nat
  BY <1>1, ProductNat
<1>3. Notional(order) \in Nat
  BY CostNat
<1>4. (pos.avg_price * pos.shares + Notional(order)) \div (pos.shares + order.shares) \in Nat
  <2>1. pos.avg_price * pos.shares + Notional(order) \in Nat
    BY <1>2, <1>3
  <2>2. pos.shares + order.shares \in Nat \ {0}
    BY <1>1
  <2>3. \A a \in Nat, b \in Nat \ {0} : a \div b \in Nat
    OBVIOUS
  <2>4. QED
    BY <2>1, <2>2, <2>3, Zenon
<1> DEFINE total == pos.shares + order.shares
<1> DEFINE avg == (pos.avg_price * pos.shares + Notional(order)) \div total
<1>5. Blended(pos, order) = [shares |-> total, avg_price |-> avg]
  BY Zenon DEF Blended
<1>6. total \in Nat /\ avg \in Nat
  BY <1>1, <1>4
<1> HIDE DEF avg
<1>7. QED
  BY <1>5, <1>6 DEF Position

\* A reduced position holds what is left, and nothing but that.
LEMMA ReducedType ==
  ASSUME NEW pos \in Position, NEW order \in Order,
         order.shares > 0, order.shares <= pos.shares
  PROVE  /\ Reduced(pos, order) \in Position
         /\ Reduced(pos, order).shares = pos.shares - order.shares
BY DEF Reduced, Position, NoPosition, Order

\* An order, settled or rejected, moves the shares of its own symbol only: up by the
\* order when an accepted buy, down by it when an accepted sale, and never below zero.
LEMMA PlaceOrderEffect ==
  ASSUME BrokerTypeOK, NEW order \in Order, PlaceOrder(order)
  PROVE  /\ account' \in Account
         /\ fills' \in Seq(Fill)
         /\ \A s \in Symbols :
              shares(s)' = IF s = order.symbol /\ Accepted(order)
                           THEN IF order.side = "buy" THEN shares(s) + order.shares
                                ELSE shares(s) - order.shares
                           ELSE shares(s)
<1>1. CASE Accepted(order) /\ account' = Settled(order)
           /\ fills' = Append(fills, FillOf(order))
  <2>1. order.shares > 0 /\ order.symbol \in Symbols /\ order.side \in Side
    BY <1>1 DEF Accepted, WholeLots, Order
  <2>2. Notional(order) \in Nat /\ Cost(order) \in Nat
    BY <2>1, CostNat
  <2>3. FillOf(order) \in Fill
    BY <2>1, FillOfType DEF BrokerTypeOK
  <2>4. fills' \in Seq(Fill)
    BY <1>1, <2>3 DEF BrokerTypeOK
  <2> DEFINE pos == account.positions[order.symbol]
  <2>5. /\ account.cash \in Int
        /\ account.positions \in [Symbols -> Position]
        /\ account = [cash |-> account.cash, positions |-> account.positions]
        /\ pos \in Position
    BY <2>1 DEF BrokerTypeOK, Account
  <2>6. CASE order.side = "buy"
    <3>1. /\ Blended(pos, order) \in Position
          /\ Blended(pos, order).shares = pos.shares + order.shares
      BY <2>1, <2>5, BlendedType
    <3>2. account' = [cash |-> account.cash - (Notional(order) + Cost(order)),
                      positions |-> [account.positions EXCEPT
                                       ![order.symbol] = Blended(pos, order)]]
      BY <1>1, <2>5, <2>6 DEF Settled
    <3> DEFINE positions == [account.positions EXCEPT ![order.symbol] = Blended(pos, order)]
    <3>3. account' \in Account
      <4>1. positions \in [Symbols -> Position]
        BY <2>5, <3>1
      <4>2. account.cash - (Notional(order) + Cost(order)) \in Int
        BY <2>2, <2>5
      <4> HIDE DEF positions
      <4>3. QED
        BY <3>2, <4>1, <4>2 DEF Account, positions
    <3>4. QED
      BY <1>1, <2>1, <2>4, <2>5, <2>6, <3>1, <3>2, <3>3 DEF shares
  <2>7. CASE order.side = "sell"
    <3>1. order.shares <= pos.shares
      BY <1>1, <2>7 DEF Accepted, shares
    <3>2. /\ Reduced(pos, order) \in Position
          /\ Reduced(pos, order).shares = pos.shares - order.shares
      BY <2>1, <2>5, <3>1, ReducedType
    <3>3. account' = [cash |-> account.cash + (Notional(order) - Cost(order)),
                      positions |-> [account.positions EXCEPT
                                       ![order.symbol] = Reduced(pos, order)]]
      BY <1>1, <2>5, <2>7 DEF Settled
    <3> DEFINE positions == [account.positions EXCEPT ![order.symbol] = Reduced(pos, order)]
    <3>4. account' \in Account
      <4>1. positions \in [Symbols -> Position]
        BY <2>5, <3>2
      <4>2. account.cash + (Notional(order) - Cost(order)) \in Int
        BY <2>2, <2>5
      <4> HIDE DEF positions
      <4>3. QED
        BY <3>3, <4>1, <4>2 DEF Account, positions
    <3>5. QED
      BY <1>1, <2>1, <2>4, <2>5, <2>7, <3>2, <3>3, <3>4 DEF shares
  <2>8. QED
    BY <2>1, <2>6, <2>7 DEF Side
<1>2. CASE ~ Accepted(order) /\ UNCHANGED <<account, fills>>
  BY <1>2 DEF BrokerTypeOK, shares
<1>3. QED
  BY <1>1, <1>2 DEF PlaceOrder

\* An order, settled or not, leaves a holding in whole lots.
LEMMA OrderKeepsLots ==
  ASSUME BrokerTypeOK, NEW order \in Order, PlaceOrder(order),
         NEW x \in Symbols, InLots(shares(x))
  PROVE  InLots(account'.positions[x].shares)
<1>1. shares(x)' = IF x = order.symbol /\ Accepted(order)
                   THEN IF order.side = "buy" THEN shares(x) + order.shares
                        ELSE shares(x) - order.shares
                   ELSE shares(x)
  BY PlaceOrderEffect
<1>2. shares(x) \in Int /\ order.shares \in Int
  BY DEF BrokerTypeOK, Account, Position, shares, Order
<1>3. Accepted(order) => InLots(order.shares)
  BY DEF Accepted, WholeLots, InLots
<1>4. Accepted(order) => InLots(shares(x) + order.shares) /\ InLots(shares(x) - order.shares)
  BY <1>2, <1>3, InLotsSum
<1>5. InLots(shares(x)')
  <2>1. CASE x = order.symbol /\ Accepted(order)
    BY <1>1, <1>4, <2>1
  <2>2. CASE ~ (x = order.symbol /\ Accepted(order))
    BY <1>1, <2>2
  <2>3. QED
    BY <2>1, <2>2
<1>6. QED
  BY <1>5 DEF shares

LEMMA InitBrokerTypeOK == BrokerInit => BrokerTypeOK
BY InitialCashAssumption
DEF BrokerInit, BrokerTypeOK, Account, Position, NoPosition, Timestamp

LEMMA StepBrokerTypeOK == BrokerTypeOK /\ [BrokerNext]_brokerVars => BrokerTypeOK'
<1> SUFFICES ASSUME BrokerTypeOK, [BrokerNext]_brokerVars PROVE BrokerTypeOK'
  OBVIOUS
<1>1. CASE \E order \in Order : PlaceOrder(order) /\ UNCHANGED clock
  BY <1>1, PlaceOrderEffect DEF BrokerTypeOK
<1>2. CASE \E ts \in Timestamp : SetTime(ts) /\ UNCHANGED <<account, fills>>
  BY <1>2 DEF SetTime, BrokerTypeOK
<1>3. CASE UNCHANGED brokerVars
  BY <1>3 DEF brokerVars, BrokerTypeOK
<1>4. QED
  BY <1>1, <1>2, <1>3 DEF BrokerNext

\* The broker's state has its types after every order and every tick: above all, no
\* position ever holds a negative number of shares.
THEOREM BrokerTypeCorrect == BrokerSpec => []BrokerTypeOK
BY InitBrokerTypeOK, StepBrokerTypeOK, PTL DEF BrokerSpec

-----------------------------------------------------------------------------
(* Debt *)

\* A dear sale is among the fills: its cost is more than it brought in.
DearSale(f) == f.side = "sell" /\ f.shares * f.price < f.cost

LEMMA StepDebt ==
  ASSUME BrokerTypeOK, OnlyADearSaleMakesDebt, NEW order \in Order, PlaceOrder(order)
  PROVE  account'.cash < 0 => \E i \in 1 .. Len(fills') : DearSale(fills'[i])
<1>1. account.cash \in Int /\ fills \in Seq(Fill)
  BY DEF BrokerTypeOK, Account
<1>2. account.cash < 0 => \E i \in 1 .. Len(fills) : DearSale(fills[i])
  BY DEF OnlyADearSaleMakesDebt, DearSale
<1>3. CASE Accepted(order) /\ account' = Settled(order)
           /\ fills' = Append(fills, FillOf(order))
  <2>1. Notional(order) \in Nat /\ Cost(order) \in Nat
    BY <1>3, CostNat DEF Accepted, WholeLots
  <2>2. /\ Len(fills) \in Nat /\ Len(fills') = Len(fills) + 1
        /\ \A i \in 1 .. Len(fills) : fills'[i] = fills[i]
        /\ fills'[Len(fills) + 1] = FillOf(order)
    BY <1>1, <1>3
  <2>3. CASE order.side = "buy"
    BY <1>1, <1>3, <2>1, <2>3 DEF Accepted, Settled
  <2>4. CASE order.side # "buy"
    <3>1. order.side = "sell"
      BY <2>4 DEF Order, Side
    <3>2. account'.cash = account.cash + (Notional(order) - Cost(order))
      BY <1>3, <2>4 DEF Settled
    <3>3. CASE account.cash < 0
      BY <1>2, <2>2, <3>3
    <3>4. CASE ~ account.cash < 0 /\ account'.cash < 0
      <4>1. Notional(order) < Cost(order)
        BY <1>1, <2>1, <3>2, <3>4
      <4>2. DearSale(FillOf(order))
        BY <3>1, <4>1 DEF DearSale, FillOf, Notional
      <4>3. QED
        BY <2>2, <4>2
    <3>5. QED
      BY <3>3, <3>4
  <2>5. QED
    BY <2>3, <2>4
<1>4. CASE UNCHANGED <<account, fills>>
  BY <1>2, <1>4
<1>5. QED
  BY <1>3, <1>4 DEF PlaceOrder

\* Whatever orders come, the account is in debt only if some sale cost more than it
\* brought in.
THEOREM DebtHasACause == BrokerSpec => []OnlyADearSaleMakesDebt
<1>1. BrokerInit => OnlyADearSaleMakesDebt
  BY InitialCashAssumption DEF BrokerInit, OnlyADearSaleMakesDebt
<1>2. BrokerTypeOK /\ OnlyADearSaleMakesDebt /\ [BrokerNext]_brokerVars
        => OnlyADearSaleMakesDebt'
  <2> SUFFICES ASSUME BrokerTypeOK, OnlyADearSaleMakesDebt, [BrokerNext]_brokerVars
               PROVE  account'.cash < 0 => \E i \in 1 .. Len(fills') : DearSale(fills'[i])
    BY DEF OnlyADearSaleMakesDebt, DearSale
  <2>1. ASSUME NEW order \in Order, PlaceOrder(order)
        PROVE  account'.cash < 0 => \E i \in 1 .. Len(fills') : DearSale(fills'[i])
    BY <2>1, StepDebt
  <2>2. CASE UNCHANGED <<account, fills>>
    BY <2>2 DEF OnlyADearSaleMakesDebt, DearSale
  <2>3. QED
    BY <2>1, <2>2 DEF BrokerNext, brokerVars
<1>3. QED
  BY <1>1, <1>2, BrokerTypeCorrect, PTL DEF BrokerSpec

-----------------------------------------------------------------------------
(* Folds over the log *)

Largest(S) == CHOOSE x \in S : \A y \in S : x >= y

LEMMA LargestOf ==
  ASSUME NEW n \in Nat, NEW S, S \subseteq 0 .. n, S # {}
  PROVE  Largest(S) \in S /\ \A y \in S : y <= Largest(S)
<1> DEFINE T == {n - x : x \in S}
<1>1. T \subseteq Nat /\ T # {}
  <2>1. \A x \in S : x \in 0 .. n
    OBVIOUS
  <2>2. \A x \in S : n - x \in Nat
    BY <2>1
  <2>3. PICK x \in S : TRUE
    OBVIOUS
  <2>4. n - x \in T
    OBVIOUS
  <2>5. QED
    BY <2>2, <2>4
<1>2. PICK t \in T : \A u \in T : t <= u
  BY <1>1, LeastNatural
<1>3. PICK x \in S : t = n - x
  BY <1>2
<1>4. \A y \in S : x >= y
  <2>1. \A y \in S : y \in 0 .. n /\ n - y \in T
    OBVIOUS
  <2>2. \A y \in S : t <= n - y
    BY <1>2, <2>1
  <2>3. QED
    BY <1>3, <2>1, <2>2
<1>5. Largest(S) \in S /\ \A y \in S : Largest(S) >= y
  BY <1>4, Zenon DEF Largest
<1>6. QED
  BY <1>5

\* g is what FoldLeft computes on every set of indices: the base and the terms of the
\* set, added from the least to the largest.
IsFold(g, base, v, n) ==
  g = [S \in SUBSET (1 .. n) |->
         IF S = {} THEN base ELSE g[S \ {Largest(S)}] + v[Largest(S)]]

\* There is such a function, for any number of terms.
LEMMA FoldExists ==
  ASSUME NEW n \in Nat, NEW base, NEW v
  PROVE  \E g : IsFold(g, base, v, n)
<1> DEFINE Bad == {m \in Nat : ~ \E g : IsFold(g, base, v, m)}
<1>1. SUFFICES Bad = {}
  OBVIOUS
<1>2. SUFFICES ASSUME Bad # {} PROVE FALSE
  OBVIOUS
<1>3. PICK m \in Bad : \A k \in Bad : m <= k
  BY <1>2, LeastNatural
<1>4. m \in Nat /\ ~ \E g : IsFold(g, base, v, m)
  BY <1>3
<1>5. m # 0
  <2>1. SUFFICES ASSUME m = 0 PROVE FALSE
    OBVIOUS
  <2> DEFINE g == [S \in SUBSET (1 .. 0) |-> base]
  <2>2. \A S \in SUBSET (1 .. 0) : S = {}
    OBVIOUS
  <2>3. IsFold(g, base, v, 0)
    BY <2>2 DEF IsFold
  <2>4. QED
    BY <1>4, <2>1, <2>3
<1>6. m - 1 \in Nat /\ m - 1 \notin Bad
  BY <1>3, <1>4, <1>5
<1>7. PICK h : IsFold(h, base, v, m - 1)
  BY <1>6
<1> DEFINE g == [S \in SUBSET (1 .. m) |->
                   IF m \in S THEN h[S \ {m}] + v[m] ELSE h[S]]
<1>8. ASSUME NEW S \in SUBSET (1 .. m)
      PROVE  g[S] = IF S = {} THEN base ELSE g[S \ {Largest(S)}] + v[Largest(S)]
  <2>1. CASE m \in S
    <3>1. Largest(S) \in S /\ \A y \in S : y <= Largest(S)
      <4>1. S \subseteq 0 .. m
        BY <1>4
      <4>2. QED
        BY <1>4, <2>1, <4>1, LargestOf
    <3>2. Largest(S) = m
      <4>1. Largest(S) \in 1 .. m /\ m <= Largest(S)
        BY <2>1, <3>1
      <4>2. QED
        BY <1>4, <4>1
    <3>3. S \ {m} \in SUBSET (1 .. m) /\ m \notin S \ {m}
      OBVIOUS
    <3>4. g[S \ {m}] = h[S \ {m}] /\ g[S] = h[S \ {m}] + v[m]
      BY <2>1, <3>3
    <3> HIDE DEF g
    <3>5. QED
      BY <2>1, <3>2, <3>4
  <2>2. CASE m \notin S
    <3>1. S \in SUBSET (1 .. m - 1)
      BY <1>4, <2>2
    <3>2. h[S] = IF S = {} THEN base ELSE h[S \ {Largest(S)}] + v[Largest(S)]
      BY <1>7, <3>1 DEF IsFold
    <3>3. g[S] = h[S]
      BY <2>2
    <3>4. S # {} => g[S \ {Largest(S)}] = h[S \ {Largest(S)}]
      BY <2>2
    <3> HIDE DEF g
    <3>5. QED
      BY <3>2, <3>3, <3>4
  <2>3. QED
    BY <2>1, <2>2
<1>9. DOMAIN g = SUBSET (1 .. m) /\ g = [S \in DOMAIN g |-> g[S]]
  OBVIOUS
<1> HIDE DEF g
<1>10. IsFold(g, base, v, m)
  BY <1>8, <1>9 DEF IsFold
<1>11. QED
  BY <1>4, <1>10

\* The fold of a prefix: one term more at each index.
LEMMA FoldStep ==
  ASSUME NEW n \in Nat, NEW base, NEW v, NEW g, IsFold(g, base, v, n)
  PROVE  /\ g[1 .. 0] = base
         /\ \A k \in 1 .. n : g[1 .. k] = g[1 .. k - 1] + v[k]
<1>1. g[1 .. 0] = base
  <2>1. 1 .. 0 = {}
    OBVIOUS
  <2>2. QED
    BY <2>1 DEF IsFold
<1>2. ASSUME NEW k \in 1 .. n PROVE g[1 .. k] = g[1 .. k - 1] + v[k]
  <2>1. 1 .. k \in SUBSET (1 .. n) /\ k \in 1 .. k /\ 1 .. k \subseteq 0 .. k /\ k \in Nat
    OBVIOUS
  <2>2. Largest(1 .. k) \in 1 .. k /\ \A y \in 1 .. k : y <= Largest(1 .. k)
    BY <2>1, LargestOf
  <2>3. Largest(1 .. k) = k
    BY <2>1, <2>2
  <2>4. (1 .. k) \ {k} = 1 .. k - 1
    OBVIOUS
  <2>5. g[1 .. k] = g[(1 .. k) \ {Largest(1 .. k)}] + v[Largest(1 .. k)]
    BY <2>1 DEF IsFold
  <2>6. QED
    BY <2>3, <2>4, <2>5
<1>3. QED
  BY <1>1, <1>2

\* Two folds agree on the prefix where their terms do.
LEMMA FoldsAgree ==
  ASSUME NEW n \in Nat, NEW m \in Nat, NEW base, NEW v, NEW w, NEW g, NEW h,
         IsFold(g, base, v, n), IsFold(h, base, w, m),
         NEW k \in Nat, k <= n, k <= m, \A i \in 1 .. k : v[i] = w[i]
  PROVE  g[1 .. k] = h[1 .. k]
<1> DEFINE Bad == {i \in 0 .. k : g[1 .. i] # h[1 .. i]}
<1>1. SUFFICES ASSUME Bad # {} PROVE FALSE
  OBVIOUS
<1>2. Bad \subseteq Nat
  OBVIOUS
<1>3. PICK i \in Bad : \A j \in Bad : i <= j
  BY <1>1, <1>2, LeastNatural
<1>4. i \in 0 .. k /\ g[1 .. i] # h[1 .. i]
  BY <1>3
<1>5. i # 0
  BY <1>4, FoldStep
<1>6. i \in 1 .. k /\ i \in 1 .. n /\ i \in 1 .. m /\ i - 1 \in 0 .. k
  BY <1>4, <1>5
<1>7. i - 1 \notin Bad
  BY <1>3, <1>4
<1>8. g[1 .. i - 1] = h[1 .. i - 1]
  BY <1>6, <1>7
<1>9. g[1 .. i] = g[1 .. i - 1] + v[i] /\ h[1 .. i] = h[1 .. i - 1] + w[i]
  BY <1>6, FoldStep
<1>10. QED
  BY <1>4, <1>6, <1>8, <1>9

\* The cash after a log is a fold of what its trades move.
CashTerms(l) == [i \in DOMAIN l |-> Book!CashMoved(l[i])]
ShareTerms(l, s) == [i \in DOMAIN l |-> Book!SharesMoved(l[i], s)]

LEMMA CashAfterIsFold ==
  ASSUME NEW l, Len(l) \in Nat, DOMAIN l = 1 .. Len(l)
  PROVE  \E g : /\ IsFold(g, InitialCash, CashTerms(l), Len(l))
                /\ Book!CashAfter(l) = g[1 .. Len(l)]
<1> DEFINE raw(g) == g = [S \in SUBSET DOMAIN l |->
                          IF S = {} THEN InitialCash
                          ELSE g[S \ {Book!Max(S)}] + Book!CashMoved(l[Book!Max(S)])]
<1>1. Book!CashAfter(l) = (CHOOSE g : raw(g))[DOMAIN l]
  BY DEF Book!CashAfter, Book!FoldLeft, Book!MapThenFoldSet
<1>2. ASSUME NEW g PROVE raw(g) <=> IsFold(g, InitialCash, CashTerms(l), Len(l))
  <2>1. \A S \in SUBSET DOMAIN l : S # {} =>
          Book!Max(S) = Largest(S) /\ Largest(S) \in DOMAIN l
    <3>1. ASSUME NEW S \in SUBSET DOMAIN l, S # {}
          PROVE  Largest(S) \in DOMAIN l
      <4>1. S \subseteq 0 .. Len(l)
        OBVIOUS
      <4>2. QED
        BY <3>1, <4>1, LargestOf
    <3>2. QED
      BY <3>1 DEF Book!Max, Largest
  <2>2. \A S \in SUBSET DOMAIN l :
          (IF S = {} THEN InitialCash
           ELSE g[S \ {Book!Max(S)}] + Book!CashMoved(l[Book!Max(S)]))
          = (IF S = {} THEN InitialCash
             ELSE g[S \ {Largest(S)}] + CashTerms(l)[Largest(S)])
    BY <2>1 DEF CashTerms
  <2>3. QED
    BY <2>2 DEF IsFold
<1> HIDE DEF raw
<1>3. \E g : raw(g)
  BY <1>2, FoldExists
<1>4. raw(CHOOSE g : raw(g))
  BY <1>3, Zenon
<1>5. QED
  BY <1>1, <1>2, <1>4
\* So is a holding.
LEMMA HoldingAfterIsFold ==
  ASSUME NEW l, Len(l) \in Nat, DOMAIN l = 1 .. Len(l), NEW s
  PROVE  \E g : /\ IsFold(g, 0, ShareTerms(l, s), Len(l))
                /\ Book!HoldingAfter(l, s) = g[1 .. Len(l)]
<1> DEFINE raw(g) == g = [S \in SUBSET DOMAIN l |->
                          IF S = {} THEN 0
                          ELSE g[S \ {Book!Max(S)}] + Book!SharesMoved(l[Book!Max(S)], s)]
<1>1. Book!HoldingAfter(l, s) = (CHOOSE g : raw(g))[DOMAIN l]
  BY DEF Book!HoldingAfter, Book!FoldLeft, Book!MapThenFoldSet
<1>2. ASSUME NEW g PROVE raw(g) <=> IsFold(g, 0, ShareTerms(l, s), Len(l))
  <2>1. \A S \in SUBSET DOMAIN l : S # {} =>
          Book!Max(S) = Largest(S) /\ Largest(S) \in DOMAIN l
    <3>1. ASSUME NEW S \in SUBSET DOMAIN l, S # {}
          PROVE  Largest(S) \in DOMAIN l
      <4>1. S \subseteq 0 .. Len(l)
        OBVIOUS
      <4>2. QED
        BY <3>1, <4>1, LargestOf
    <3>2. QED
      BY <3>1 DEF Book!Max, Largest
  <2>2. \A S \in SUBSET DOMAIN l :
          (IF S = {} THEN 0
           ELSE g[S \ {Book!Max(S)}] + Book!SharesMoved(l[Book!Max(S)], s))
          = (IF S = {} THEN 0
             ELSE g[S \ {Largest(S)}] + ShareTerms(l, s)[Largest(S)])
    BY <2>1 DEF ShareTerms
  <2>3. QED
    BY <2>2 DEF IsFold
<1> HIDE DEF raw
<1>3. \E g : raw(g)
  BY <1>2, FoldExists
<1>4. raw(CHOOSE g : raw(g))
  BY <1>3, Zenon
<1>5. QED
  BY <1>1, <1>2, <1>4

\* A log one entry longer.
LEMMA LogAppend ==
  ASSUME NEW T, NEW l \in Seq(T), NEW f \in T
  PROVE  LET n == Len(l) + 1
         IN  /\ Len(l) \in Nat /\ DOMAIN l = 1 .. Len(l)
             /\ Append(l, f) \in Seq(T) /\ Len(Append(l, f)) = n
             /\ DOMAIN Append(l, f) = 1 .. n
             /\ Append(l, f)[n] = f
             /\ \A i \in 1 .. Len(l) : Append(l, f)[i] = l[i]
OBVIOUS

\* The replay of a log one trade longer moves what that trade moves.
LEMMA CashAfterAppend ==
  ASSUME NEW T, NEW l \in Seq(T), NEW f \in T
  PROVE  Book!CashAfter(Append(l, f)) = Book!CashAfter(l) + Book!CashMoved(f)
<1> DEFINE k == Append(l, f)
<1> DEFINE n == Len(l) + 1
<1>1. /\ Len(l) \in Nat /\ DOMAIN l = 1 .. Len(l)
      /\ Len(k) = n /\ DOMAIN k = 1 .. n /\ k[n] = f
      /\ \A i \in 1 .. Len(l) : k[i] = l[i]
  BY LogAppend
<1> HIDE DEF k
<1>2. PICK g : IsFold(g, InitialCash, CashTerms(l), Len(l))
               /\ Book!CashAfter(l) = g[1 .. Len(l)]
  BY <1>1, CashAfterIsFold
<1>3. PICK h : IsFold(h, InitialCash, CashTerms(k), n)
               /\ Book!CashAfter(k) = h[1 .. n]
  BY <1>1, CashAfterIsFold
<1>4. \A i \in 1 .. Len(l) : CashTerms(k)[i] = CashTerms(l)[i]
  BY <1>1 DEF CashTerms
<1>5. n \in Nat /\ n \in 1 .. n /\ n - 1 = Len(l) /\ Len(l) <= n
  BY <1>1
<1>6. h[1 .. Len(l)] = g[1 .. Len(l)]
  BY <1>1, <1>2, <1>3, <1>4, <1>5, FoldsAgree
<1>7. h[1 .. n] = h[1 .. n - 1] + CashTerms(k)[n]
  BY <1>3, <1>5, FoldStep
<1>8. CashTerms(k)[n] = Book!CashMoved(f)
  BY <1>1, <1>5 DEF CashTerms
<1>9. QED
  BY <1>2, <1>3, <1>5, <1>6, <1>7, <1>8 DEF k

LEMMA HoldingAfterAppend ==
  ASSUME NEW T, NEW l \in Seq(T), NEW f \in T, NEW s
  PROVE  Book!HoldingAfter(Append(l, f), s)
           = Book!HoldingAfter(l, s) + Book!SharesMoved(f, s)
<1> DEFINE k == Append(l, f)
<1> DEFINE n == Len(l) + 1
<1>1. /\ Len(l) \in Nat /\ DOMAIN l = 1 .. Len(l)
      /\ Len(k) = n /\ DOMAIN k = 1 .. n /\ k[n] = f
      /\ \A i \in 1 .. Len(l) : k[i] = l[i]
  BY LogAppend
<1> HIDE DEF k
<1>2. PICK g : IsFold(g, 0, ShareTerms(l, s), Len(l))
               /\ Book!HoldingAfter(l, s) = g[1 .. Len(l)]
  BY <1>1, HoldingAfterIsFold
<1>3. PICK h : IsFold(h, 0, ShareTerms(k, s), n)
               /\ Book!HoldingAfter(k, s) = h[1 .. n]
  BY <1>1, HoldingAfterIsFold
<1>4. \A i \in 1 .. Len(l) : ShareTerms(k, s)[i] = ShareTerms(l, s)[i]
  BY <1>1 DEF ShareTerms
<1>5. n \in Nat /\ n \in 1 .. n /\ n - 1 = Len(l) /\ Len(l) <= n
  BY <1>1
<1>6. h[1 .. Len(l)] = g[1 .. Len(l)]
  BY <1>1, <1>2, <1>3, <1>4, <1>5, FoldsAgree
<1>7. h[1 .. n] = h[1 .. n - 1] + ShareTerms(k, s)[n]
  BY <1>3, <1>5, FoldStep
<1>8. ShareTerms(k, s)[n] = Book!SharesMoved(f, s)
  BY <1>1, <1>5 DEF ShareTerms
<1>9. QED
  BY <1>2, <1>3, <1>5, <1>6, <1>7, <1>8 DEF k

\* Before any trade there is the initial cash, and nothing is held.
LEMMA EmptyReplay ==
  /\ Book!CashAfter(<<>>) = InitialCash
  /\ \A s : Book!HoldingAfter(<<>>, s) = 0
<1>1. Len(<<>>) = 0 /\ Len(<<>>) \in Nat /\ DOMAIN <<>> = 1 .. Len(<<>>)
  OBVIOUS
<1>2. Book!CashAfter(<<>>) = InitialCash
  <2>1. PICK g : IsFold(g, InitialCash, CashTerms(<<>>), 0)
                 /\ Book!CashAfter(<<>>) = g[1 .. 0]
    BY <1>1, CashAfterIsFold
  <2>2. g[1 .. 0] = InitialCash
    BY <2>1, FoldStep
  <2>3. QED
    BY <2>1, <2>2
<1>3. ASSUME NEW s PROVE Book!HoldingAfter(<<>>, s) = 0
  <2>1. PICK g : IsFold(g, 0, ShareTerms(<<>>, s), 0)
                 /\ Book!HoldingAfter(<<>>, s) = g[1 .. 0]
    BY <1>1, HoldingAfterIsFold
  <2>2. g[1 .. 0] = 0
    BY <2>1, FoldStep
  <2>3. QED
    BY <2>1, <2>2
<1>4. QED
  BY <1>2, <1>3

-----------------------------------------------------------------------------
(* The account is the replay of its log *)

ReplayInv ==
  /\ account.cash = Book!CashAfter(fills)
  /\ \A s \in Symbols : shares(s) = Book!HoldingAfter(fills, s)

\* What an accepted order does to the cash and to each holding is what its fill moves.
LEMMA SettledMoves ==
  ASSUME BrokerTypeOK, NEW order \in Order, Accepted(order), account' = Settled(order),
         fills' = Append(fills, FillOf(order))
  PROVE  /\ FillOf(order) \in Fill
         /\ account'.cash = account.cash + Book!CashMoved(FillOf(order))
         /\ \A s \in Symbols :
              shares(s)' = shares(s) + Book!SharesMoved(FillOf(order), s)
<1>1. order.shares > 0 /\ order.symbol \in Symbols /\ order.side \in Side
      /\ order.shares \in Int /\ order.price \in Nat
  BY DEF Accepted, WholeLots, Order
<1>2. Notional(order) \in Nat /\ Cost(order) \in Nat /\ account.cash \in Int
  BY <1>1, CostNat DEF BrokerTypeOK, Account
<1>3. FillOf(order) \in Fill
  BY <1>1, FillOfType DEF BrokerTypeOK
<1>4. account'.cash = account.cash + Book!CashMoved(FillOf(order))
  <2> DEFINE notional == order.shares * order.price
  <2>1. notional = Notional(order)
    BY DEF Notional
  <2>2. CASE order.side = "buy"
    <3>1. account'.cash = account.cash - (Notional(order) + Cost(order))
      BY <2>2 DEF Settled
    <3>2. Book!CashMoved(FillOf(order)) = - notional - Cost(order)
      BY <2>2 DEF Book!CashMoved, FillOf
    <3> HIDE DEF notional
    <3>3. QED
      BY <1>2, <2>1, <3>1, <3>2
  <2>3. CASE order.side # "buy"
    <3>1. account'.cash = account.cash + (Notional(order) - Cost(order))
      BY <2>3 DEF Settled
    <3>2. Book!CashMoved(FillOf(order)) = notional - Cost(order)
      BY <2>3 DEF Book!CashMoved, FillOf
    <3> HIDE DEF notional
    <3>3. QED
      BY <1>2, <2>1, <3>1, <3>2
  <2>4. QED
    BY <2>2, <2>3
<1>5. \A s \in Symbols : shares(s)' = shares(s) + Book!SharesMoved(FillOf(order), s)
  <2>1. PlaceOrder(order)
    BY DEF PlaceOrder
  <2>2. \A s \in Symbols :
          shares(s)' = IF s = order.symbol /\ Accepted(order)
                       THEN IF order.side = "buy" THEN shares(s) + order.shares
                            ELSE shares(s) - order.shares
                       ELSE shares(s)
    BY <2>1, PlaceOrderEffect
  <2>3. \A s \in Symbols : shares(s) \in Int
    BY DEF BrokerTypeOK, Account, Position, shares
  <2>4. ASSUME NEW s \in Symbols
        PROVE  Book!SharesMoved(FillOf(order), s)
                 = IF s # order.symbol THEN 0
                   ELSE IF order.side = "buy" THEN order.shares ELSE - order.shares
    BY DEF Book!SharesMoved, FillOf
  <2>5. QED
    BY <1>1, <2>2, <2>3, <2>4
<1>6. QED
  BY <1>3, <1>4, <1>5

LEMMA OrderIsEntered ==
  ASSUME BrokerTypeOK, BrokerTypeOK', ReplayInv, NEW order \in Order, PlaceOrder(order)
  PROVE  ReplayInv' /\ (Book!Enter \/ UNCHANGED Book!ledgerVars)
<1>1. CASE Accepted(order) /\ account' = Settled(order)
           /\ fills' = Append(fills, FillOf(order))
  <2> DEFINE fill == FillOf(order)
  <2>1. /\ fill \in Fill /\ fills \in Seq(Fill)
        /\ account'.cash = account.cash + Book!CashMoved(fill)
        /\ \A s \in Symbols : shares(s)' = shares(s) + Book!SharesMoved(fill, s)
    BY <1>1, SettledMoves DEF BrokerTypeOK
  <2>2. /\ Book!CashAfter(fills') = Book!CashAfter(fills) + Book!CashMoved(fill)
        /\ \A s : Book!HoldingAfter(fills', s)
                    = Book!HoldingAfter(fills, s) + Book!SharesMoved(fill, s)
    BY <1>1, <2>1, CashAfterAppend, HoldingAfterAppend
  <2>3. /\ Len(fills) \in Nat /\ Len(fills') = Len(fills) + 1
        /\ fills'[Len(fills) + 1] = fill
        /\ \A i \in 1 .. Len(fills) : fills'[i] = fills[i]
        /\ fills' \in Seq(Fill)
    BY <1>1, <2>1, LogAppend
  <2>4. /\ account'.cash = Book!CashAfter(fills')
        /\ \A s \in Symbols : shares(s)' = Book!HoldingAfter(fills', s)
    BY <2>1, <2>2 DEF ReplayInv
  <2>5. /\ fill.symbol = order.symbol /\ fill.side = order.side
        /\ fill.shares = order.shares /\ order.symbol \in Symbols
    BY DEF FillOf, Order
  <2>6. order.shares > 0 /\ order.shares % LotSize = 0
    BY <1>1 DEF Accepted, WholeLots
  <2> HIDE DEF fill
  <2>7. order.side = "buy" => account'.cash >= 0
    <3>1. Notional(order) \in Nat /\ Cost(order) \in Nat /\ account.cash \in Int
      BY <2>6, CostNat DEF BrokerTypeOK, Account
    <3>2. QED
      BY <1>1, <3>1 DEF Accepted, Settled
  <2>8. shares(order.symbol)' >= 0
    BY <2>5 DEF BrokerTypeOK, Account, Position, shares
  <2>9. Book!IsPrefix(fills, fills')
    <3>1. SubSeq(fills, 1, Len(fills)) = SubSeq(fills', 1, Len(fills))
      BY <2>1, <2>3
    <3>2. QED
      BY <2>3, <3>1 DEF Book!IsPrefix
  <2>10. Book!Last(fills') = fill
    BY <2>3 DEF Book!Last
  <2>11. [s \in Symbols |-> shares(s)'] = Book!HoldingsAfter(fills')
    BY <2>4 DEF Book!HoldingsAfter
  <2>12. Book!Enter
    BY <2>3, <2>4, <2>5, <2>6, <2>7, <2>8, <2>9, <2>10, <2>11 DEF Book!Enter
  <2>13. ReplayInv'
    BY <2>4 DEF ReplayInv
  <2>14. QED
    BY <2>12, <2>13
<1>2. CASE UNCHANGED <<account, fills>>
  BY <1>2 DEF ReplayInv, shares, Book!ledgerVars
<1>3. QED
  BY <1>1, <1>2 DEF PlaceOrder

LEMMA StepIsEntered ==
  BrokerTypeOK /\ BrokerTypeOK' /\ ReplayInv /\ [BrokerNext]_brokerVars
    => ReplayInv' /\ [Book!Enter]_Book!ledgerVars
<1> SUFFICES ASSUME BrokerTypeOK, BrokerTypeOK', ReplayInv, [BrokerNext]_brokerVars
             PROVE  ReplayInv' /\ [Book!Enter]_Book!ledgerVars
  OBVIOUS
<1>1. ASSUME NEW order \in Order, PlaceOrder(order)
      PROVE  ReplayInv' /\ [Book!Enter]_Book!ledgerVars
  BY <1>1, OrderIsEntered
<1>2. CASE UNCHANGED <<account, fills>>
  BY <1>2 DEF ReplayInv, shares, Book!ledgerVars
<1>3. QED
  BY <1>1, <1>2 DEF BrokerNext, brokerVars

LEMMA InitReplay == BrokerInit => Book!Init /\ ReplayInv
<1> SUFFICES ASSUME BrokerInit PROVE Book!Init /\ ReplayInv
  OBVIOUS
<1>1. fills = <<>> /\ account.cash = InitialCash /\ \A s \in Symbols : shares(s) = 0
  BY DEF BrokerInit, NoPosition, shares
<1>2. QED
  BY <1>1, EmptyReplay DEF Book!Init, ReplayInv

\* The account is the replay of its fill log for any orders, lot size and costs: the
\* detailed broker, with its averages and its checks, implements the ledger.
THEOREM BrokerKeepsALedger == BrokerSpec => AccountIsReplayOfFills
<1>1. BrokerSpec => [](BrokerTypeOK /\ ReplayInv)
  BY InitReplay, StepIsEntered, BrokerTypeCorrect, PTL DEF BrokerSpec
<1>2. QED
  BY <1>1, InitReplay, StepIsEntered, PTL
  DEF BrokerSpec, AccountIsReplayOfFills, Book!Spec

-----------------------------------------------------------------------------
(* The average entry price *)

LEMMA QuotientBetween ==
  ASSUME NEW x \in Int, NEW t \in Nat \ {0}
  PROVE  /\ x \div t \in Int
         /\ \A lo \in Int : lo * t <= x => lo <= x \div t
         /\ \A hi \in Int : x <= hi * t => x \div t <= hi
<1> DEFINE q == x \div t
<1>1. q \in Int /\ q * t <= x /\ x < q * t + t
  <2>1. \A a \in Int, b \in Nat \ {0} :
          a \div b \in Int /\ (a \div b) * b <= a /\ a < (a \div b) * b + b
    OBVIOUS
  <2>2. QED
    BY <2>1
<1> HIDE DEF q
<1>2. ASSUME NEW lo \in Int, lo * t <= x PROVE lo <= q
  <2>1. SUFFICES ASSUME q + 1 <= lo PROVE FALSE
    BY <1>1
  <2>2. (q + 1) * t <= lo * t
    BY <1>1, <2>1, ProductOrder
  <2>3. (q + 1) * t = q * t + t /\ q * t \in Int /\ lo * t \in Int
    BY <1>1
  <2>4. QED
    BY <1>1, <1>2, <2>2, <2>3
<1>3. ASSUME NEW hi \in Int, x <= hi * t PROVE q <= hi
  <2>1. SUFFICES ASSUME hi + 1 <= q PROVE FALSE
    BY <1>1
  <2>2. (hi + 1) * t <= q * t
    BY <1>1, <2>1, ProductOrder
  <2>3. (hi + 1) * t = hi * t + t /\ q * t \in Int /\ hi * t \in Int
    BY <1>1
  <2>4. QED
    BY <1>1, <1>3, <2>2, <2>3
<1>4. QED
  BY <1>1, <1>2, <1>3 DEF q

\* The blend of an average and a price lies between any bounds of the two, and is the
\* price when nothing was held.
LEMMA BlendBetween ==
  ASSUME NEW a \in Nat, NEW h \in Nat, NEW n \in Nat \ {0}, NEW p \in Nat
  PROVE  LET avg == (a * h + n * p) \div (h + n)
         IN  /\ avg \in Int
             /\ h = 0 => avg = p
             /\ \A lo \in Int : lo <= a /\ lo <= p => lo <= avg
             /\ \A hi \in Int : a <= hi /\ p <= hi => avg <= hi
<1> DEFINE x == a * h + n * p
<1> DEFINE t == h + n
<1>1. /\ x \in Int /\ t \in Nat \ {0} /\ a * h \in Int /\ p * n \in Int
      /\ x = a * h + p * n
  OBVIOUS
<1>2. /\ x \div t \in Int
      /\ \A lo \in Int : lo * t <= x => lo <= x \div t
      /\ \A hi \in Int : x <= hi * t => x \div t <= hi
  <2> HIDE DEF x, t
  <2>1. QED
    BY <1>1, QuotientBetween
<1>3. ASSUME NEW lo \in Int, lo <= a, lo <= p PROVE lo * t <= x
  <2>1. lo * h <= a * h /\ lo * n <= p * n
    BY <1>3, ProductOrder
  <2>2. lo * t = lo * h + lo * n /\ lo * h \in Int /\ lo * n \in Int
    OBVIOUS
  <2> HIDE DEF x, t
  <2>3. QED
    BY <1>1, <2>1, <2>2
<1>4. ASSUME NEW hi \in Int, a <= hi, p <= hi PROVE x <= hi * t
  <2>1. a * h <= hi * h /\ p * n <= hi * n
    BY <1>4, ProductOrder
  <2>2. hi * t = hi * h + hi * n /\ hi * h \in Int /\ hi * n \in Int
    OBVIOUS
  <2> HIDE DEF x, t
  <2>3. QED
    BY <1>1, <2>1, <2>2
<1>5. ASSUME h = 0 PROVE x = p * t
  BY <1>1, <1>5
<1> HIDE DEF x, t
<1>6. h = 0 => x \div t = p
  <2>1. SUFFICES ASSUME h = 0 PROVE x \div t = p
    OBVIOUS
  <2>2. x = p * t
    BY <1>5, <2>1
  <2>3. p * t <= x /\ x <= p * t
    BY <1>1, <2>2
  <2>4. p <= x \div t /\ x \div t <= p
    BY <1>2, <2>3
  <2>5. QED
    BY <1>2, <2>4
<1>7. QED
  BY <1>2, <1>3, <1>4, <1>6 DEF x, t

HeldAt(l, i, s) == Book!HoldingAfter(SubSeq(l, 1, i), s)
FlatPoints(l, s) == {i \in 0 .. Len(l) : HeldAt(l, i, s) = 0}
Flat(l, s) == Largest(FlatPoints(l, s))

\* The last point at which s was flat, and the purchases after it.
LEMMA FlatType ==
  ASSUME NEW T, NEW l \in Seq(T), NEW s
  PROVE  /\ Flat(l, s) \in 0 .. Len(l)
         /\ \A i \in FlatPoints(l, s) : i <= Flat(l, s)
         /\ Book!HoldingAfter(l, s) = 0 => Flat(l, s) = Len(l)
         /\ Book!BuysSinceFlat(l, s)
              = {i \in Flat(l, s) + 1 .. Len(l) : l[i].symbol = s /\ l[i].side = "buy"}
<1>1. Len(l) \in Nat /\ SubSeq(l, 1, 0) = <<>> /\ SubSeq(l, 1, Len(l)) = l
  OBVIOUS
<1>2. 0 \in FlatPoints(l, s)
  <2>1. HeldAt(l, 0, s) = Book!HoldingAfter(<<>>, s)
    BY <1>1, Zenon DEF HeldAt
  <2>2. HeldAt(l, 0, s) = 0
    BY <2>1, EmptyReplay
  <2>3. QED
    BY <1>1, <2>2 DEF FlatPoints
<1>3. FlatPoints(l, s) \subseteq 0 .. Len(l)
  BY DEF FlatPoints
<1>4. Flat(l, s) \in FlatPoints(l, s) /\ \A i \in FlatPoints(l, s) : i <= Flat(l, s)
  BY <1>1, <1>2, <1>3, LargestOf DEF Flat
<1>5. ASSUME Book!HoldingAfter(l, s) = 0 PROVE Flat(l, s) = Len(l)
  <2>1. Len(l) \in FlatPoints(l, s)
    <3>1. HeldAt(l, Len(l), s) = 0
      BY <1>1, <1>5, Zenon DEF HeldAt
    <3>2. QED
      BY <1>1, <3>1 DEF FlatPoints
  <2>2. QED
    BY <1>1, <1>3, <1>4, <2>1
<1>6. Book!BuysSinceFlat(l, s)
        = {i \in Flat(l, s) + 1 .. Len(l) : l[i].symbol = s /\ l[i].side = "buy"}
  BY DEF Book!BuysSinceFlat, Book!Max, Flat, Largest, FlatPoints, HeldAt
<1>7. QED
  BY <1>3, <1>4, <1>5, <1>6

\* While s is held, one trade more leaves it flat where it was, and adds to its
\* purchases the trade if it is one.
LEMMA BuysAppend ==
  ASSUME NEW T, NEW l \in Seq(T), NEW f \in T, NEW s,
         Book!HoldingAfter(Append(l, f), s) # 0
  PROVE  Book!BuysSinceFlat(Append(l, f), s)
           = Book!BuysSinceFlat(l, s)
               \cup (IF f.symbol = s /\ f.side = "buy" THEN {Len(l) + 1} ELSE {})
<1> DEFINE k == Append(l, f)
<1> DEFINE n == Len(l) + 1
<1>1. /\ Len(l) \in Nat /\ k \in Seq(T) /\ Len(k) = n /\ k[n] = f
      /\ \A i \in 1 .. Len(l) : k[i] = l[i]
  BY LogAppend
<1>2. \A i \in 0 .. Len(l) : SubSeq(k, 1, i) = SubSeq(l, 1, i)
  OBVIOUS
<1>3. SubSeq(k, 1, n) = k
  OBVIOUS
<1> HIDE DEF k
<1>4. FlatPoints(k, s) = FlatPoints(l, s)
  <2>1. ASSUME NEW i PROVE i \in FlatPoints(k, s) <=> i \in FlatPoints(l, s)
    <3>1. CASE i = n
      <4>1. HeldAt(k, n, s) # 0
        BY <1>3, Zenon DEF HeldAt, k
      <4>2. QED
        BY <1>1, <3>1, <4>1 DEF FlatPoints
    <3>2. CASE i # n
      <4>1. \A j \in 0 .. Len(l) : HeldAt(k, j, s) = HeldAt(l, j, s)
        BY <1>2, Zenon DEF HeldAt
      <4>2. QED
        BY <1>1, <3>2, <4>1 DEF FlatPoints
    <3>3. QED
      BY <3>1, <3>2
  <2>2. QED
    BY <2>1
<1>5. Flat(k, s) = Flat(l, s)
  BY <1>4 DEF Flat
<1>6. /\ Flat(l, s) \in 0 .. Len(l)
      /\ Book!BuysSinceFlat(l, s)
           = {i \in Flat(l, s) + 1 .. Len(l) : l[i].symbol = s /\ l[i].side = "buy"}
      /\ Book!BuysSinceFlat(k, s)
           = {i \in Flat(k, s) + 1 .. n : k[i].symbol = s /\ k[i].side = "buy"}
  BY <1>1, FlatType
<1>7. ASSUME NEW i
      PROVE  i \in Book!BuysSinceFlat(k, s) <=>
               \/ i \in Book!BuysSinceFlat(l, s)
               \/ f.symbol = s /\ f.side = "buy" /\ i = n
  <2>1. CASE i = n
    BY <1>1, <1>5, <1>6, <2>1
  <2>2. CASE i # n
    BY <1>1, <1>5, <1>6, <2>2
  <2>3. QED
    BY <2>1, <2>2
<1>8. QED
  BY <1>7 DEF k
Paid(l, s) == {l[i].price : i \in Book!BuysSinceFlat(l, s)}
Within(a, prices) == (\E p \in prices : p <= a) /\ (\E p \in prices : a <= p)

\* While s is held, one trade more adds its price to the prices paid if it buys s, and
\* leaves them otherwise.
LEMMA PaidAppend ==
  ASSUME NEW l \in Seq(Fill), NEW f \in Fill, NEW s,
         Book!HoldingAfter(Append(l, f), s) # 0
  PROVE  /\ Paid(l, s) \subseteq Nat
         /\ Paid(Append(l, f), s)
              = Paid(l, s) \cup (IF f.symbol = s /\ f.side = "buy" THEN {f.price} ELSE {})
<1> DEFINE k == Append(l, f)
<1> DEFINE old == Book!BuysSinceFlat(l, s)
<1>1. /\ Len(l) \in Nat /\ DOMAIN l = 1 .. Len(l) /\ k[Len(l) + 1] = f
      /\ \A i \in 1 .. Len(l) : k[i] = l[i]
  BY LogAppend
<1>2. old \subseteq 1 .. Len(l)
  <2>1. /\ Flat(l, s) \in 0 .. Len(l)
        /\ old = {i \in Flat(l, s) + 1 .. Len(l) : l[i].symbol = s /\ l[i].side = "buy"}
    BY FlatType
  <2> HIDE DEF old
  <2>2. QED
    BY <1>1, <2>1
<1>3. Book!BuysSinceFlat(k, s)
        = old \cup (IF f.symbol = s /\ f.side = "buy" THEN {Len(l) + 1} ELSE {})
  BY BuysAppend
<1>4. \A i \in 1 .. Len(l) : l[i].price \in Nat
  <2>1. \A i \in 1 .. Len(l) : l[i] \in Fill
    OBVIOUS
  <2>2. QED
    BY <2>1 DEF Fill
<1> HIDE DEF k, old
<1>5. \A i \in old : k[i].price = l[i].price /\ l[i].price \in Nat
  BY <1>1, <1>2, <1>4
<1>6. Paid(l, s) = {l[i].price : i \in old}
  BY DEF Paid, old
<1>7. Paid(k, s)
        = Paid(l, s) \cup (IF f.symbol = s /\ f.side = "buy" THEN {f.price} ELSE {})
  <2>1. CASE f.symbol = s /\ f.side = "buy"
    <3>1. Paid(k, s) = {k[i].price : i \in old \cup {Len(l) + 1}}
      BY <1>3, <2>1 DEF Paid
    <3>2. QED
      BY <1>1, <1>5, <1>6, <2>1, <3>1
  <2>2. CASE ~ (f.symbol = s /\ f.side = "buy")
    <3>1. Paid(k, s) = {k[i].price : i \in old}
      BY <1>3, <2>2 DEF Paid
    <3>2. QED
      BY <1>5, <1>6, <2>2, <3>1
  <2>3. QED
    BY <2>1, <2>2
<1>8. QED
  BY <1>5, <1>6, <1>7 DEF k

LEMMA OrderKeepsAverage ==
  ASSUME BrokerTypeOK, BrokerTypeOK', ReplayInv, ReplayInv', AvgPriceWithinPricesPaid,
         NEW order \in Order, Accepted(order), account' = Settled(order),
         fills' = Append(fills, FillOf(order)), NEW s \in Symbols, shares(s)' > 0
  PROVE  Within(account'.positions[s].avg_price, Paid(fills', s))
<1> DEFINE fill == FillOf(order)
<1> DEFINE pos == account.positions[s]
<1> DEFINE buysIt == order.symbol = s /\ order.side = "buy"
<1>1. /\ fill \in Fill /\ fills \in Seq(Fill) /\ order.shares \in Nat \ {0}
      /\ order.price \in Nat /\ order.symbol \in Symbols
      /\ fill.symbol = order.symbol /\ fill.side = order.side /\ fill.price = order.price
  <2>1. order.shares > 0
    BY DEF Accepted, WholeLots
  <2>2. QED
    BY <2>1, SettledMoves DEF BrokerTypeOK, Order, FillOf
<1>2. Book!HoldingAfter(fills', s) # 0
  BY DEF ReplayInv
<1>3. /\ Paid(fills, s) \subseteq Nat
      /\ Paid(fills', s) = Paid(fills, s) \cup (IF buysIt THEN {order.price} ELSE {})
  <2> HIDE DEF fill
  <2>1. fills' = Append(fills, fill)
    BY DEF fill
  <2>2. QED
    BY <1>1, <1>2, <2>1, PaidAppend
<1>4. pos \in Position /\ shares(s) = pos.shares /\ pos.shares \in Nat /\ pos.avg_price \in Nat
  BY DEF BrokerTypeOK, Account, Position, shares
<1>5. pos.shares > 0 => Within(pos.avg_price, Paid(fills, s))
  BY <1>4 DEF AvgPriceWithinPricesPaid, Held, Within, Paid
<1>6. CASE buysIt
  <2>1. account'.positions[s] = Blended(pos, order)
    BY <1>6 DEF Settled, BrokerTypeOK, Account
  <2> DEFINE avg == (pos.avg_price * pos.shares + order.shares * order.price)
                      \div (pos.shares + order.shares)
  <2>2. account'.positions[s].avg_price = avg
    BY <2>1 DEF Blended, Notional
  <2>3. /\ avg \in Int
        /\ pos.shares = 0 => avg = order.price
        /\ \A lo \in Int : lo <= pos.avg_price /\ lo <= order.price => lo <= avg
        /\ \A hi \in Int : pos.avg_price <= hi /\ order.price <= hi => avg <= hi
    <3> HIDE DEF pos
    <3>1. QED
      BY <1>1, <1>4, BlendBetween
  <2> HIDE DEF avg, pos
  <2>4. Paid(fills', s) = Paid(fills, s) \cup {order.price}
    BY <1>3, <1>6
  <2>5. CASE pos.shares = 0
    <3>1. avg = order.price /\ order.price \in Paid(fills', s) /\ order.price <= avg
          /\ avg <= order.price
      BY <1>1, <2>3, <2>4, <2>5
    <3>2. QED
      BY <2>2, <3>1, Zenon DEF Within
  <2>6. CASE pos.shares # 0
    <3>1. PICK lo \in Paid(fills, s) : lo <= pos.avg_price
      BY <1>4, <1>5, <2>6 DEF Within
    <3>2. PICK hi \in Paid(fills, s) : pos.avg_price <= hi
      BY <1>4, <1>5, <2>6 DEF Within
    <3>3. lo \in Int /\ hi \in Int /\ order.price \in Int /\ pos.avg_price \in Int
      BY <1>1, <1>3, <1>4, <3>1, <3>2
    <3>4. \E p \in Paid(fills', s) : p <= avg
      BY <2>3, <2>4, <3>1, <3>3
    <3>5. \E p \in Paid(fills', s) : avg <= p
      BY <2>3, <2>4, <3>2, <3>3
    <3>6. QED
      BY <2>2, <3>4, <3>5 DEF Within
  <2>7. QED
    BY <2>5, <2>6
<1>7. CASE ~ buysIt
  <2>1. Paid(fills', s) = Paid(fills, s)
    BY <1>3, <1>7
  <2>2. account'.positions[s].avg_price = pos.avg_price /\ pos.shares > 0
    <3>1. CASE order.symbol # s
      BY <1>1, <1>4, <3>1 DEF Settled, BrokerTypeOK, Account, shares
    <3>2. CASE order.symbol = s /\ order.side # "buy"
      <4>1. account'.positions[s] = Reduced(pos, order)
        BY <3>2 DEF Settled, BrokerTypeOK, Account
      <4>2. pos.shares # order.shares
        <5>1. SUFFICES ASSUME pos.shares = order.shares PROVE FALSE
          OBVIOUS
        <5>2. shares(s)' = 0
          BY <4>1, <5>1 DEF Reduced, NoPosition, shares
        <5>3. QED
          BY <5>2
      <4>3. account'.positions[s] = [pos EXCEPT !.shares = @ - order.shares]
        BY <4>1, <4>2 DEF Reduced
      <4>4. account'.positions[s].avg_price = pos.avg_price
        BY <1>4, <4>3 DEF Position
      <4>5. order.shares <= pos.shares
        BY <1>4, <3>2 DEF Accepted, Order, Side
      <4>6. QED
        BY <1>1, <1>4, <4>4, <4>5
    <3>3. QED
      BY <1>7, <3>1, <3>2
  <2>3. QED
    BY <1>5, <2>1, <2>2
<1>8. QED
  BY <1>6, <1>7

LEMMA StepKeepsAverage ==
  BrokerTypeOK /\ BrokerTypeOK' /\ ReplayInv /\ ReplayInv' /\ AvgPriceWithinPricesPaid
  /\ [BrokerNext]_brokerVars => AvgPriceWithinPricesPaid'
<1> SUFFICES ASSUME BrokerTypeOK, BrokerTypeOK', ReplayInv, ReplayInv',
                    AvgPriceWithinPricesPaid, [BrokerNext]_brokerVars
             PROVE  AvgPriceWithinPricesPaid'
  OBVIOUS
<1>1. ASSUME NEW order \in Order, Accepted(order), account' = Settled(order),
             fills' = Append(fills, FillOf(order))
      PROVE  AvgPriceWithinPricesPaid'
  <2>1. \A s \in Symbols : shares(s)' > 0 =>
          Within(account'.positions[s].avg_price, Paid(fills', s))
    BY <1>1, OrderKeepsAverage
  <2>2. QED
    BY <2>1 DEF AvgPriceWithinPricesPaid, Held, Within, Paid
<1>2. CASE UNCHANGED <<account, fills>>
  BY <1>2 DEF AvgPriceWithinPricesPaid, Held, shares
<1>3. QED
  BY <1>1, <1>2 DEF BrokerNext, PlaceOrder, brokerVars

\* The average entry price never leaves the range of the prices paid since the name was
\* last flat, for any orders, prices and lot size.
THEOREM AverageIsOfPricesPaid == BrokerSpec => []AvgPriceWithinPricesPaid
<1>1. BrokerInit => AvgPriceWithinPricesPaid
  BY DEF BrokerInit, AvgPriceWithinPricesPaid, Held, shares, NoPosition
<1>2. BrokerSpec => [](BrokerTypeOK /\ ReplayInv)
  BY InitReplay, StepIsEntered, BrokerTypeCorrect, PTL DEF BrokerSpec
<1>3. QED
  BY <1>1, <1>2, StepKeepsAverage, PTL DEF BrokerSpec

=============================================================================
