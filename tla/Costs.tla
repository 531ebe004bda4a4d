-------------------------------- MODULE Costs --------------------------------
(***************************************************************************)
(* The transaction costs of an A-share trade: CostModel.trade_cost.  Each  *)
(* term is rounded down to the grid on its own.                            *)
(***************************************************************************)
EXTENDS FixedPoint, FiniteSets

CONSTANTS
  CommissionRate,   \* commission_rate, both sides
  StampTaxRate,     \* stamp_tax_rate, sells only
  TransferFeeRate,  \* transfer_fee_rate, both sides
  SlippageRate,     \* slippage_rate, the base half spread
  ImpactCoef,       \* impact_coef of the square-root market impact
  MinCommission     \* min_commission, the floor of one order's commission

ASSUME RatesAssumption ==
  /\ {CommissionRate, StampTaxRate, TransferFeeRate, SlippageRate} \subseteq Nat
  /\ {ImpactCoef, MinCommission} \subseteq Nat

\* math.sqrt on the grid: how many positive integers have a square up to n.
ISqrt(n) == Cardinality({r \in 1 .. n : r * r <= n})

\* impact_coef * sqrt(participation): sqrt(p / Scale) is sqrt(p * Scale) / Scale.
ImpactRate(participation) ==
  Portion(ISqrt(Higher(participation, 0) * Scale), ImpactCoef)

Commission(notional) == Higher(Portion(notional, CommissionRate), MinCommission)

TradeCost(notional, isSell, participation) ==
  Commission(notional)
    + Portion(notional, TransferFeeRate + SlippageRate + ImpactRate(participation))
    + IF isSell THEN Portion(notional, StampTaxRate) ELSE 0

=============================================================================
