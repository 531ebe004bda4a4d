----------------------------- MODULE MarketRules -----------------------------
(***************************************************************************)
(* A-share market realism: the rules' switches and the daily price limits. *)
(***************************************************************************)
EXTENDS Broker

CONSTANTS
  TPlusOne,             \* t_plus_1: no selling what was bought today
  EnforcePriceLimits,
  EnforceSuspension,
  ParticipationRate,    \* share of a bar's volume one order may take; 0 for no cap
  DefaultLimitPct,      \* band of the main boards and of unknown codes
  Board                 \* the board each symbol's code prefix stands for

ASSUME RulesAssumption ==
  /\ {TPlusOne, EnforcePriceLimits, EnforceSuspension} \subseteq BOOLEAN
  /\ {ParticipationRate, DefaultLimitPct} \subseteq 0 .. Scale
  /\ Board \in [Symbols -> {"STAR", "ChiNext", "Beijing", "Main", "Unknown"}]

LimitPct(s) ==
  CASE Board[s] \in {"STAR", "ChiNext"}  -> Scale \div 5
    [] Board[s] = "Beijing"              -> (3 * Scale) \div 10
    [] OTHER                             -> DefaultLimitPct

\* The prices at which a name is locked up (no seller) and locked down (no buyer).
LimitUp(s, prevClose) == Rounded(prevClose * (Scale + LimitPct(s)), Scale)
LimitDown(s, prevClose) == Rounded(prevClose * (Scale - LimitPct(s)), Scale)

=============================================================================
