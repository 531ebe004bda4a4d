------------------------------ MODULE RunSpecs ------------------------------
(***************************************************************************)
(* Runs as data: a spec names a strategy family and its parameters, has a  *)
(* content key, and a grid expands into specs.  A value is a record of its *)
(* kind and its content.                                                   *)
(***************************************************************************)
EXTENDS Integers, Sequences, SequencesExt

CONSTANTS Strategies      \* [family -> the parameters its constructor takes]

\* What JSON cannot hold (a set, a Decimal, a numpy integer) is passed through as it is.
Serialisable(value) == value.kind \in {"number", "enum", "list", "tuple"}

Canonical(value) ==
  <<IF value.kind \in {"list", "tuple"} THEN "array" ELSE "scalar", value.content>>

HasKey(spec) == \A name \in DOMAIN spec.params : Serialisable(spec.params[name])

\* The hash of the canonical form, order-stable and taken to be free of collisions.
Key(spec) == <<spec.strategy, [name \in DOMAIN spec.params |-> Canonical(spec.params[name])]>>

\* build_strategy finds the family and its constructor takes the parameters.
Builds(spec) ==
  /\ spec.strategy \in DOMAIN Strategies
  /\ DOMAIN spec.params \subseteq Strategies[spec.strategy]

\* One spec for each choice of a position on each axis; with no axes, the defaults.
Grid(strategy, axes) ==
  LET longest == 1 .. FoldSet(LAMBDA a, n : IF n > Len(axes[a]) THEN n ELSE Len(axes[a]), 1, DOMAIN axes)
      choices == {c \in [DOMAIN axes -> longest] : \A a \in DOMAIN axes : c[a] <= Len(axes[a])}
      listed == SetToSeq(choices)
  IN  [i \in DOMAIN listed |->
         [strategy |-> strategy, params |-> [a \in DOMAIN axes |-> axes[a][listed[i][a]]]]]

=============================================================================
