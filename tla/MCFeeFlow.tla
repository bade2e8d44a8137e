------------------------------- MODULE MCFeeFlow -------------------------------
(***************************************************************************)
(* Small instances of FeeFlow for TLC.                                     *)
(***************************************************************************)
EXTENDS FeeFlow, TLC

\* Rates: -10%, 0, 40%, 100% and 110%; Int literals below 0 need a definition.
SomeRates == {-1, 0, 4, 10, 11}

\* Users are interchangeable.
Symmetry == Permutations(User)
=============================================================================
