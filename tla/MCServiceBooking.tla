-------------------------- MODULE MCServiceBooking --------------------------
(* Constants for model checking ServiceBooking: a free booking and one of    *)
(* 15 paise, whose late fee (2 paise) is rounded.                            *)
EXTENDS ServiceBooking, TLC

MCTotals == {0, 15}
OneTotal == {15}

\* The request slots are interchangeable.
RequestSymmetry == Permutations(Requests)
=============================================================================
