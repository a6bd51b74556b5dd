--------------------------- MODULE MCMarketplace ---------------------------
(* Marketplace for TLC: forms with a rental's detail, a cleared one, or none. *)
EXTENDS Marketplace, TLC

RentalForm == [seats |-> [type |-> "number", n |-> 4, whole |-> TRUE]]
ClearForm == [seats |-> [type |-> "null"]]
MCForms == {NoAttributes, RentalForm, ClearForm}
MCPhotos == {{}, {"front"}, {"back"}}

UserSymmetry == Permutations(Users) \cup Permutations(Taps) \cup Permutations(Editors)
=============================================================================
