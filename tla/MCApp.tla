------------------------------- MODULE MCApp -------------------------------
(***************************************************************************)
(* The components around bookings and listings for TLC.  The states are    *)
(* the sum of the components'.  One request at a time edits areas, looks   *)
(* places up and edits promo codes.                                        *)
(***************************************************************************)
EXTENDS App

\* Addresses with every level, with some, with two types for one level in both
\* orders, and with none.
Level(text, types) == [text |-> text, types |-> types]
MCAnswers ==
    {<<>>,
     <<Level("Kerala", {"administrative_area_level_1"})>>,
     <<Level("Kakkanad", {"sublocality_level_1", "sublocality"}), Level("Kochi", {"locality"}),
       Level("India", {"country"})>>,
     <<Level("Ward 3", {"neighborhood"}), Level("Edappally", {"sublocality"}),
       Level("Ernakulam", {"administrative_area_level_2"})>>}

\* The credentials of Firebase are only told apart in their own part.
MCInit == Init /\ (part # "notices" => enabled)

MCSpec == MCInit /\ [][Next]_vars
=============================================================================
