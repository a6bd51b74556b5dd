------------------------------ MODULE MCRules ------------------------------
(***************************************************************************)
(* The rules on every input of small sets, with values on both sides of    *)
(* every limit.                                                            *)
(***************************************************************************)
EXTENDS Rules

Null == [type |-> "null"]
Word(t) == [type |-> "string", text |-> t, length |-> 5]
Long(n) == [type |-> "string", text |-> "any", length |-> n]
Number(n) == [type |-> "number", n |-> n, whole |-> TRUE]
List(n, longest) == [type |-> "list", entries |-> n, longest |-> longest, allText |-> TRUE]

MCValues == {Null, Word("cln"), Word("ac"), Word("SUV"), Word("PETROL"), Word("PG"), Long(20), Long(40), Long(41),
           Number(-1), Number(0), Number(1), Number(60), Number(61), Number(10000001),
           [type |-> "number", n |-> 1, whole |-> FALSE], [type |-> "boolean"],
           List(0, 0), List(12, 80), List(13, 80), List(12, 81),
           [type |-> "list", entries |-> 1, longest |-> 1, allText |-> FALSE]}

Keys == UNION {DOMAIN ATTRIBUTE_SCHEMA[c] : c \in AD_CATEGORIES} \cup {"unknown"}
MCKeySets == {{}} \cup {{k, l} : k \in Keys, l \in {"subCategory", "seats", "includes"}}
=============================================================================
