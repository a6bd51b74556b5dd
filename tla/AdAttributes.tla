---------------------------- MODULE AdAttributes ----------------------------
(***************************************************************************)
(* The details a listing may carry in each category and how they are       *)
(* validated (ad-attributes.ts).                                           *)
(*                                                                         *)
(* A JSON value is a record of its type and of what the validation reads   *)
(* of it: a text its wording and length, a number its value and whether it *)
(* is whole, a list how many entries it has and the longest of them.       *)
(***************************************************************************)
EXTENDS Integers, FiniteSets, Functions

AD_CATEGORIES == {"cleaning", "repairing", "car_rental", "elkstay"}

CLEANING_SUB_CATEGORIES == {"cln", "deep", "tnk", "sof", "crp", "kit", "bth", "lndr"}
REPAIR_SUB_CATEGORIES == {"ac", "plm", "elc", "cpt", "pnt", "gen"}
RENTAL_SUB_CATEGORIES == {"SEDAN", "SUV", "LUXURY"}

\* FieldSpec.  An empty oneOf allows any wording.
Text(maxLength, oneOf) == [kind |-> "string", maxLength |-> maxLength, oneOf |-> oneOf]
Whole(min, max) == [kind |-> "int", min |-> min, max |-> max]
TrueFalse == [kind |-> "boolean"]
Texts(maxItems, maxLength) == [kind |-> "stringList", maxItems |-> maxItems, maxLength |-> maxLength]

ATTRIBUTE_SCHEMA ==
    [cleaning |-> [subCategory |-> Text(20, CLEANING_SUB_CATEGORIES),
                   durationLabel |-> Text(40, {}),
                   includes |-> Texts(12, 80)],
     repairing |-> [subCategory |-> Text(20, REPAIR_SUB_CATEGORIES),
                    durationLabel |-> Text(40, {}),
                    warrantyLabel |-> Text(40, {})],
     car_rental |-> [subCategory |-> Text(20, RENTAL_SUB_CATEGORIES),
                     seats |-> Whole(1, 60),
                     transmission |-> Text(20, {"MANUAL", "AUTOMATIC"}),
                     fuel |-> Text(20, {"PETROL", "DIESEL", "ELECTRIC", "HYBRID"})],
     elkstay |-> [roomType |-> Text(40, {}),
                  stayType |-> Text(20, {"PG", "MENS_HOSTEL", "WOMENS_HOSTEL", "HOMESTAY"}),
                  depositAmount |-> Whole(0, 10000000),
                  furnished |-> TrueFalse]]

\* The keys a category knows; a category of before the check knows none.
KeysOf(category) ==
    IF category \in DOMAIN ATTRIBUTE_SCHEMA THEN DOMAIN ATTRIBUTE_SCHEMA[category] ELSE {}

\* check(): whether the value passes.
Check(spec, value) ==
    CASE spec.kind = "string" -> /\ value.type = "string"
                                 /\ value.length <= spec.maxLength
                                 /\ spec.oneOf # {} => value.text \in spec.oneOf
      [] spec.kind = "int" -> value.type = "number" /\ value.whole /\ value.n \in spec.min .. spec.max
      [] spec.kind = "boolean" -> value.type = "boolean"
      [] spec.kind = "stringList" -> /\ value.type = "list"
                                     /\ value.entries <= spec.maxItems
                                     /\ value.allText /\ value.longest <= spec.maxLength

NoAttributes == [k \in {} |-> k]

ValidateAdAttributes_UnknownFirst(category, raw) ==  \* as if values were only checked once no key is unknown
    LET known == DOMAIN raw \cap KeysOf(category)
        given == {k \in known : raw[k].type # "null"}
        bad == IF DOMAIN raw \ known # {} THEN DOMAIN raw \ known
               ELSE {k \in given : ~Check(ATTRIBUTE_SCHEMA[category][k], raw[k])}
    IN  [errors |-> bad, stored |-> IF bad = {} THEN Restrict(raw, given) ELSE NoAttributes]

\* The keys with a problem, and what is stored when there is none: the keys
\* that are known and not null.  Storing nothing is storing SQL NULL.
ValidateAdAttributes(category, raw) ==
    LET known == DOMAIN raw \cap KeysOf(category)
        given == {k \in known : raw[k].type # "null"}
        bad == {k \in given : ~Check(ATTRIBUTE_SCHEMA[category][k], raw[k])} \cup (DOMAIN raw \ known)
    IN  [errors |-> bad, stored |-> IF bad = {} THEN Restrict(raw, given) ELSE NoAttributes]
=============================================================================
