------------------------------- MODULE Places -------------------------------
(***************************************************************************)
(* PlacesService: a suggestion or a GPS point resolved to a named place by *)
(* Google, through the Redis cache.  A step is one call to Redis or to     *)
(* Google.  Texts are model values; a coordinate is one integer, in units  *)
(* ten times finer than the cache's.                                       *)
(***************************************************************************)
EXTENDS Integers, SequencesExt

CONSTANTS
    Ids,       \* Google's place ids
    Points,    \* coordinates a phone sends
    Answers,   \* lists of components Google may give, each [text, types]
    Kinds,     \* the types Google may give the result itself
    Lookups,   \* slots for requests
    Nowhere    \* no place

\* What the constants must satisfy.
PlacesAssumption == Points \subseteq Nat /\ Nowhere \notin Ids

VARIABLES
    cache,  \* the entries of Redis under places:
    look    \* requests in flight

vars == <<cache, look>>

(***************************************************************************)
(* Naming what Google returned                                             *)
(***************************************************************************)

PLACE_TYPES == <<"locality", "city", "district", "state", "country">>

\* The component types that name each level, the preferred one first.
CHAIN == [locality |-> <<"sublocality_level_1", "sublocality", "neighborhood">>,
          city |-> <<"locality">>,
          district |-> <<"administrative_area_level_3", "administrative_area_level_2">>,
          state |-> <<"administrative_area_level_1">>,
          country |-> <<"country">>]

\* The first type of the chain that some component has; {} for null.
pick(components, chain) ==
    LET has(type) == SelectInSeq(components, LAMBDA c : type \in c.types)
        first == SelectInSeq(chain, LAMBDA type : has(type) # 0)
    IN  IF first = 0 THEN {} ELSE {components[has(chain[first])].text}

levels(components) == [level \in DOMAIN CHAIN |-> pick(components, CHAIN[level])]

finestLevel(named) ==
    LET i == SelectInSeq(PLACE_TYPES, LAMBDA level : named[level] # {})
    IN  IF i = 0 THEN "country" ELSE PLACE_TYPES[i]

\* The level of a result that is an administrative area itself; {} for null.
resolveType(types) ==
    LET i == SelectInSeq(PLACE_TYPES, LAMBDA level : Range(CHAIN[level]) \cap types # {})
    IN  IF i = 0 THEN {} ELSE {PLACE_TYPES[i]}

\* A header's label: the first that there is.
Label(candidates) == LET i == SelectInSeq(candidates, LAMBDA c : c # {})
                     IN  IF i = 0 THEN {"address"} ELSE candidates[i]

fromPlaceDetails(id, components) ==
    LET named == levels(components)
    IN  [of |-> id, type |-> finestLevel(named), levels |-> named,
         name |-> Label(<<{"displayName"}, named.locality, named.city>>)]

fromGeocode(point, types, components) ==
    LET named == levels(components)
        own == resolveType(types)
    IN  [of |-> point, type |-> IF own = {} THEN finestLevel(named) ELSE CHOOSE t \in own : TRUE,
         levels |-> named, name |-> Label(<<named.locality, named.city>>)]

(***************************************************************************)
(* Looking one up                                                          *)
(***************************************************************************)

toFixed_Coarse(point) == (point + 50) \div 100  \* as if one decimal fewer were kept

\* Four decimals, about 11 m.
toFixed(point) == (point + 5) \div 10

Key(r) == IF r.kind = "id" THEN <<"id", r.what>> ELSE <<"rev", toFixed(r.what)>>
Keys == {<<"id", id>> : id \in Ids} \cup {<<"rev", toFixed(p)>> : p \in Points}

\* A slot without a request.  found is the place, asked whether Google was.
NoLookup == [pc |-> "idle", kind |-> "id", what |-> Nowhere, found |-> {}, asked |-> FALSE]

Init ==
    /\ cache = [k \in Keys |-> {}]
    /\ look = [l \in Lookups |-> NoLookup]

Start(l, kind, what) ==
    /\ look[l].pc = "idle"
    /\ look' = [look EXCEPT ![l] = [NoLookup EXCEPT !.pc = "cache", !.kind = kind, !.what = what]]
    /\ UNCHANGED cache

Details(l, id) == Start(l, "id", id)
ReverseLookup(l, point) == Start(l, "rev", point)

\* CacheService.get: an error reads as a miss.
CacheGet(l, broken) ==
    /\ look[l].pc = "cache"
    /\ LET hit == IF broken THEN {} ELSE cache[Key(look[l])]
       IN  look' = [look EXCEPT ![l].pc = IF hit # {} THEN "done" ELSE "ask", ![l].found = hit]
    /\ UNCHANGED cache

\* Google answers.
Answered(l, place) ==
    /\ look[l].pc = "ask"
    /\ look' = [look EXCEPT ![l].pc = "store", ![l].found = {place}, ![l].asked = TRUE]
    /\ UNCHANGED cache

PlaceDetails(l, components) ==
    /\ look[l].kind = "id"
    /\ Answered(l, fromPlaceDetails(look[l].what, components))

ReverseGeocode(l, types, components) ==
    /\ look[l].kind = "rev"
    /\ Answered(l, fromGeocode(look[l].what, types, components))

\* Google knows no such place, or it cannot be reached, refuses or answers
\* nonsense: the request fails.
NoAnswer(l) ==
    /\ look[l].pc = "ask"
    /\ look' = [look EXCEPT ![l].pc = "done", ![l].asked = TRUE]
    /\ UNCHANGED cache

\* CacheService.set: an error is only logged.
CacheSet(l, broken) ==
    /\ look[l].pc = "store"
    /\ cache' = IF broken THEN cache ELSE [cache EXCEPT ![Key(look[l])] = look[l].found]
    /\ look' = [look EXCEPT ![l].pc = "done"]

Reply(l) ==
    /\ look[l].pc = "done"
    /\ look' = [look EXCEPT ![l] = NoLookup]
    /\ UNCHANGED cache

\* Thirty days have passed, or Redis made room.
Expire(k) ==
    /\ cache[k] # {}
    /\ cache' = [cache EXCEPT ![k] = {}]
    /\ UNCHANGED look

Next ==
    \/ \E l \in Lookups :
          \/ \E id \in Ids : Details(l, id)
          \/ \E point \in Points : ReverseLookup(l, point)
          \/ \E broken \in BOOLEAN : CacheGet(l, broken) \/ CacheSet(l, broken)
          \/ \E components \in Answers : PlaceDetails(l, components)
          \/ \E types \in Kinds, components \in Answers : ReverseGeocode(l, types, components)
          \/ NoAnswer(l)
          \/ Reply(l)
    \/ \E k \in Keys : Expire(k)

Spec == Init /\ [][Next]_vars

(***************************************************************************)
(* Properties                                                              *)
(***************************************************************************)

\* Places are only kept and returned as the API describes them.
TypeOK ==
    \A k \in Keys : \A place \in cache[k] :
        /\ place.type \in Range(PLACE_TYPES)
        /\ \A level \in DOMAIN CHAIN : Cardinality(place.levels[level]) <= 1
        /\ Cardinality(place.name) = 1

\* A place returned is the one asked for, or for a GPS point one within the
\* "~11 m" of an entry, whoever filled the cache: "neighbouring streets stay
\* distinct".
AnswerIsOfThePlace ==
    \A l \in Lookups : look[l].pc = "done" => \A place \in look[l].found :
        IF look[l].kind = "id" THEN place.of = look[l].what
        ELSE place.of - look[l].what \in -9..9

\* "A broken cache must degrade performance, not availability": a request only
\* fails after Google was asked and gave no answer.
OnlyGoogleRefuses == \A l \in Lookups : look[l].pc = "done" /\ look[l].found = {} => look[l].asked

\* The type is the "Finest level this result names": of a suggestion's levels
\* no finer one has a name.
TypeIsFinest ==
    \A k \in Keys : k[1] = "id" => \A place \in cache[k] :
        LET at == CHOOSE i \in 1..5 : PLACE_TYPES[i] = place.type
        IN  /\ \A i \in 1..(at - 1) : place.levels[PLACE_TYPES[i]] = {}
            /\ (\E i \in 1..5 : place.levels[PLACE_TYPES[i]] # {}) => place.levels[place.type] # {}
=============================================================================
