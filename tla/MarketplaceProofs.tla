------------------------- MODULE MarketplaceProofs -------------------------
(***************************************************************************)
(* Marketplace's invariants for any number of people, requests, forms and  *)
(* photos.  The counters are right whoever edits; that the details fit the *)
(* category and the photos are of one request needs that the seller edits  *)
(* from one device at a time (OneEditor).                                  *)
(* The last part is about the program's rules, of listings and bookings,   *)
(* for any inputs.                                                         *)
(***************************************************************************)
EXTENDS Marketplace, Rules, FiniteSetTheorems, WellFoundedInduction, TLAPS

\* The details that can be stored: some of those a form sent.
Details == {NoAttributes} \cup {Restrict(f, S) : f \in Forms, S \in SUBSET UNION {DOMAIN g : g \in Forms}}

Ad == [state : {"absent", "stored"}, category : AD_CATEGORIES \cup {Legacy}, status : AdStatus,
       deleted : BOOLEAN, attributes : Details, images : SUBSET UNION Photos, viewCount : Nat, wishlistCount : Nat]

\* The taps between the two statements of a removal from a wishlist.
Counting == {t \in Taps : tap[t].pc = "countDown"}

\* Before the first row nobody has opened it.
NoneBefore ==
    ad.state = "absent" =>
        /\ ad.viewCount = 0 /\ ad.wishlistCount = 0
        /\ \A t \in Taps : tap[t].pc = "idle"

\* For any number of editors.
CountsInv ==
    /\ TypeOK
    /\ ad \in Ad
    /\ slips \in Nat
    /\ IsFiniteSet(views) /\ IsFiniteSet(saves) /\ IsFiniteSet(Counting)
    /\ \A t \in Taps : tap[t].pc # "idle" => tap[t].user \in Users
    /\ CountersCountPeople

\* What an edit has read still holds, when nobody else edits.
EditKnows(e) ==
    /\ edit[e].pc \in {"clear", "update"} =>
          /\ ad.state = "stored"
          /\ edit[e].seen = ad.category
          /\ AttributesToWrite(edit[e].dto, edit[e].seen).errors = {}
    /\ edit[e].pc = "update" /\ edit[e].dto.images # {} => ad.images = {}

EditsInv ==
    /\ \A e \in Editors : EditKnows(e)
    /\ PhotosAreOfOneEdit
    /\ DetailsFitCategory

OneEditor == \A e, f \in Editors : e = f

(***************************************************************************)
(* What a form says                                                        *)
(***************************************************************************)

\* A field left out keeps what there is; a field given is what was sent.
LEMMA GivenFacts ==
  ASSUME NEW S, NEW field \in Optional(S), NEW default
  PROVE  \/ field = {} /\ Given(field, default) = default
         \/ field # {} /\ Given(field, default) \in S
BY DEF Optional, Given

\* No details have no problem, in any category.
LEMMA NoDetailsFit ==
  ASSUME NEW category
  PROVE  ValidateAdAttributes(category, NoAttributes) = [errors |-> {}, stored |-> NoAttributes]
<1>1. DOMAIN NoAttributes = {}
  BY DEF NoAttributes
<1>2. Restrict(NoAttributes, {}) = NoAttributes
  BY DEF NoAttributes, Restrict
<1> QED BY <1>1, <1>2 DEF ValidateAdAttributes

\* What the validation stores passes it again, and is stored as it is: an
\* edit form can send back what it was given.
LEMMA StoredFits ==
  ASSUME NEW category, NEW raw, ValidateAdAttributes(category, raw).errors = {}
  PROVE  LET stored == ValidateAdAttributes(category, raw).stored
         IN  ValidateAdAttributes(category, stored) = [errors |-> {}, stored |-> stored]
<1> DEFINE known == DOMAIN raw \cap KeysOf(category)
           given == {k \in known : raw[k].type # "null"}
           bad == {k \in given : ~Check(ATTRIBUTE_SCHEMA[category][k], raw[k])} \cup (DOMAIN raw \ known)
           stored == Restrict(raw, given)
<1>1. bad = {} /\ ValidateAdAttributes(category, raw).stored = stored
  BY DEF ValidateAdAttributes
<1>2. DOMAIN stored = given /\ \A k \in given : stored[k] = raw[k]
  BY DEF Restrict
<1>3. \A k \in given : k \in KeysOf(category) /\ raw[k].type # "null" /\ Check(ATTRIBUTE_SCHEMA[category][k], raw[k])
  BY <1>1
<1>4. DOMAIN stored \cap KeysOf(category) = given
  BY <1>2, <1>3
<1>5. {k \in given : stored[k].type # "null"} = given
  BY <1>2, <1>3
<1>6. {k \in given : ~Check(ATTRIBUTE_SCHEMA[category][k], stored[k])} \cup (DOMAIN stored \ given) = {}
  BY <1>2, <1>3
<1>7. Restrict(stored, given) = stored
  BY <1>2 DEF Restrict
<1> HIDE DEF known, given, stored, bad
<1>8. ValidateAdAttributes(category, stored) = [errors |-> {}, stored |-> stored]
  BY <1>4, <1>5, <1>6, <1>7 DEF ValidateAdAttributes
<1> QED BY <1>1, <1>8

Fits(category, details) ==
    ValidateAdAttributes(category, details) = [errors |-> {}, stored |-> details]

\* Details that pass are stored as some of what the form sent, and fit.
LEMMA CheckedFacts ==
  ASSUME NEW category, NEW raw \in Forms \cup {NoAttributes}
  PROVE  LET checked == ValidateAdAttributes(category, raw)
         IN  /\ checked.stored \in Details
             /\ checked.errors = {} => Fits(category, checked.stored)
<1> DEFINE known == DOMAIN raw \cap KeysOf(category)
           given == {k \in known : raw[k].type # "null"}
           checked == ValidateAdAttributes(category, raw)
<1>1. checked.stored = NoAttributes \/ checked.stored = Restrict(raw, given)
  BY DEF ValidateAdAttributes
<1>2. CASE raw = NoAttributes
  BY <1>2, NoDetailsFit DEF Details, Fits
<1>3. CASE raw \in Forms
  <2>1. given \in SUBSET UNION {DOMAIN g : g \in Forms}
    BY <1>3
  <2>2. checked.stored \in Details
    BY <1>1, <1>3, <2>1 DEF Details
  <2> QED BY <2>2, StoredFits DEF Fits
<1> QED BY <1>2, <1>3

\* What an update writes: nothing, when the category stays; otherwise details
\* that fit the category the listing will have.
LEMMA WriteFacts ==
  ASSUME NEW dto \in UpdateAdDto, NEW seen
  PROVE  LET category == Given(dto.category, seen)
             w == AttributesToWrite(dto, seen)
         IN  \/ w.write = {} /\ category = seen
             \/ \E details \in Details : /\ w.write = {details}
                                         /\ w.errors = {} => Fits(category, details)
<1> DEFINE category == Given(dto.category, seen)
           raw == Given(dto.attributes, NoAttributes)
           checked == ValidateAdAttributes(category, raw)
<1>1. dto.attributes \in Optional(Forms)
  BY DEF UpdateAdDto
<1>2. CASE dto.attributes = {}
  <2>1. AttributesToWrite(dto, seen) = [errors |-> {}, write |-> IF category # seen THEN {NoAttributes} ELSE {}]
    BY <1>2 DEF AttributesToWrite
  <2>2. NoAttributes \in Details /\ Fits(category, NoAttributes)
    BY NoDetailsFit DEF Details, Fits
  <2> QED BY <2>1, <2>2
<1>3. CASE dto.attributes # {}
  <2>1. AttributesToWrite(dto, seen) = [errors |-> checked.errors, write |-> {checked.stored}]
    BY <1>3 DEF AttributesToWrite
  <2>2. raw \in Forms
    BY <1>1, <1>3, GivenFacts
  <2>3. checked.stored \in Details /\ (checked.errors = {} => Fits(category, checked.stored))
    BY <2>2, CheckedFacts
  <2> QED BY <2>1, <2>3
<1> QED BY <1>2, <1>3

\* The row after an update.
LEMMA EditedFacts ==
  ASSUME ad \in Ad, NEW dto \in UpdateAdDto, NEW seen
  PROVE  LET w == AttributesToWrite(dto, seen)
             row == Edited(dto, w.write)
         IN  /\ row \in Ad
             /\ row.state = ad.state
             /\ row.viewCount = ad.viewCount /\ row.wishlistCount = ad.wishlistCount
             /\ row.category = Given(dto.category, ad.category)
             /\ row.attributes = Given(w.write, ad.attributes)
             /\ row.images = ad.images \cup Given(dto.images, {})
<1> DEFINE w == AttributesToWrite(dto, seen)
           category == Given(dto.category, ad.category)
           status == Given(dto.status, ad.status)
           attributes == Given(w.write, ad.attributes)
           images == ad.images \cup Given(dto.images, {})
<1>1. /\ dto.category \in Optional(AD_CATEGORIES) /\ dto.status \in Optional(AdStatus)
      /\ dto.images \in Optional(Photos)
  BY DEF UpdateAdDto
<1>2. category \in AD_CATEGORIES \cup {Legacy}
  BY <1>1, GivenFacts DEF Ad
<1>3. status \in AdStatus
  BY <1>1, GivenFacts DEF Ad
<1>4. attributes \in Details
  <2>1. w.write = {} \/ \E details \in Details : w.write = {details}
    BY WriteFacts
  <2> QED BY <2>1 DEF Given, Ad
<1>5. images \in SUBSET UNION Photos
  BY <1>1, GivenFacts DEF Ad
<1>6. Edited(dto, w.write) = [ad EXCEPT !.category = category, !.status = status,
                                        !.attributes = attributes, !.images = images]
  BY DEF Edited
<1> HIDE DEF w, category, status, attributes, images
<1>7. Edited(dto, w.write) \in Ad
  BY <1>2, <1>3, <1>4, <1>5, <1>6 DEF Ad
<1> QED BY <1>6, <1>7 DEF Ad, w, category, attributes, images

(***************************************************************************)
(* The counters, for any number of editors                                 *)
(***************************************************************************)

EditReq == [pc : {"idle", "clear", "update", "delete"}, dto : UpdateAdDto, seen : AD_CATEGORIES \cup {Legacy}]
TapReq == [pc : {"idle", "findView", "view", "findSave", "save", "unsave", "countDown"}, user : Users \cup {Nobody}]

LEMMA IdleFacts ==
  /\ IdleEdit \in EditReq /\ IdleEdit.pc = "idle"
  /\ IdleTap \in TapReq /\ IdleTap.pc = "idle"
BY DEF IdleEdit, EditReq, IdleTap, TapReq, NoChanges, UpdateAdDto, Optional

\* What the seller's side does never touches a counter or what it counts.
LEMMA SellerKeeps ==
  ASSUME CountsInv, ad' \in Ad, ad'.viewCount = ad.viewCount, ad'.wishlistCount = ad.wishlistCount,
         edit' \in [Editors -> EditReq], UNCHANGED <<views, saves, tap, slips>>
  PROVE  CountsInv'
<1>1. TypeOK'
  BY DEF CountsInv, TypeOK, Ad, EditReq
<1>2. Counting' = Counting
  BY DEF Counting
<1> QED BY <1>1, <1>2 DEF CountsInv, CountersCountPeople, Counting

\* A buyer's step that moves its request but not to or from the count.
LEMMA TapMoves ==
  ASSUME CountsInv, NEW t \in Taps, NEW x \in TapReq, tap' = [tap EXCEPT ![t] = x],
         x.pc # "countDown", tap[t].pc # "countDown", x.pc # "idle" => x.user \in Users
  PROVE  /\ tap' \in [Taps -> TapReq] /\ Counting' = Counting
         /\ \A q \in Taps : tap'[q].pc # "idle" => tap'[q].user \in Users
<1>1. tap \in [Taps -> TapReq] /\ \A q \in Taps : tap'[q] = IF q = t THEN x ELSE tap[q]
  BY DEF CountsInv, TypeOK, TapReq
<1> QED BY <1>1 DEF CountsInv, Counting

\* A buyer's step that only reads.
LEMMA TapReads ==
  ASSUME CountsInv, NEW t \in Taps, NEW x \in TapReq, tap' = [tap EXCEPT ![t] = x],
         x.pc # "countDown", tap[t].pc # "countDown", x.pc # "idle" => x.user \in Users,
         UNCHANGED <<ad, views, saves, edit, slips>>
  PROVE  CountsInv'
<1>1. /\ tap' \in [Taps -> TapReq] /\ Counting' = Counting
      /\ \A q \in Taps : tap'[q].pc # "idle" => tap'[q].user \in Users
  BY TapMoves
<1>2. TypeOK'
  BY <1>1 DEF CountsInv, TypeOK, TapReq
<1> QED BY <1>1, <1>2 DEF CountsInv, CountersCountPeople, Counting

LEMMA TapStep ==
  ASSUME CountsInv, NEW t \in Taps, NEW u \in Users, NEW pc \in {"findView", "findSave", "unsave"}, Tap(t, u, pc)
  PROVE  CountsInv'
<1>1. [pc |-> pc, user |-> u] \in TapReq
  BY DEF TapReq
<1> QED BY <1>1, TapReads DEF Tap

LEMMA FindStep ==
  ASSUME CountsInv, NEW t \in Taps, NEW rows,
         NEW pc \in {"findView", "findSave"}, NEW next \in {"view", "save"}, Find(t, pc, rows, next)
  PROVE  CountsInv'
<1> DEFINE x == [tap[t] EXCEPT !.pc = next]
<1>1. tap[t] \in TapReq /\ tap[t].pc = pc /\ tap[t].user \in Users
  BY DEF CountsInv, TypeOK, TapReq, Find
<1>2. x \in TapReq /\ x.pc = next /\ x.user = tap[t].user
  BY <1>1 DEF TapReq
<1>3. tap' = [tap EXCEPT ![t] = IdleTap] \/ tap' = [tap EXCEPT ![t] = x]
  BY DEF Find
<1>4. UNCHANGED <<ad, views, saves, edit, slips>>
  BY DEF Find
<1> HIDE DEF x
<1> QED BY <1>1, <1>2, <1>3, <1>4, IdleFacts, TapReads

\* The row of the view and the counter are one transaction, and the index
\* refuses a second row of one user.
LEMMA ViewStep ==
  ASSUME CountsInv, NEW t \in Taps, RecordView(t) PROVE CountsInv'
<1> DEFINE u == tap[t].user
<1>1. tap[t].pc = "view" /\ u \in Users /\ tap' = [tap EXCEPT ![t] = IdleTap] /\ UNCHANGED <<saves, edit, slips>>
  BY DEF CountsInv, RecordView
<1>2. /\ tap' \in [Taps -> TapReq] /\ Counting' = Counting
      /\ \A q \in Taps : tap'[q].pc # "idle" => tap'[q].user \in Users
  BY <1>1, IdleFacts, TapMoves
<1>3. /\ ad' \in Ad /\ views' \subseteq Users /\ IsFiniteSet(views')
      /\ ad'.wishlistCount = ad.wishlistCount /\ ad'.viewCount = Cardinality(views')
  <2>1. CASE u \in views
    <3>1. UNCHANGED <<ad, views>>
      BY <2>1 DEF RecordView
    <3> QED BY <3>1 DEF CountsInv, TypeOK, CountersCountPeople
  <2>2. CASE u \notin views
    <3>1. views' = views \cup {u} /\ ad' = [ad EXCEPT !.viewCount = @ + 1]
      BY <2>2 DEF RecordView
    <3>2. IsFiniteSet(views') /\ Cardinality(views') = Cardinality(views) + 1
      BY <2>2, <3>1, FS_AddElement DEF CountsInv
    <3> QED BY <1>1, <3>1, <3>2 DEF CountsInv, TypeOK, CountersCountPeople, Ad
  <2> QED BY <2>1, <2>2
<1>4. TypeOK'
  BY <1>1, <1>2, <1>3 DEF CountsInv, TypeOK, TapReq, Ad
<1> QED BY <1>1, <1>2, <1>3, <1>4 DEF CountsInv, CountersCountPeople, Counting

LEMMA SaveStep ==
  ASSUME CountsInv, NEW t \in Taps, AddToWishlist(t) PROVE CountsInv'
<1> DEFINE u == tap[t].user
<1>1. tap[t].pc = "save" /\ u \in Users /\ tap' = [tap EXCEPT ![t] = IdleTap] /\ UNCHANGED <<views, edit, slips>>
  BY DEF CountsInv, AddToWishlist
<1>2. /\ tap' \in [Taps -> TapReq] /\ Counting' = Counting
      /\ \A q \in Taps : tap'[q].pc # "idle" => tap'[q].user \in Users
  BY <1>1, IdleFacts, TapMoves
<1>3. /\ ad' \in Ad /\ saves' \subseteq Users /\ IsFiniteSet(saves') /\ ad'.viewCount = ad.viewCount
      /\ ad'.wishlistCount = Cardinality(saves') + Cardinality(Counting) + slips
  <2>1. CASE u \in saves
    <3>1. UNCHANGED <<ad, saves>>
      BY <2>1 DEF AddToWishlist
    <3> QED BY <3>1 DEF CountsInv, TypeOK, CountersCountPeople, Counting
  <2>2. CASE u \notin saves
    <3>1. saves' = saves \cup {u} /\ ad' = [ad EXCEPT !.wishlistCount = @ + 1]
      BY <2>2 DEF AddToWishlist
    <3>2. IsFiniteSet(saves') /\ Cardinality(saves') = Cardinality(saves) + 1
      BY <2>2, <3>1, FS_AddElement DEF CountsInv
    <3>3. /\ Cardinality(saves) \in Nat /\ Cardinality(Counting) \in Nat /\ slips \in Nat
          /\ ad.wishlistCount = Cardinality(saves) + Cardinality(Counting) + slips
      BY FS_CardinalityType DEF CountsInv, CountersCountPeople, Counting
    <3> QED BY <1>1, <3>1, <3>2, <3>3 DEF CountsInv, TypeOK, Ad
  <2> QED BY <2>1, <2>2
<1>4. TypeOK'
  BY <1>1, <1>2, <1>3 DEF CountsInv, TypeOK, TapReq, Ad
<1> QED BY <1>1, <1>2, <1>3, <1>4 DEF CountsInv, CountersCountPeople, Counting

\* The delete commits by itself: one saved less, one to count.
LEMMA UnsaveStep ==
  ASSUME CountsInv, NEW t \in Taps, RemoveFromWishlist(t) PROVE CountsInv'
<1> DEFINE u == tap[t].user
           x == [tap[t] EXCEPT !.pc = "countDown"]
<1>1. /\ tap[t].pc = "unsave" /\ u \in Users /\ tap[t] \in TapReq /\ tap \in [Taps -> TapReq]
      /\ saves' = saves \ {u} /\ UNCHANGED <<ad, views, edit, slips>>
  BY DEF CountsInv, TypeOK, TapReq, RemoveFromWishlist
<1>2. CASE u \notin saves
  <2>1. saves' = saves /\ tap' = [tap EXCEPT ![t] = IdleTap]
    BY <1>1, <1>2 DEF RemoveFromWishlist
  <2> QED BY <1>1, <2>1, IdleFacts, TapReads
<1>3. CASE u \in saves
  <2>1. x \in TapReq /\ x.pc = "countDown" /\ x.user = u
    BY <1>1 DEF TapReq
  <2>2. tap' = [tap EXCEPT ![t] = x]
    BY <1>3 DEF RemoveFromWishlist
  <2> HIDE DEF x
  <2>3. tap' \in [Taps -> TapReq] /\ \A q \in Taps : tap'[q] = IF q = t THEN x ELSE tap[q]
    BY <1>1, <2>1, <2>2
  <2>4. Counting' = Counting \cup {t} /\ t \notin Counting
    BY <1>1, <2>1, <2>3 DEF Counting
  <2>5. IsFiniteSet(Counting') /\ Cardinality(Counting') = Cardinality(Counting) + 1
    BY <2>4, FS_AddElement DEF CountsInv
  <2>6. IsFiniteSet(saves') /\ Cardinality(saves') = Cardinality(saves) - 1
    BY <1>1, <1>3, FS_RemoveElement DEF CountsInv
  <2>7. Cardinality(saves) \in Nat /\ Cardinality(Counting) \in Nat
    BY FS_CardinalityType DEF CountsInv
  <2>8. CountersCountPeople'
    BY <1>1, <2>5, <2>6, <2>7 DEF CountsInv, CountersCountPeople, Counting
  <2>9. TypeOK' /\ \A q \in Taps : tap'[q].pc # "idle" => tap'[q].user \in Users
    BY <1>1, <2>1, <2>3 DEF CountsInv, TypeOK, TapReq
  <2> QED BY <1>1, <2>5, <2>6, <2>8, <2>9 DEF CountsInv
<1> QED BY <1>2, <1>3

\* A tap that leaves the count, whatever it leaves it for.
LEMMA StopsCounting ==
  ASSUME CountsInv, NEW t \in Taps, tap[t].pc = "countDown", tap' = [tap EXCEPT ![t] = IdleTap]
  PROVE  /\ tap' \in [Taps -> TapReq]
         /\ \A q \in Taps : tap'[q].pc # "idle" => tap'[q].user \in Users
         /\ IsFiniteSet(Counting') /\ Cardinality(Counting') = Cardinality(Counting) - 1
         /\ Cardinality(Counting') \in Nat /\ Cardinality(saves) \in Nat
<1>1. tap \in [Taps -> TapReq]
  BY DEF CountsInv, TypeOK, TapReq
<1>2. tap' \in [Taps -> TapReq] /\ \A q \in Taps : tap'[q] = IF q = t THEN IdleTap ELSE tap[q]
  BY <1>1, IdleFacts
<1>3. Counting' = Counting \ {t} /\ t \in Counting
  BY <1>2, IdleFacts DEF Counting
<1>4. IsFiniteSet(Counting') /\ Cardinality(Counting') = Cardinality(Counting) - 1
  BY <1>3, FS_RemoveElement DEF CountsInv
<1>5. \A q \in Taps : tap'[q].pc # "idle" => tap'[q].user \in Users
  BY <1>2, IdleFacts DEF CountsInv
<1> QED BY <1>2, <1>4, <1>5, FS_CardinalityType DEF CountsInv

LEMMA CountDownStep ==
  ASSUME CountsInv, NEW t \in Taps, CountDown(t) PROVE CountsInv'
<1>1. /\ tap[t].pc = "countDown" /\ tap' = [tap EXCEPT ![t] = IdleTap] /\ UNCHANGED <<views, saves, edit, slips>>
      /\ ad' = [ad EXCEPT !.wishlistCount = IF @ > 0 THEN @ - 1 ELSE @]
  BY DEF CountDown
<1>2. /\ tap' \in [Taps -> TapReq] /\ \A q \in Taps : tap'[q].pc # "idle" => tap'[q].user \in Users
      /\ IsFiniteSet(Counting') /\ Cardinality(Counting') = Cardinality(Counting) - 1
      /\ Cardinality(Counting') \in Nat /\ Cardinality(saves) \in Nat
  BY <1>1, StopsCounting
<1>3. /\ ad \in Ad /\ slips \in Nat /\ ad.viewCount = Cardinality(views)
      /\ ad.wishlistCount = Cardinality(saves) + Cardinality(Counting) + slips
      /\ Cardinality(Counting) \in Nat /\ ad.wishlistCount \in Nat
  BY FS_CardinalityType DEF CountsInv, CountersCountPeople, Counting, Ad
<1> DEFINE c == Cardinality(Counting)
           d == Cardinality(Counting')
           s == Cardinality(saves)
<1>4. ad.wishlistCount > 0 /\ ad.wishlistCount - 1 = s + d + slips /\ ad.wishlistCount - 1 \in Nat
  <2>1. c \in Nat /\ d \in Nat /\ s \in Nat /\ d = c - 1 /\ ad.wishlistCount = s + c + slips
    BY <1>2, <1>3
  <2> HIDE DEF c, d, s
  <2> QED BY <1>3, <2>1
<1> HIDE DEF c, d, s
<1>5. ad' = [ad EXCEPT !.wishlistCount = ad.wishlistCount - 1]
  BY <1>1, <1>4
<1>6. /\ ad' \in Ad /\ ad'.viewCount = ad.viewCount
      /\ ad'.wishlistCount = Cardinality(saves) + Cardinality(Counting') + slips
  BY <1>3, <1>4, <1>5 DEF Ad, s, d
<1>7. TypeOK'
  BY <1>1, <1>2, <1>6 DEF CountsInv, TypeOK, TapReq, Ad
<1>8. CountersCountPeople'
  BY <1>1, <1>3, <1>6 DEF CountersCountPeople, Counting
<1> QED BY <1>1, <1>2, <1>6, <1>7, <1>8 DEF CountsInv

\* A removal that dies between its statements leaves the counter ahead by one.
LEMMA AbortTapStep ==
  ASSUME CountsInv, NEW t \in Taps, AbortTap(t) PROVE CountsInv'
<1>1. tap' = [tap EXCEPT ![t] = IdleTap] /\ UNCHANGED <<ad, views, saves, edit>>
  BY DEF AbortTap
<1>2. CASE tap[t].pc # "countDown"
  BY <1>1, <1>2, IdleFacts, TapReads DEF AbortTap
<1>3. CASE tap[t].pc = "countDown"
  <2>1. /\ tap' \in [Taps -> TapReq] /\ \A q \in Taps : tap'[q].pc # "idle" => tap'[q].user \in Users
        /\ IsFiniteSet(Counting') /\ Cardinality(Counting') = Cardinality(Counting) - 1
        /\ Cardinality(Counting') \in Nat /\ Cardinality(saves) \in Nat
    BY <1>1, <1>3, StopsCounting
  <2>2. slips \in Nat /\ slips' = slips + 1
    BY <1>3 DEF AbortTap, CountsInv
  <2>3. TypeOK'
    BY <1>1, <2>1 DEF CountsInv, TypeOK, TapReq
  <2>4. CountersCountPeople'
    <3>1. ad.wishlistCount = Cardinality(saves) + Cardinality(Counting) + slips /\ Cardinality(Counting) \in Nat
      BY FS_CardinalityType DEF CountsInv, CountersCountPeople, Counting
    <3>2. ad.wishlistCount = Cardinality(saves) + Cardinality(Counting') + slips'
      BY <2>1, <2>2, <3>1
    <3> QED BY <1>1, <3>2 DEF CountsInv, CountersCountPeople, Counting
  <2> QED BY <1>1, <2>1, <2>2, <2>3, <2>4 DEF CountsInv
<1> QED BY <1>2, <1>3

LEMMA BuyerKeepsCounts ==
  ASSUME CountsInv, NEW t \in Taps, BuyerStep(t) PROVE CountsInv'
<1>1. ASSUME NEW u \in Users, Detail(t, u) PROVE CountsInv'
  BY <1>1, TapStep DEF Detail
<1>2. ASSUME NEW u \in Users, NEW wishlisted \in BOOLEAN, SetWishlisted(t, u, wishlisted) PROVE CountsInv'
  BY <1>2, TapStep DEF SetWishlisted
<1>3. ASSUME FindView(t) \/ FindSave(t) PROVE CountsInv'
  BY <1>3, FindStep DEF FindView, FindSave
<1> QED BY <1>1, <1>2, <1>3, ViewStep, SaveStep, UnsaveStep, CountDownStep, AbortTapStep DEF BuyerStep

\* A request of the seller's side that goes on, or ends.
LEMMA EditMoves ==
  ASSUME CountsInv, NEW e \in Editors, NEW x \in EditReq, edit' = [edit EXCEPT ![e] = x],
         UNCHANGED <<ad, views, saves, tap, slips>>
  PROVE  CountsInv'
<1>1. edit \in [Editors -> EditReq]
  BY DEF CountsInv, TypeOK, EditReq
<1>2. edit' \in [Editors -> EditReq]
  BY <1>1
<1> QED BY <1>2, SellerKeeps DEF CountsInv

LEMMA NoAdFacts == NoAd \in Ad /\ NoAd.viewCount = 0 /\ NoAd.wishlistCount = 0
BY DEF NoAd, Ad, Details, AdStatus

\* The row of a new listing.
LEMMA NewAdFacts ==
  ASSUME NEW dto \in CreateAdDto
  PROVE  LET checked == ValidateAdAttributes(dto.category, Given(dto.attributes, NoAttributes))
             row == NewAd(dto, checked.stored)
         IN  /\ row \in Ad
             /\ row.viewCount = 0 /\ row.wishlistCount = 0
             /\ row.category = dto.category /\ row.attributes = checked.stored
             /\ row.images = Given(dto.images, {})
             /\ checked.errors = {} => Fits(dto.category, checked.stored)
<1> DEFINE raw == Given(dto.attributes, NoAttributes)
           checked == ValidateAdAttributes(dto.category, raw)
           details == checked.stored
           status == Given(dto.status, "ACTIVE")
           images == Given(dto.images, {})
<1>1. /\ dto.category \in AD_CATEGORIES /\ dto.status \in Optional(AdStatus)
      /\ dto.attributes \in Optional(Forms) /\ dto.images \in Optional(Photos)
  BY DEF CreateAdDto
<1>2. raw \in Forms \cup {NoAttributes}
  BY <1>1, GivenFacts
<1>3. details \in Details /\ (checked.errors = {} => Fits(dto.category, details))
  BY <1>2, CheckedFacts
<1>4. status \in AdStatus
  BY <1>1, GivenFacts DEF AdStatus
<1>5. images \in SUBSET UNION Photos
  BY <1>1, GivenFacts
<1>6. NewAd(dto, details) = [NoAd EXCEPT !.state = "stored", !.category = dto.category, !.status = status,
                                         !.attributes = details, !.images = images]
  BY DEF NewAd
<1> HIDE DEF checked, details, status, images
<1>7. NoAd \in Ad /\ NoAd.viewCount = 0 /\ NoAd.wishlistCount = 0
  BY NoAdFacts
<1>8. NewAd(dto, details) \in Ad
  BY <1>1, <1>3, <1>4, <1>5, <1>6, <1>7 DEF Ad
<1> QED BY <1>3, <1>6, <1>7, <1>8 DEF checked, details, images, Ad

\* The first row counts nobody: nobody could tap before there was one.
LEMMA CreateStep ==
  ASSUME CountsInv, NoneBefore, NEW dto \in CreateAdDto, Create(dto) PROVE CountsInv'
<1>1. ad.state = "absent" /\ UNCHANGED <<views, saves, edit, tap, slips>>
  BY DEF Create
<1>2. ad.viewCount = 0 /\ ad.wishlistCount = 0
  BY <1>1 DEF NoneBefore
<1>3. ad' = NewAd(dto, ValidateAdAttributes(dto.category, Given(dto.attributes, NoAttributes)).stored)
  BY DEF Create
<1>4. ad' \in Ad /\ ad'.viewCount = 0 /\ ad'.wishlistCount = 0
  BY <1>3, NewAdFacts
<1> QED BY <1>1, <1>2, <1>4, SellerKeeps DEF CountsInv, TypeOK, EditReq

LEMMA UpdateStep ==
  ASSUME CountsInv, NEW e \in Editors, NEW who, NEW dto \in UpdateAdDto, Update(e, who, dto) PROVE CountsInv'
<1> DEFINE x == [pc |-> IF dto.images # {} THEN "clear" ELSE "update", dto |-> dto, seen |-> ad.category]
<1>1. x \in EditReq
  BY DEF CountsInv, TypeOK, EditReq
<1> QED BY <1>1, EditMoves DEF Update

LEMMA ClearPhotosStep ==
  ASSUME CountsInv, NEW e \in Editors, ClearPhotos(e) PROVE CountsInv'
<1>1. edit \in [Editors -> EditReq]
  BY DEF CountsInv, TypeOK, EditReq
<1>2. [edit[e] EXCEPT !.pc = "update"] \in EditReq
  BY <1>1 DEF EditReq
<1>3. edit' \in [Editors -> EditReq]
  BY <1>1, <1>2 DEF ClearPhotos
<1>4. ad' \in Ad /\ ad'.viewCount = ad.viewCount /\ ad'.wishlistCount = ad.wishlistCount
  BY DEF CountsInv, ClearPhotos, Ad
<1> QED BY <1>3, <1>4, SellerKeeps DEF ClearPhotos

LEMMA UpdateWriteStep ==
  ASSUME CountsInv, NEW e \in Editors, UpdateWrite(e) PROVE CountsInv'
<1>1. edit \in [Editors -> EditReq] /\ ad \in Ad
  BY DEF CountsInv, TypeOK, EditReq
<1>2. edit[e].dto \in UpdateAdDto
  BY <1>1 DEF EditReq
<1>3. ad' = Edited(edit[e].dto, AttributesToWrite(edit[e].dto, edit[e].seen).write)
  BY DEF UpdateWrite
<1>4. ad' \in Ad /\ ad'.viewCount = ad.viewCount /\ ad'.wishlistCount = ad.wishlistCount
  BY <1>1, <1>2, <1>3, EditedFacts
<1>5. edit' \in [Editors -> EditReq]
  BY <1>1, IdleFacts DEF UpdateWrite
<1> QED BY <1>4, <1>5, SellerKeeps DEF UpdateWrite

LEMMA RemoveStep ==
  ASSUME CountsInv, NEW e \in Editors, NEW who, Remove(e, who) PROVE CountsInv'
<1>1. [edit[e] EXCEPT !.pc = "delete"] \in EditReq
  BY DEF CountsInv, TypeOK, EditReq
<1>2. edit' = [edit EXCEPT ![e] = [edit[e] EXCEPT !.pc = "delete"]]
  BY DEF Remove
<1> QED BY <1>1, <1>2, EditMoves DEF Remove

LEMMA SoftDeleteStep ==
  ASSUME CountsInv, NEW e \in Editors, SoftDelete(e) PROVE CountsInv'
<1>1. ad' \in Ad /\ ad'.viewCount = ad.viewCount /\ ad'.wishlistCount = ad.wishlistCount
  BY DEF CountsInv, SoftDelete, Ad, AdStatus
<1>2. edit' \in [Editors -> EditReq]
  BY IdleFacts DEF CountsInv, TypeOK, EditReq, SoftDelete
<1> QED BY <1>1, <1>2, SellerKeeps DEF SoftDelete

\* Nobody can have opened a listing before there is one.
LEMMA NoneBeforeStep ==
  ASSUME CountsInv, NoneBefore, Next PROVE NoneBefore'
<1>1. ad \in Ad /\ edit \in [Editors -> EditReq] /\ tap \in [Taps -> TapReq]
  BY DEF CountsInv, TypeOK, EditReq, TapReq
<1>2. ASSUME NEW t \in Taps, BuyerStep(t) PROVE NoneBefore'
  <2>1. ad.state = "stored"
    <3>1. tap[t].pc # "idle" => ad.state = "stored"
      BY <1>1 DEF NoneBefore, Ad
    <3>2. \/ tap[t].pc # "idle" \/ Visible
      BY <1>2 DEF BuyerStep, Detail, SetWishlisted, Tap, FindView, FindSave, Find, RecordView, AddToWishlist,
                  RemoveFromWishlist, CountDown, AbortTap
    <3> QED BY <3>1, <3>2 DEF Visible
  <2>2. \/ ad' = ad
        \/ ad' = [ad EXCEPT !.viewCount = @ + 1]
        \/ ad' = [ad EXCEPT !.wishlistCount = @ + 1]
        \/ ad' = [ad EXCEPT !.wishlistCount = IF @ > 0 THEN @ - 1 ELSE @]
    BY <1>2 DEF BuyerStep, Detail, SetWishlisted, Tap, FindView, FindSave, Find, RecordView, AddToWishlist,
                RemoveFromWishlist, CountDown, AbortTap
  <2>3. ad'.state = "stored"
    BY <1>1, <2>1, <2>2 DEF Ad
  <2> QED BY <2>3 DEF NoneBefore
<1>3. ASSUME NEW e \in Editors, SellerStep(e) PROVE NoneBefore'
  <2>1. CASE \E dto \in CreateAdDto : Create(dto)
    <3>1. ad'.state = "stored"
      BY <2>1 DEF Create, NewAd, NoAd
    <3> QED BY <3>1 DEF NoneBefore
  <2>2. CASE \/ \E who \in {"seller", "admin"}, dto \in UpdateAdDto : Update(e, who, dto)
             \/ \E who \in {"seller", "admin"} : Remove(e, who)
             \/ AbortEdit(e)
    <3>1. UNCHANGED <<ad, tap>>
      BY <2>2 DEF Update, Remove, AbortEdit
    <3> QED BY <3>1 DEF NoneBefore
  <2>3. CASE ClearPhotos(e) \/ SoftDelete(e)
    <3>1. UNCHANGED tap /\ ad'.state = ad.state /\ ad'.viewCount = ad.viewCount /\ ad'.wishlistCount = ad.wishlistCount
      BY <1>1, <2>3 DEF ClearPhotos, SoftDelete, Ad
    <3> QED BY <3>1 DEF NoneBefore
  <2>4. CASE UpdateWrite(e)
    <3>1. edit[e].dto \in UpdateAdDto
      BY <1>1 DEF EditReq
    <3>2. UNCHANGED tap /\ ad' = Edited(edit[e].dto, AttributesToWrite(edit[e].dto, edit[e].seen).write)
      BY <2>4 DEF UpdateWrite
    <3>3. ad'.state = ad.state /\ ad'.viewCount = ad.viewCount /\ ad'.wishlistCount = ad.wishlistCount
      BY <1>1, <3>1, <3>2, EditedFacts
    <3> QED BY <3>2, <3>3 DEF NoneBefore
  <2> QED BY <1>3, <2>1, <2>2, <2>3, <2>4 DEF SellerStep
<1> QED BY <1>2, <1>3 DEF Next

LEMMA SellerKeepsCounts ==
  ASSUME CountsInv, NoneBefore, NEW e \in Editors, SellerStep(e) PROVE CountsInv'
<1>1. CASE AbortEdit(e)
  BY <1>1, IdleFacts, EditMoves DEF AbortEdit
<1> QED BY <1>1, CreateStep, UpdateStep, ClearPhotosStep, UpdateWriteStep, RemoveStep, SoftDeleteStep DEF SellerStep

(***************************************************************************)
(* The counters count the people                                           *)
(***************************************************************************)

LEMMA InitCounts == Init => CountsInv /\ NoneBefore
<1> SUFFICES ASSUME Init PROVE CountsInv /\ NoneBefore
  OBVIOUS
<1>1. NoAd \in Ad /\ NoAd.viewCount = 0 /\ NoAd.wishlistCount = 0
  BY NoAdFacts
<1>2. ad \in Ad /\ ad.viewCount = 0 /\ ad.wishlistCount = 0
  BY <1>1 DEF Init, Ad, AdStatus
<1>3. \A t \in Taps : tap[t] = IdleTap
  BY DEF Init
<1>4. Counting = {} /\ \A t \in Taps : tap[t].pc = "idle"
  BY <1>3, IdleFacts DEF Counting
<1>5. /\ views = {} /\ saves = {} /\ slips = 0 /\ tap \in [Taps -> TapReq] /\ edit \in [Editors -> EditReq]
  BY IdleFacts DEF Init
<1>6. TypeOK
  BY <1>2, <1>5 DEF TypeOK, Ad, TapReq, EditReq
<1>7. CountersCountPeople
  <2>1. Cardinality(views) = 0 /\ Cardinality(saves) = 0 /\ Cardinality(Counting) = 0
    BY <1>4, <1>5, FS_EmptySet
  <2> QED BY <1>2, <1>5, <2>1 DEF CountersCountPeople, Counting
<1> QED BY <1>2, <1>4, <1>5, <1>6, <1>7, FS_EmptySet DEF CountsInv, NoneBefore

THEOREM CountsInvariance == Spec => [](CountsInv /\ NoneBefore)
<1>1. CountsInv /\ NoneBefore /\ [Next]_vars => (CountsInv /\ NoneBefore)'
  <2> SUFFICES ASSUME CountsInv, NoneBefore, [Next]_vars PROVE CountsInv' /\ NoneBefore'
    OBVIOUS
  <2>1. CASE Next
    BY <2>1, NoneBeforeStep, BuyerKeepsCounts, SellerKeepsCounts DEF Next
  <2>2. CASE UNCHANGED vars
    BY <2>2 DEF vars, CountsInv, NoneBefore, TypeOK, CountersCountPeople, Counting
  <2> QED BY <2>1, <2>2
<1> QED BY <1>1, InitCounts, PTL DEF Spec

\* Every row and every request has the shape of the schema, with details some
\* form sent and counters that never go below zero.
THEOREM Types == Spec => []TypeOK
<1>1. CountsInv => TypeOK
  BY DEF CountsInv
<1> QED BY <1>1, CountsInvariance, PTL

\* Whatever taps of one user cross, and whoever edits meanwhile, viewCount and
\* wishlistCount are the people with a row, the wishlist's ahead by the
\* removals between their two statements (recordView, addToWishlist and
\* removeFromWishlist in marketplace.repository.ts).
THEOREM Counters == Spec => []CountersCountPeople
<1>1. CountsInv => CountersCountPeople
  BY DEF CountsInv
<1> QED BY <1>1, CountsInvariance, PTL

(***************************************************************************)
(* Details and photos, when one device edits at a time                     *)
(***************************************************************************)

\* A row that differs in its counters, its status or its stamp only.
SameListing(row) ==
    /\ row.state = ad.state /\ row.category = ad.category
    /\ row.attributes = ad.attributes /\ row.images = ad.images

LEMMA SameListingKeeps ==
  ASSUME EditsInv, SameListing(ad'), UNCHANGED edit PROVE EditsInv'
<1>1. PhotosAreOfOneEdit' /\ DetailsFitCategory'
  BY DEF EditsInv, SameListing, PhotosAreOfOneEdit, DetailsFitCategory
<1>2. \A e \in Editors : EditKnows(e)'
  BY DEF EditsInv, SameListing, EditKnows
<1> QED BY <1>1, <1>2 DEF EditsInv

LEMMA BuyerKeepsEdits ==
  ASSUME CountsInv, EditsInv, NEW t \in Taps, BuyerStep(t) PROVE EditsInv'
<1>1. ad \in Ad
  BY DEF CountsInv
<1>2. \/ ad' = ad
      \/ ad' = [ad EXCEPT !.viewCount = @ + 1]
      \/ ad' = [ad EXCEPT !.wishlistCount = @ + 1]
      \/ ad' = [ad EXCEPT !.wishlistCount = IF @ > 0 THEN @ - 1 ELSE @]
  BY DEF BuyerStep, Detail, SetWishlisted, Tap, FindView, FindSave, Find, RecordView, AddToWishlist,
         RemoveFromWishlist, CountDown, AbortTap
<1>3. SameListing(ad')
  BY <1>1, <1>2 DEF SameListing, Ad
<1>4. UNCHANGED edit
  BY DEF BuyerStep, Detail, SetWishlisted, Tap, FindView, FindSave, Find, RecordView, AddToWishlist,
         RemoveFromWishlist, CountDown, AbortTap
<1> QED BY <1>3, <1>4, SameListingKeeps

\* The only editor's request goes on.
LEMMA OnlyEditorMoves ==
  ASSUME OneEditor, NEW e \in Editors, CountsInv, NEW x, edit' = [edit EXCEPT ![e] = x]
  PROVE  \A f \in Editors : f = e /\ edit'[f] = x
<1>1. DOMAIN edit = Editors
  BY DEF CountsInv, TypeOK
<1> QED BY <1>1 DEF OneEditor

\* A request that ends knows nothing any more.
LEMMA EndKeeps ==
  ASSUME OneEditor, NEW e \in Editors, CountsInv, edit' = [edit EXCEPT ![e] = IdleEdit],
         PhotosAreOfOneEdit', DetailsFitCategory'
  PROVE  EditsInv'
<1>1. \A f \in Editors : edit'[f].pc = "idle"
  BY OnlyEditorMoves, IdleFacts
<1> QED BY <1>1 DEF EditsInv, EditKnows

LEMMA EditKeepsEdits ==
  ASSUME OneEditor, CountsInv, EditsInv, NEW e \in Editors, SellerStep(e) PROVE EditsInv'
<1>1. ad \in Ad /\ edit \in [Editors -> EditReq]
  BY DEF CountsInv, TypeOK, EditReq
<1>2. EditKnows(e) /\ PhotosAreOfOneEdit /\ DetailsFitCategory
  BY DEF EditsInv
<1>3. ASSUME NEW dto \in CreateAdDto, Create(dto) PROVE EditsInv'
  <2> DEFINE checked == ValidateAdAttributes(dto.category, Given(dto.attributes, NoAttributes))
  <2>1. checked.errors = {} /\ ad' = NewAd(dto, checked.stored) /\ ad.state = "absent" /\ UNCHANGED edit
    BY <1>3 DEF Create
  <2>2. /\ ad'.category = dto.category /\ ad'.attributes = checked.stored /\ ad'.images = Given(dto.images, {})
        /\ Fits(dto.category, checked.stored)
    BY <2>1, NewAdFacts
  <2>3. dto.images \in Optional(Photos)
    BY DEF CreateAdDto
  <2>4. PhotosAreOfOneEdit' /\ DetailsFitCategory'
    BY <2>2, <2>3, GivenFacts, MarketplaceAssumption DEF PhotosAreOfOneEdit, DetailsFitCategory, Fits
  <2>5. \A f \in Editors : edit'[f].pc \notin {"clear", "update"}
    BY <2>1 DEF EditsInv, EditKnows
  <2> QED BY <2>4, <2>5 DEF EditsInv, EditKnows
<1>4. ASSUME NEW who, NEW dto \in UpdateAdDto, Update(e, who, dto) PROVE EditsInv'
  <2> DEFINE x == [pc |-> IF dto.images # {} THEN "clear" ELSE "update", dto |-> dto, seen |-> ad.category]
  <2>1. /\ edit' = [edit EXCEPT ![e] = x] /\ UNCHANGED ad /\ ad.state = "stored"
        /\ AttributesToWrite(dto, ad.category).errors = {}
    BY <1>4 DEF Update, CanManage
  <2>2. /\ x.dto = dto /\ x.seen = ad.category /\ (x.pc = "update" => dto.images = {})
    OBVIOUS
  <2> HIDE DEF x
  <2>3. \A f \in Editors : edit'[f] = x
    BY <2>1, OnlyEditorMoves
  <2>4. \A f \in Editors : EditKnows(f)'
    BY <2>1, <2>2, <2>3 DEF EditKnows
  <2> QED BY <1>2, <2>1, <2>4 DEF EditsInv, PhotosAreOfOneEdit, DetailsFitCategory
<1>5. CASE ClearPhotos(e)
  <2> DEFINE x == [edit[e] EXCEPT !.pc = "update"]
  <2>1. /\ edit' = [edit EXCEPT ![e] = x] /\ ad' = [ad EXCEPT !.images = {}] /\ edit[e].pc = "clear"
    BY <1>5 DEF ClearPhotos
  <2>2. x.dto = edit[e].dto /\ x.seen = edit[e].seen /\ x.pc = "update"
    BY <1>1 DEF EditReq
  <2> HIDE DEF x
  <2>3. ad'.state = ad.state /\ ad'.category = ad.category /\ ad'.attributes = ad.attributes /\ ad'.images = {}
    BY <1>1, <2>1 DEF Ad
  <2>4. \A f \in Editors : f = e /\ edit'[f] = x
    BY <2>1, OnlyEditorMoves
  <2>5. \A f \in Editors : EditKnows(f)'
    BY <1>2, <2>1, <2>2, <2>3, <2>4 DEF EditKnows
  <2>6. PhotosAreOfOneEdit' /\ DetailsFitCategory'
    BY <1>2, <2>3, MarketplaceAssumption DEF PhotosAreOfOneEdit, DetailsFitCategory
  <2> QED BY <2>5, <2>6 DEF EditsInv
<1>6. CASE UpdateWrite(e)
  <2> DEFINE dto == edit[e].dto
             seen == edit[e].seen
             w == AttributesToWrite(dto, seen)
             category == Given(dto.category, seen)
  <2>1. /\ edit[e].pc = "update" /\ ad' = Edited(dto, w.write) /\ edit' = [edit EXCEPT ![e] = IdleEdit]
        /\ dto \in UpdateAdDto
    BY <1>1, <1>6 DEF UpdateWrite, EditReq
  <2>2. seen = ad.category /\ w.errors = {} /\ (dto.images # {} => ad.images = {})
    BY <1>2, <2>1 DEF EditKnows
  <2>3. /\ ad'.category = category /\ ad'.attributes = Given(w.write, ad.attributes)
        /\ ad'.images = ad.images \cup Given(dto.images, {})
    BY <1>1, <2>1, <2>2, EditedFacts
  <2>4. PhotosAreOfOneEdit'
    <3>1. dto.images \in Optional(Photos)
      BY <2>1 DEF UpdateAdDto
    <3>2. CASE dto.images = {}
      BY <1>2, <2>3, <3>2 DEF Given, PhotosAreOfOneEdit
    <3>3. CASE dto.images # {}
      BY <2>2, <2>3, <3>1, <3>3, GivenFacts DEF PhotosAreOfOneEdit
    <3> QED BY <3>2, <3>3
  <2>5. DetailsFitCategory'
    <3>1. CASE w.write = {} /\ category = seen
      BY <1>2, <2>2, <2>3, <3>1 DEF Given, DetailsFitCategory
    <3>2. ASSUME NEW details, w.write = {details}, Fits(category, details) PROVE DetailsFitCategory'
      BY <2>3, <3>2 DEF Given, DetailsFitCategory, Fits
    <3> QED BY <2>1, <2>2, <3>1, <3>2, WriteFacts
  <2> QED BY <2>1, <2>4, <2>5, EndKeeps
<1>7. CASE SoftDelete(e)
  <2>1. edit' = [edit EXCEPT ![e] = IdleEdit] /\ SameListing(ad')
    BY <1>1, <1>7 DEF SoftDelete, SameListing, Ad
  <2>2. PhotosAreOfOneEdit' /\ DetailsFitCategory'
    BY <1>2, <2>1 DEF SameListing, PhotosAreOfOneEdit, DetailsFitCategory
  <2> QED BY <2>1, <2>2, EndKeeps
<1>8. ASSUME NEW who, Remove(e, who) PROVE EditsInv'
  <2> DEFINE x == [edit[e] EXCEPT !.pc = "delete"]
  <2>1. edit' = [edit EXCEPT ![e] = x] /\ UNCHANGED ad
    BY <1>8 DEF Remove
  <2>2. x.pc = "delete"
    BY <1>1 DEF EditReq
  <2> HIDE DEF x
  <2>3. \A f \in Editors : edit'[f].pc = "delete"
    BY <2>1, <2>2, OnlyEditorMoves
  <2> QED BY <1>2, <2>1, <2>3 DEF EditsInv, EditKnows, PhotosAreOfOneEdit, DetailsFitCategory
<1>9. CASE AbortEdit(e)
  BY <1>2, <1>9, EndKeeps DEF AbortEdit, PhotosAreOfOneEdit, DetailsFitCategory
<1> QED BY <1>3, <1>4, <1>5, <1>6, <1>7, <1>8, <1>9 DEF SellerStep

LEMMA InitEdits == Init => EditsInv
<1> SUFFICES ASSUME Init PROVE EditsInv
  OBVIOUS
<1>1. ad.images = {} /\ ad.attributes = NoAttributes /\ \A e \in Editors : edit[e].pc = "idle"
  <2>1. \A e \in Editors : edit[e] = IdleEdit
    BY DEF Init
  <2>2. NoAd.images = {} /\ NoAd.attributes = NoAttributes
    BY DEF NoAd
  <2>3. ad.images = {} /\ ad.attributes = NoAttributes
    BY <2>2, NoAdFacts DEF Init, Ad
  <2> QED BY <2>1, <2>3, IdleFacts
<1> QED BY <1>1, NoDetailsFit, MarketplaceAssumption DEF EditsInv, EditKnows, PhotosAreOfOneEdit, DetailsFitCategory

THEOREM EditsInvariance == ASSUME OneEditor PROVE Spec => []EditsInv
<1>1. CountsInv /\ EditsInv /\ [Next]_vars => EditsInv'
  <2> SUFFICES ASSUME CountsInv, EditsInv, [Next]_vars PROVE EditsInv'
    OBVIOUS
  <2>1. CASE Next
    BY <2>1, BuyerKeepsEdits, EditKeepsEdits DEF Next
  <2>2. CASE UNCHANGED vars
    BY <2>2, SameListingKeeps DEF vars, SameListing
  <2> QED BY <2>1, <2>2
<1> QED BY <1>1, InitEdits, CountsInvariance, PTL DEF Spec

\* "Replacing its photos" (updateAd in marketplace.repository.ts): with one
\* device editing, and requests dying anywhere, the photos stored are those of
\* one request, or none.
THEOREM PhotosOfOne == ASSUME OneEditor PROVE Spec => []PhotosAreOfOneEdit
<1>1. EditsInv => PhotosAreOfOneEdit
  BY DEF EditsInv
<1> QED BY <1>1, EditsInvariance, PTL

\* "Nothing unvalidated reaches the row" (ad-attributes.ts): with one device
\* editing, for any forms, the details stored are ones the category of the row
\* accepts, through every create, edit and change of category.
THEOREM DetailsFit == ASSUME OneEditor PROVE Spec => []DetailsFitCategory
<1>1. EditsInv => DetailsFitCategory
  BY DEF EditsInv
<1> QED BY <1>1, EditsInvariance, PTL

(***************************************************************************)
(* The rules                                                               *)
(***************************************************************************)

\* Whatever was asked is one of the inputs, and the outcome is the rule's.
Answered ==
    \/ input = [kind |-> "none"]
    \/ \E o \in Orders : input = [kind |-> "order", order |-> o] /\ outcome = Charge(o, Today)
    \/ \E n \in 0 .. MaxAreas : \E areas \in [1 .. n -> Areas], located \in BOOLEAN :
          input = [kind |-> "address", areas |-> areas, located |-> located] /\ outcome = MatchArea(areas, located)
    \/ \E total \in CancelTotals, age \in CancelAges :
          input = [kind |-> "cancel", total |-> total, age |-> age] /\ outcome = total - CancellationFee(total, age)
    \/ \E category \in Categories, keys \in KeySets : \E raw \in [keys -> Values] :
          input = [kind |-> "details", category |-> category, raw |-> raw]
          /\ outcome = ValidateAdAttributes(category, raw)

LEMMA Answering == RulesSpec => []Answered
<1>1. RulesInit => Answered
  BY DEF RulesInit, Answered
<1>2. Answered /\ [RulesNext]_<<input, outcome>> => Answered'
  <2> SUFFICES ASSUME Answered, [RulesNext]_<<input, outcome>> PROVE Answered'
    OBVIOUS
  <2>1. CASE PriceOrder
    BY <2>1, Zenon DEF PriceOrder, Answered
  <2>2. CASE PlaceAddress
    BY <2>2, Zenon DEF PlaceAddress, Answered
  <2>3. CASE ChargeCancel
    BY <2>3, Zenon DEF ChargeCancel, Answered
  <2>4. CASE SubmitDetails
    BY <2>4, Zenon DEF SubmitDetails, Answered
  <2>5. CASE UNCHANGED <<input, outcome>>
    BY <2>5 DEF Answered
  <2> QED BY <2>1, <2>2, <2>3, <2>4, <2>5 DEF RulesNext
<1> QED BY <1>1, <1>2, PTL DEF RulesSpec

\* What was asked, by kind.
LEMMA AskedOrder ==
  ASSUME Answered, Done("order")
  PROVE  input.order \in Orders /\ outcome = Charge(input.order, Today)
BY DEF Answered, Done

LEMMA AskedAddress ==
  ASSUME Answered, Done("address")
  PROVE  \E n \in 0 .. MaxAreas : input.areas \in [1 .. n -> Areas] /\ input.located \in BOOLEAN
                                  /\ outcome = MatchArea(input.areas, input.located)
BY DEF Answered, Done

LEMMA AskedCancel ==
  ASSUME Answered, Done("cancel")
  PROVE  input.total \in CancelTotals /\ input.age \in CancelAges
         /\ outcome = input.total - CancellationFee(input.total, input.age)
BY DEF Answered, Done

LEMMA AskedDetails ==
  ASSUME Answered, Done("details")
  PROVE  \E keys \in KeySets : input.category \in Categories /\ input.raw \in [keys -> Values]
                               /\ outcome = ValidateAdAttributes(input.category, input.raw)
BY DEF Answered, Done

\* Math.round is off by half at most: whole rupees, and whole paise.
LEMMA RoundRupee ==
  ASSUME NEW n \in Int
  PROVE  /\ RoundDiv(n, 10000) \in Int
         /\ 10000 * RoundDiv(n, 10000) <= n + 5000
         /\ 10000 * RoundDiv(n, 10000) > n - 5000
BY DEF RoundDiv

LEMMA RoundPaisa ==
  ASSUME NEW n \in Int
  PROVE  /\ RoundDiv(n, 100) \in Int
         /\ 100 * RoundDiv(n, 100) <= n + 50
         /\ 100 * RoundDiv(n, 100) > n - 50
BY DEF RoundDiv

\* What an order comes to before the code is a natural number.
LEMMA SubtotalIsNat ==
  ASSUME NEW price \in Prices, NEW hours \in Hours, NEW team \in Teams, NEW with \in BOOLEAN
  PROVE  Quote(price, hours, team, with).subtotal \in Nat
<1>1. price.hourlyRate \in Nat /\ price.extraProRate \in Nat /\ price.materialsFee \in Nat
  BY RulesAssumption DEF Prices
<1>2. hours \in Nat /\ team - 1 \in Nat
  BY RulesAssumption
<1> DEFINE extra == price.extraProRate * hours
<1>3. price.hourlyRate * hours \in Nat /\ extra \in Nat
  BY <1>1, <1>2
<1> HIDE DEF extra
<1>4. extra * (team - 1) \in Nat
  BY <1>2, <1>3
<1>5. price.hourlyRate * hours + extra * (team - 1) \in Nat
  BY <1>3, <1>4
<1> QED BY <1>1, <1>5 DEF Quote, extra

\* A code takes off its percentage to the nearest rupee, or its cap.
LEMMA DiscountFacts ==
  ASSUME NEW p \in Promos, NEW subtotal \in Nat
  PROVE  LET discount == PromoDiscount(p, subtotal)
             exact == subtotal * p.percent
         IN  /\ discount \in Int
             /\ p.maxDiscount > 0 => discount <= p.maxDiscount
             /\ 100 * discount <= exact + 5000
             /\ (p.maxDiscount > 0 /\ discount = p.maxDiscount) \/ 100 * discount >= exact - 5000
             /\ subtotal >= SMALLEST_SAFE_SUBTOTAL => discount <= subtotal
<1> DEFINE discount == PromoDiscount(p, subtotal)
           exact == subtotal * p.percent
           raw == 100 * RoundDiv(exact, 10000)
<1>1. p.percent \in 1 .. 90 /\ p.maxDiscount \in Nat
  BY RulesAssumption DEF Promos
<1>2. exact \in Nat /\ exact <= 90 * subtotal
  BY <1>1
<1>3. raw \in Int /\ 100 * raw <= exact + 5000 /\ 100 * raw > exact - 5000
  <2> HIDE DEF exact
  <2> QED BY <1>2, RoundRupee
<1>4. discount = Capped(raw, p.maxDiscount)
  BY DEF PromoDiscount
<1> HIDE DEF discount, exact, raw
<1>5. /\ discount \in Int
      /\ discount <= raw
      /\ p.maxDiscount > 0 => discount <= p.maxDiscount
      /\ (p.maxDiscount > 0 /\ discount = p.maxDiscount) \/ discount = raw
  BY <1>1, <1>3, <1>4 DEF Capped
<1>6. subtotal >= SMALLEST_SAFE_SUBTOTAL => discount <= subtotal
  BY <1>2, <1>3, <1>5 DEF SMALLEST_SAFE_SUBTOTAL
<1>7. 100 * discount <= exact + 5000
  BY <1>2, <1>3, <1>5
<1>8. (p.maxDiscount > 0 /\ discount = p.maxDiscount) \/ 100 * discount >= exact - 5000
  BY <1>2, <1>3, <1>5
<1> QED BY <1>5, <1>6, <1>7, <1>8 DEF discount, exact

LEMMA DiscountStep == Answered => DiscountAsPromised
<1> SUFFICES ASSUME Answered, Done("order"), outcome.ok, input.order.code PROVE DiscountAsPromised
  BY DEF DiscountAsPromised
<1> DEFINE o == input.order
           q == Quote(o.price, o.hours, o.professionals, o.withMaterials /\ o.price.materialsFee > 0)
           fits(p) == p.validTill >= Today /\ p.active /\ q.subtotal >= p.minOrder
<1>1. o \in Orders /\ outcome = Charge(o, Today)
  BY AskedOrder
<1>2. /\ o.price \in Prices /\ o.hours \in Hours /\ o.professionals \in Teams
      /\ o.promo = {} \/ \E p \in Promos : o.promo = {p}
  BY <1>1 DEF Orders
<1>3. q.subtotal \in Nat
  BY <1>2, SubtotalIsNat
<1> HIDE DEF q
<1>4. /\ outcome.ok = ApplyPromo(o.promo, q.subtotal, Today).ok
      /\ outcome.discount = ApplyPromo(o.promo, q.subtotal, Today).discount
      /\ outcome.subtotal = q.subtotal
      /\ outcome.total = q.subtotal - outcome.discount
  BY <1>1 DEF Charge, q
<1>5. PICK p \in o.promo : fits(p)
  BY <1>4 DEF ApplyPromo, Rejected
<1>6. p \in Promos /\ o.promo = {p} /\ (CHOOSE x \in o.promo : TRUE) = p
  BY <1>2, <1>5
<1>7. outcome.discount = PromoDiscount(p, q.subtotal)
  BY <1>4, <1>5, <1>6 DEF ApplyPromo
<1>8. /\ p.active /\ p.validTill >= Today /\ outcome.subtotal >= p.minOrder
  BY <1>4, <1>5
<1>9. /\ outcome.discount \in Int
      /\ p.maxDiscount > 0 => outcome.discount <= p.maxDiscount
      /\ 100 * outcome.discount <= outcome.subtotal * p.percent + 5000
      /\ \/ p.maxDiscount > 0 /\ outcome.discount = p.maxDiscount
         \/ 100 * outcome.discount >= outcome.subtotal * p.percent - 5000
      /\ outcome.subtotal >= SMALLEST_SAFE_SUBTOTAL => outcome.discount <= outcome.subtotal
  BY <1>3, <1>4, <1>6, <1>7, DiscountFacts
<1>10. outcome.subtotal >= SMALLEST_SAFE_SUBTOTAL => outcome.total >= 0
  BY <1>3, <1>4, <1>9
<1>11. p \in input.order.promo
  BY <1>6 DEF o
<1> QED BY <1>8, <1>9, <1>10, <1>11 DEF DiscountAsPromised

\* A cancel keeps a tenth, rounded to a paisa.
LEMMA CancelStep == Answered => RefundIsMost
<1> SUFFICES ASSUME Answered, Done("cancel") PROVE RefundIsMost
  BY DEF RefundIsMost
<1> DEFINE fee == CancellationFee(input.total, input.age)
           tenth == RoundDiv(input.total * 10, 100)
<1>1. input.total \in Nat \ {0} /\ input.age \in Nat /\ outcome = input.total - fee
  BY AskedCancel, RulesAssumption
<1>2. tenth \in Int /\ 100 * tenth <= 10 * input.total + 50 /\ 100 * tenth > 10 * input.total - 50
  <2>1. input.total * 10 \in Int
    BY <1>1
  <2>2. /\ tenth \in Int
        /\ 100 * tenth <= input.total * 10 + 50
        /\ 100 * tenth > input.total * 10 - 50
    BY <2>1, RoundPaisa
  <2> HIDE DEF tenth
  <2> QED BY <1>1, <2>2
<1>3. fee = IF input.age <= 120 THEN 0 ELSE tenth
  BY DEF CancellationFee, FREE_CANCELLATION_HOURS, CANCELLATION_FEE_PERCENT
<1> HIDE DEF fee, tenth
<1> QED BY <1>1, <1>2, <1>3 DEF RefundIsMost

\* Any set of areas has a nearest one, the first of those at its distance.
LEMMA LeastOf ==
  ASSUME NEW S, S \subseteq Nat, S # {}
  PROVE  \E x \in S : \A y \in S : x <= y
<1>1. PICK x \in S : \A y \in S : ~(<<y, x>> \in OpToRel(<, Nat))
  BY WFMin, NatLessThanWellFounded, Zenon
<1>2. \A y \in S : ~(y < x)
  BY <1>1, Zenon DEF OpToRel
<1> QED BY <1>2

LEMMA NearestFacts ==
  ASSUME NEW n \in Nat, NEW areas \in [1 .. n -> Areas], NEW S, S \subseteq 1 .. n, S # {}
  PROVE  /\ Nearest(areas, S) \in S
         /\ \A j \in S : areas[Nearest(areas, S)].km <= areas[j].km
<1> DEFINE km(i) == areas[i].km
           All == {km(i) : i \in S}
<1>1. \A i \in S : km(i) \in Nat
  BY RulesAssumption DEF Areas
<1>2. PICK least \in All : \A k \in All : least <= k
  <2>1. All \subseteq Nat /\ All # {}
    BY <1>1
  <2> HIDE DEF All
  <2> QED BY <2>1, LeastOf
<1> DEFINE First == {i \in S : km(i) = least}
<1>3. First \subseteq Nat /\ First # {}
  <2>1. PICK j \in S : km(j) = least
    BY <1>2
  <2> HIDE DEF km
  <2>2. j \in First
    BY <2>1
  <2>3. First # {}
    BY <2>2
  <2>4. First \subseteq S
    OBVIOUS
  <2>5. First \subseteq Nat
    BY <2>4
  <2> QED BY <2>3, <2>5
<1>4. PICK i \in First : \A j \in First : i <= j
  <2> HIDE DEF First
  <2> QED BY <1>3, LeastOf
<1>5. i \in S /\ \A j \in S : km(i) < km(j) \/ (km(i) = km(j) /\ i <= j)
  <2>1. i \in S /\ km(i) = least
    BY <1>4
  <2>2. ASSUME NEW j \in S PROVE km(i) < km(j) \/ (km(i) = km(j) /\ i <= j)
    <3>1. km(j) \in All
      OBVIOUS
    <3>2. least <= km(j) /\ km(j) \in Nat /\ least \in Nat
      <4> HIDE DEF km, All
      <4> QED BY <1>1, <1>2, <2>1, <3>1
    <3>3. CASE km(j) = least
      BY <1>4, <2>1, <3>3
    <3>4. CASE km(j) # least
      <4> HIDE DEF km
      <4> QED BY <2>1, <3>2, <3>4
    <3> QED BY <3>3, <3>4
  <2> QED BY <2>1, <2>2
<1>6. /\ Nearest(areas, S) \in S
      /\ \A j \in S : km(Nearest(areas, S)) < km(j) \/ (km(Nearest(areas, S)) = km(j) /\ Nearest(areas, S) <= j)
  BY <1>5, Zenon DEF Nearest
<1> HIDE DEF km
<1>7. Nearest(areas, S) \in S /\ \A j \in S : km(Nearest(areas, S)) <= km(j)
  BY <1>1, <1>6
<1> QED BY <1>7 DEF km

LEMMA AddressStep == Answered => AreaIsNearest
<1> SUFFICES ASSUME Answered, Done("address") PROVE AreaIsNearest
  BY DEF AreaIsNearest
<1> DEFINE areas == input.areas
           covering == Covering(areas, input.located)
           named == NamedInText(areas)
           reaches(i) == input.located /\ areas[i].mapped /\ areas[i].km <= areas[i].radiusKm
<1>1. PICK n \in 0 .. MaxAreas : areas \in [1 .. n -> Areas] /\ outcome = MatchArea(areas, input.located)
  BY AskedAddress
<1>2. n \in Nat /\ DOMAIN areas = 1 .. n
  BY <1>1, RulesAssumption
<1>3. covering = {i \in 1 .. n : reaches(i)} /\ named = {i \in 1 .. n : areas[i].inText}
  BY <1>2 DEF Covering, NamedInText
<1> HIDE DEF areas, covering, named
<1>4. CASE covering # {}
  <2>1. outcome = Nearest(areas, covering)
    BY <1>1, <1>4 DEF MatchArea, covering
  <2>2. outcome \in covering /\ \A j \in covering : areas[outcome].km <= areas[j].km
    BY <1>1, <1>2, <1>3, <1>4, <2>1, NearestFacts
  <2> QED BY <1>2, <1>3, <2>2 DEF AreaIsNearest, areas
<1>5. CASE covering = {} /\ named # {}
  <2>1. outcome = CHOOSE i \in named : \A j \in named : i <= j
    BY <1>1, <1>5 DEF MatchArea, covering, named
  <2>2. \E i \in named : \A j \in named : i <= j
    BY <1>3, <1>5, LeastOf
  <2>3. outcome \in named
    BY <2>1, <2>2, Zenon
  <2> QED BY <1>2, <1>3, <1>5, <2>3 DEF AreaIsNearest, areas
<1>6. CASE covering = {} /\ named = {}
  <2>1. outcome = 0
    BY <1>1, <1>6 DEF MatchArea, covering, named
  <2> QED BY <1>2, <1>3, <1>6, <2>1 DEF AreaIsNearest, areas
<1> QED BY <1>4, <1>5, <1>6

\* A key has a problem whatever else the form has.
Problem(category, k, value) ==
    k \notin KeysOf(category) \/ (value.type # "null" /\ ~Check(ATTRIBUTE_SCHEMA[category][k], value))

LEMMA ErrorsAre ==
  ASSUME NEW category, NEW raw
  PROVE  ValidateAdAttributes(category, raw).errors = {k \in DOMAIN raw : Problem(category, k, raw[k])}
<1> DEFINE known == DOMAIN raw \cap KeysOf(category)
           given == {k \in known : raw[k].type # "null"}
           bad == {k \in given : ~Check(ATTRIBUTE_SCHEMA[category][k], raw[k])} \cup (DOMAIN raw \ known)
<1>1. ValidateAdAttributes(category, raw).errors = bad
  BY DEF ValidateAdAttributes
<1>2. bad = {k \in DOMAIN raw : Problem(category, k, raw[k])}
  BY DEF Problem
<1> QED BY <1>1, <1>2

LEMMA StoredIs ==
  ASSUME NEW category, NEW raw
  PROVE  LET checked == ValidateAdAttributes(category, raw)
             given == {k \in DOMAIN raw \cap KeysOf(category) : raw[k].type # "null"}
         IN  checked = [errors |-> checked.errors,
                        stored |-> IF checked.errors = {} THEN Restrict(raw, given) ELSE NoAttributes]
BY DEF ValidateAdAttributes

LEMMA EveryProblem ==
  ASSUME NEW category, NEW raw
  PROVE  /\ ValidateAdAttributes(category, raw).errors
              = UNION {ValidateAdAttributes(category, Restrict(raw, {k})).errors : k \in DOMAIN raw}
         /\ DOMAIN raw \ KeysOf(category) \subseteq ValidateAdAttributes(category, raw).errors
<1> DEFINE errors(r) == ValidateAdAttributes(category, r).errors
           alone(k) == Restrict(raw, {k})
<1>1. errors(raw) = {k \in DOMAIN raw : Problem(category, k, raw[k])}
  BY ErrorsAre
<1>2. ASSUME NEW k \in DOMAIN raw
      PROVE  errors(alone(k)) = {l \in {k} : Problem(category, l, raw[l])}
  <2>1. DOMAIN alone(k) = {k} /\ \A l \in {k} : alone(k)[l] = raw[l]
    BY DEF Restrict
  <2>2. errors(alone(k)) = {l \in DOMAIN alone(k) : Problem(category, l, alone(k)[l])}
    BY ErrorsAre
  <2> HIDE DEF alone, errors
  <2> QED BY <2>1, <2>2
<1> HIDE DEF errors, alone
<1>3. errors(raw) = UNION {errors(alone(k)) : k \in DOMAIN raw}
  BY <1>1, <1>2
<1>4. DOMAIN raw \ KeysOf(category) \subseteq errors(raw)
  BY <1>1 DEF Problem
<1> QED BY <1>3, <1>4 DEF errors, alone

\* Leaving a null out changes nothing.
LEMMA ClearedKeys ==
  ASSUME NEW category, NEW raw
  PROVE  LET cleared == {k \in DOMAIN raw \cap KeysOf(category) : raw[k].type = "null"}
         IN  ValidateAdAttributes(category, raw) = ValidateAdAttributes(category, Restrict(raw, DOMAIN raw \ cleared))
<1> DEFINE cleared == {k \in DOMAIN raw \cap KeysOf(category) : raw[k].type = "null"}
           rest == Restrict(raw, DOMAIN raw \ cleared)
           given == {k \in DOMAIN raw \cap KeysOf(category) : raw[k].type # "null"}
           left == {k \in DOMAIN rest \cap KeysOf(category) : rest[k].type # "null"}
           checked == ValidateAdAttributes(category, raw)
           again == ValidateAdAttributes(category, rest)
<1>1. DOMAIN rest = DOMAIN raw \ cleared /\ \A k \in DOMAIN raw \ cleared : rest[k] = raw[k]
  BY DEF Restrict
<1>2. checked.errors = {k \in DOMAIN raw : Problem(category, k, raw[k])}
  BY ErrorsAre
<1>3. again.errors = {k \in DOMAIN rest : Problem(category, k, rest[k])}
  BY ErrorsAre
<1>4. checked = [errors |-> checked.errors, stored |-> IF checked.errors = {} THEN Restrict(raw, given) ELSE NoAttributes]
  BY StoredIs
<1>5. again = [errors |-> again.errors, stored |-> IF again.errors = {} THEN Restrict(rest, left) ELSE NoAttributes]
  BY StoredIs
<1> HIDE DEF checked, again, rest
<1>6. \A k \in cleared : ~Problem(category, k, raw[k])
  BY DEF Problem
<1>7. checked.errors = again.errors
  BY <1>1, <1>2, <1>3, <1>6
<1>8. left = given
  BY <1>1
<1>9. \A k \in given : rest[k] = raw[k]
  BY <1>1
<1>10. Restrict(rest, left) = Restrict(raw, given)
  <2> HIDE DEF given, left
  <2> QED BY <1>8, <1>9 DEF Restrict
<1> HIDE DEF given, left
<1>11. checked = again
  BY <1>4, <1>5, <1>7, <1>10
<1> QED BY <1>11 DEF checked, again, rest, cleared

LEMMA StoredAgain ==
  ASSUME NEW category, NEW raw
  PROVE  LET stored == ValidateAdAttributes(category, raw).stored
         IN  ValidateAdAttributes(category, stored) = [errors |-> {}, stored |-> stored]
<1>1. CASE ValidateAdAttributes(category, raw).errors = {}
  BY <1>1, StoredFits
<1>2. CASE ValidateAdAttributes(category, raw).errors # {}
  <2>1. ValidateAdAttributes(category, raw).stored = NoAttributes
    BY <1>2 DEF ValidateAdAttributes
  <2> QED BY <2>1, NoDetailsFit
<1> QED BY <1>1, <1>2

\* The schema, key by key.
LEMMA Schema ==
  /\ KeysOf("cleaning") = {"subCategory", "durationLabel", "includes"}
  /\ KeysOf("repairing") = {"subCategory", "durationLabel", "warrantyLabel"}
  /\ KeysOf("car_rental") = {"subCategory", "seats", "transmission", "fuel"}
  /\ KeysOf("elkstay") = {"roomType", "stayType", "depositAmount", "furnished"}
  /\ \A c : c \notin AD_CATEGORIES => KeysOf(c) = {}
  /\ ATTRIBUTE_SCHEMA["cleaning"]["subCategory"] = Text(20, CLEANING_SUB_CATEGORIES)
  /\ ATTRIBUTE_SCHEMA["repairing"]["subCategory"] = Text(20, REPAIR_SUB_CATEGORIES)
  /\ ATTRIBUTE_SCHEMA["car_rental"]["subCategory"] = Text(20, RENTAL_SUB_CATEGORIES)
BY DEF KeysOf, ATTRIBUTE_SCHEMA, AD_CATEGORIES

\* A text that may only be one of a few is one of them.
LEMMA OneOfAFew ==
  ASSUME NEW value, NEW few, few # {}, Check(Text(20, few), value)
  PROVE  value.text \in few
BY DEF Check, Text

SubCategories(c) ==
    CASE c = "cleaning" -> CLEANING_SUB_CATEGORIES
      [] c = "repairing" -> REPAIR_SUB_CATEGORIES
      [] c = "car_rental" -> RENTAL_SUB_CATEGORIES

\* What one category takes under a key, another refuses.
LEMMA OtherRefuses ==
  ASSUME NEW c, NEW other, c # other, NEW k \in KeysOf(c) \ {"durationLabel"}, NEW value,
         value.type # "null", Check(ATTRIBUTE_SCHEMA[c][k], value)
  PROVE  Problem(other, k, value)
<1> SUFFICES ASSUME ~Problem(other, k, value) PROVE FALSE
  OBVIOUS
<1>1. k \in KeysOf(other) /\ Check(ATTRIBUTE_SCHEMA[other][k], value)
  BY DEF Problem
<1>2. c \in AD_CATEGORIES /\ other \in AD_CATEGORIES
  BY <1>1, Schema
<1> DEFINE Sorts == {"cleaning", "repairing", "car_rental"}
<1>3. k = "subCategory" /\ c \in Sorts /\ other \in Sorts
  BY <1>1, <1>2, Schema DEF AD_CATEGORIES
<1>4. \A x \in Sorts : /\ ATTRIBUTE_SCHEMA[x]["subCategory"] = Text(20, SubCategories(x))
                       /\ SubCategories(x) # {}
  BY Schema DEF SubCategories, CLEANING_SUB_CATEGORIES, REPAIR_SUB_CATEGORIES, RENTAL_SUB_CATEGORIES
<1>5. value.text \in SubCategories(c) /\ value.text \in SubCategories(other)
  BY <1>1, <1>3, <1>4, OneOfAFew
<1>6. SubCategories(c) \cap SubCategories(other) = {}
  BY <1>3 DEF SubCategories, CLEANING_SUB_CATEGORIES, REPAIR_SUB_CATEGORIES, RENTAL_SUB_CATEGORIES
<1> QED BY <1>5, <1>6

LEMMA OfOneCategory ==
  ASSUME NEW c, NEW raw, NEW other, c # other,
         DOMAIN ValidateAdAttributes(c, raw).stored \ {"durationLabel"} # {}
  PROVE  ValidateAdAttributes(other, ValidateAdAttributes(c, raw).stored).errors # {}
<1> DEFINE stored == ValidateAdAttributes(c, raw).stored
           given == {k \in DOMAIN raw \cap KeysOf(c) : raw[k].type # "null"}
<1>1. ValidateAdAttributes(c, raw).errors = {} /\ stored = Restrict(raw, given)
  BY StoredIs DEF NoAttributes
<1>2. DOMAIN stored = given /\ \A k \in given : stored[k] = raw[k]
  BY <1>1 DEF Restrict
<1>3. PICK k \in given : k # "durationLabel"
  BY <1>2
<1>4. ~Problem(c, k, raw[k])
  BY <1>1, <1>3, ErrorsAre
<1>5. Problem(other, k, raw[k])
  BY <1>3, <1>4, OtherRefuses DEF Problem
<1>6. k \in ValidateAdAttributes(other, stored).errors
  <2> HIDE DEF stored, given
  <2> QED BY <1>2, <1>3, <1>5, ErrorsAre
<1> QED BY <1>6

LEMMA DetailsStep == Answered => DetailsAsPromised
<1> SUFFICES ASSUME Answered, Done("details")
             PROVE  EveryProblemListed /\ ClearedIsAbsent /\ DetailsAreOfOneCategory
  BY DEF DetailsAsPromised, EveryProblemListed, ClearedIsAbsent, DetailsAreOfOneCategory
<1>1. outcome = ValidateAdAttributes(input.category, input.raw)
  BY AskedDetails
<1>2. EveryProblemListed
  BY <1>1, EveryProblem DEF EveryProblemListed
<1>3. ClearedIsAbsent
  BY <1>1, ClearedKeys, StoredAgain DEF ClearedIsAbsent
<1>4. DetailsAreOfOneCategory
  BY <1>1, OfOneCategory DEF DetailsAreOfOneCategory
<1> QED BY <1>2, <1>3, <1>4

\* applyPromo(), for any prices, orders and codes the DTOs allow: a code takes
\* off its percentage to the nearest rupee or its cap, and below the five
\* rupees where rounding matters alone can the total fall under zero.
THEOREM DiscountKept == RulesSpec => []DiscountAsPromised
BY Answering, DiscountStep, PTL

\* matchArea(), for any number of areas: the nearest of those that cover the
\* pin wins, then one named in the text, and none only when none could serve.
THEOREM NearestWins == RulesSpec => []AreaIsNearest
BY Answering, AddressStep, PTL

\* cancellationFee(), for any total and age: what goes back is more than half
\* of what was paid, and all of it within two hours.
THEOREM MostGoesBack == RulesSpec => []RefundIsMost
BY Answering, CancelStep, PTL

\* validateAdAttributes(), for any category and any values under any keys:
\* each key's problem is found whatever the others have, a null is an absent
\* key, and what one category stored no other accepts.
THEOREM DetailsKept == RulesSpec => []DetailsAsPromised
BY Answering, DetailsStep, PTL
=============================================================================
