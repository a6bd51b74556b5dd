---------------------------- MODULE Marketplace ----------------------------
(***************************************************************************)
(* One marketplace listing (MarketplaceService and its repository): its    *)
(* seller, or an ELK Rental admin, edits, pauses and deletes it from       *)
(* several devices while users open it and save it to their wishlists.     *)
(*                                                                         *)
(* A step is one database statement or transaction; a transaction that     *)
(* reads before it writes is two steps, the second one being where the     *)
(* unique index can refuse it.  Title, price, place and icon are carried   *)
(* along and left out.                                                     *)
(***************************************************************************)
EXTENDS AdAttributes, Sequences

CONSTANTS
    Users,       \* people who browse
    Taps,        \* slots for their requests
    Editors,     \* slots for requests of the seller and of rental admins
    Legacy,      \* a category of before categories were checked
    Forms,       \* the details a form may send
    Photos,      \* sets of image keys
    MaxSlips,    \* bound on the removals from wishlists that die half-way
    Nobody       \* the user of a slot without a request

ASSUME MarketplaceAssumption ==
    /\ Legacy \notin AD_CATEGORIES
    /\ Nobody \notin Users
    /\ {} \in Photos
    /\ MaxSlips \in Nat

VARIABLES
    ad,      \* the Ad row with its images
    views,   \* the users with an AdView row
    saves,   \* the users with an AdWishlist row
    edit,    \* requests that manage the listing
    tap,     \* requests of people who browse
    slips    \* history: the removals from wishlists that died before the counter

vars == <<ad, views, saves, edit, tap, slips>>

AdStatus == {"DRAFT", "ACTIVE", "PAUSED"}
RENTAL_CATEGORIES == {"car_rental"}

\* A field a request may leave out is a set: empty, or its one value.
Optional(S) == {{}} \cup {{s} : s \in S}
Given(field, default) == IF field = {} THEN default ELSE CHOOSE x \in field : TRUE

\* Listings created by the app today, with the fields that are checked.
CreateAdDto == [category : AD_CATEGORIES, status : Optional(AdStatus),
                attributes : Optional(Forms), images : Optional(Photos)]
UpdateAdDto == [category : Optional(AD_CATEGORIES), status : Optional(AdStatus),
                attributes : Optional(Forms), images : Optional(Photos)]

NoChanges == [category |-> {}, status |-> {}, attributes |-> {}, images |-> {}]
IdleEdit == [pc |-> "idle", dto |-> NoChanges, seen |-> Legacy]
IdleTap == [pc |-> "idle", user |-> Nobody]

NoAd == [state |-> "absent", category |-> Legacy, status |-> "DRAFT", deleted |-> FALSE,
         attributes |-> NoAttributes, images |-> {}, viewCount |-> 0, wishlistCount |-> 0]

\* No listing yet, or one of before categories were checked.
Init ==
    /\ ad \in {NoAd, [NoAd EXCEPT !.state = "stored", !.status = "ACTIVE"]}
    /\ views = {}
    /\ saves = {}
    /\ edit = [e \in Editors |-> IdleEdit]
    /\ tap = [t \in Taps |-> IdleTap]
    /\ slips = 0

(***************************************************************************)
(* The seller's side                                                       *)
(***************************************************************************)

\* MarketplaceRepository.create: the row and its images.
NewAd(dto, details) ==
    [NoAd EXCEPT !.state = "stored", !.category = dto.category, !.status = Given(dto.status, "ACTIVE"),
                 !.attributes = details, !.images = Given(dto.images, {})]

\* create(): refused when a detail has a problem.
Create(dto) ==
    /\ ad.state = "absent"
    /\ LET checked == ValidateAdAttributes(dto.category, Given(dto.attributes, NoAttributes))
       IN  /\ checked.errors = {}
           /\ ad' = NewAd(dto, checked.stored)
    /\ UNCHANGED <<views, saves, edit, tap, slips>>

\* assertCanManage(): the row as the owner reads it, deleted ones left out.
\* An admin who holds the rental module manages any rental.
CanManage(who) ==
    /\ ad.state = "stored"
    /\ ~ad.deleted
    /\ who = "admin" => ad.category \in RENTAL_CATEGORIES

AttributesToWrite_OfCurrent(dto, seen) ==  \* as if details were checked against the category it has now
    IF dto.attributes # {}
    THEN LET checked == ValidateAdAttributes(seen, Given(dto.attributes, NoAttributes))
         IN  [errors |-> checked.errors, write |-> {checked.stored}]
    ELSE [errors |-> {}, write |-> IF Given(dto.category, seen) # seen THEN {NoAttributes} ELSE {}]

\* The details an update writes: those it was sent, checked against the
\* category the listing will have, or none at all when it moves category.
AttributesToWrite(dto, seen) ==
    LET category == Given(dto.category, seen)
    IN  IF dto.attributes # {}
        THEN LET checked == ValidateAdAttributes(category, Given(dto.attributes, NoAttributes))
             IN  [errors |-> checked.errors, write |-> {checked.stored}]
        ELSE [errors |-> {}, write |-> IF category # seen THEN {NoAttributes} ELSE {}]

\* Only the fields given are written; the photos are added to those there are.
Edited(dto, write) ==
    [ad EXCEPT !.category = Given(dto.category, @), !.status = Given(dto.status, @),
               !.attributes = Given(write, @), !.images = @ \cup Given(dto.images, {})]

\* update() has read the listing; it is refused when a detail has a problem.
Update(e, who, dto) ==
    /\ edit[e].pc = "idle"
    /\ CanManage(who)
    /\ AttributesToWrite(dto, ad.category).errors = {}
    /\ edit' = [edit EXCEPT ![e] = [pc |-> IF dto.images # {} THEN "clear" ELSE "update",
                                    dto |-> dto, seen |-> ad.category]]
    /\ UNCHANGED <<ad, views, saves, tap, slips>>

ClearPhotos_Skipped(e) ==  \* as if the new photos joined the old ones
    /\ edit[e].pc = "clear"
    /\ edit' = [edit EXCEPT ![e].pc = "update"]
    /\ UNCHANGED <<ad, views, saves, tap, slips>>

\* MarketplaceRepository.update, when photos are given: the delete of the old
\* ones commits by itself (prisma.extension.ts), although it is written inside
\* the transaction.
ClearPhotos(e) ==
    /\ edit[e].pc = "clear"
    /\ ad' = [ad EXCEPT !.images = {}]
    /\ edit' = [edit EXCEPT ![e].pc = "update"]
    /\ UNCHANGED <<views, saves, tap, slips>>

\* The rest of the transaction, to a row found by its id alone.
UpdateWrite(e) ==
    /\ edit[e].pc = "update"
    /\ ad' = Edited(edit[e].dto, AttributesToWrite(edit[e].dto, edit[e].seen).write)
    /\ edit' = [edit EXCEPT ![e] = IdleEdit]
    /\ UNCHANGED <<views, saves, tap, slips>>

\* remove() has read the listing.
Remove(e, who) ==
    /\ edit[e].pc = "idle"
    /\ CanManage(who)
    /\ edit' = [edit EXCEPT ![e].pc = "delete"]
    /\ UNCHANGED <<ad, views, saves, tap, slips>>

SoftDelete(e) ==
    /\ edit[e].pc = "delete"
    /\ ad' = [ad EXCEPT !.deleted = TRUE, !.status = "PAUSED"]
    /\ edit' = [edit EXCEPT ![e] = IdleEdit]
    /\ UNCHANGED <<views, saves, tap, slips>>

(***************************************************************************)
(* The buyers' side                                                        *)
(***************************************************************************)

\* findById(): what a buyer can open.  It does not read deletedAt.
Visible == ad.state = "stored" /\ ad.status = "ACTIVE" /\ ad.category \in AD_CATEGORIES

Tap(t, u, pc) ==
    /\ tap[t].pc = "idle"
    /\ Visible
    /\ tap' = [tap EXCEPT ![t] = [pc |-> pc, user |-> u]]
    /\ UNCHANGED <<ad, views, saves, edit, slips>>

\* detail() and setWishlisted() have read the listing.
Detail(t, u) == Tap(t, u, "findView")
SetWishlisted(t, u, wishlisted) == Tap(t, u, IF wishlisted THEN "findSave" ELSE "unsave")

\* The transaction looks for the user's row; with one there is nothing to do.
Find(t, pc, rows, next) ==
    /\ tap[t].pc = pc
    /\ tap' = [tap EXCEPT ![t] = IF tap[t].user \in rows THEN IdleTap ELSE [@ EXCEPT !.pc = next]]
    /\ UNCHANGED <<ad, views, saves, edit, slips>>

FindView(t) == Find(t, "findView", views, "view")
FindSave(t) == Find(t, "findSave", saves, "save")

RecordView_NoUnique(t) ==  \* as if the pair of listing and user were not unique
    /\ tap[t].pc = "view"
    /\ views' = views \cup {tap[t].user}
    /\ ad' = [ad EXCEPT !.viewCount = @ + 1]
    /\ tap' = [tap EXCEPT ![t] = IdleTap]
    /\ UNCHANGED <<saves, edit, slips>>

\* recordView(): the row and the counter, unless the row came meanwhile: the
\* unique index then fails the whole transaction.
RecordView(t) ==
    /\ tap[t].pc = "view"
    /\ IF tap[t].user \in views THEN UNCHANGED <<ad, views>>
       ELSE /\ views' = views \cup {tap[t].user}
            /\ ad' = [ad EXCEPT !.viewCount = @ + 1]
    /\ tap' = [tap EXCEPT ![t] = IdleTap]
    /\ UNCHANGED <<saves, edit, slips>>

\* addToWishlist(), in the same way.
AddToWishlist(t) ==
    /\ tap[t].pc = "save"
    /\ IF tap[t].user \in saves THEN UNCHANGED <<ad, saves>>
       ELSE /\ saves' = saves \cup {tap[t].user}
            /\ ad' = [ad EXCEPT !.wishlistCount = @ + 1]
    /\ tap' = [tap EXCEPT ![t] = IdleTap]
    /\ UNCHANGED <<views, edit, slips>>

\* removeFromWishlist(): the delete commits by itself, and the counter follows
\* when there was a row.
RemoveFromWishlist(t) ==
    /\ tap[t].pc = "unsave"
    /\ saves' = saves \ {tap[t].user}
    /\ tap' = [tap EXCEPT ![t] = IF tap[t].user \in saves THEN [@ EXCEPT !.pc = "countDown"] ELSE IdleTap]
    /\ UNCHANGED <<ad, views, edit, slips>>

CountDown(t) ==
    /\ tap[t].pc = "countDown"
    /\ ad' = [ad EXCEPT !.wishlistCount = IF @ > 0 THEN @ - 1 ELSE @]
    /\ tap' = [tap EXCEPT ![t] = IdleTap]
    /\ UNCHANGED <<views, saves, edit, slips>>

\* A request dies, or its transaction is rolled back.
AbortEdit(e) ==
    /\ edit[e].pc # "idle"
    /\ edit' = [edit EXCEPT ![e] = IdleEdit]
    /\ UNCHANGED <<ad, views, saves, tap, slips>>

AbortTap(t) ==
    /\ tap[t].pc # "idle"
    /\ IF tap[t].pc = "countDown" THEN slips < MaxSlips /\ slips' = slips + 1 ELSE UNCHANGED slips
    /\ tap' = [tap EXCEPT ![t] = IdleTap]
    /\ UNCHANGED <<ad, views, saves, edit>>

(***************************************************************************)
(* The system                                                              *)
(***************************************************************************)

\* The routes of buyers.
BuyerStep(t) ==
    \/ \E u \in Users : Detail(t, u)
    \/ \E u \in Users, wishlisted \in BOOLEAN : SetWishlisted(t, u, wishlisted)
    \/ FindView(t) \/ RecordView(t)
    \/ FindSave(t) \/ AddToWishlist(t) \/ RemoveFromWishlist(t) \/ CountDown(t)
    \/ AbortTap(t)

\* The routes of sellers and of rental admins.
SellerStep(e) ==
    \/ \E dto \in CreateAdDto : Create(dto)
    \/ \E who \in {"seller", "admin"}, dto \in UpdateAdDto : Update(e, who, dto)
    \/ ClearPhotos(e) \/ UpdateWrite(e)
    \/ \E who \in {"seller", "admin"} : Remove(e, who)
    \/ SoftDelete(e)
    \/ AbortEdit(e)

Next ==
    \/ \E t \in Taps : BuyerStep(t)
    \/ \E e \in Editors : SellerStep(e)

Spec == Init /\ [][Next]_vars

(***************************************************************************)
(* Properties                                                              *)
(***************************************************************************)

\* Every row and every request has the shape of the schema.
TypeOK ==
    /\ ad.state \in {"absent", "stored"}
    /\ ad.category \in AD_CATEGORIES \cup {Legacy}
    /\ ad.status \in AdStatus
    /\ ad.deleted \in BOOLEAN
    /\ ad.images \subseteq UNION Photos
    /\ views \subseteq Users
    /\ saves \subseteq Users
    /\ edit \in [Editors -> [pc : {"idle", "clear", "update", "delete"}, dto : UpdateAdDto,
                             seen : AD_CATEGORIES \cup {Legacy}]]
    /\ tap \in [Taps -> [pc : {"idle", "findView", "view", "findSave", "save", "unsave", "countDown"},
                         user : Users \cup {Nobody}]]

\* "The counter is only bumped on a genuinely new row, inside the same
\* transaction, so the two can never drift": whatever taps of one user cross,
\* the counters count the people who viewed and who saved.  The wishlist's is
\* ahead by the removals between their two statements, and for good by those
\* that died there.
CountersCountPeople ==
    /\ ad.viewCount = Cardinality(views)
    /\ ad.wishlistCount =
          Cardinality(saves) + Cardinality({t \in Taps : tap[t].pc = "countDown"}) + slips

\* "Replacing its photos": the photos stored are those of one request.
PhotosAreOfOneEdit == ad.images \in Photos

\* "Replacing its photos", written as one transaction: an edit that was given
\* photos does not leave the listing without any.
PhotosAreReplaced ==
    [][\A e \in Editors : edit[e].pc = "update" /\ edit'[e].pc = "idle" /\ Given(edit[e].dto.images, {}) # {}
                            => ad'.images # {}]_vars

\* "The shape is validated per category at the API boundary, so nothing
\* unvalidated reaches the row": the details stored are ones its category
\* accepts.
DetailsFitCategory ==
    ValidateAdAttributes(ad.category, ad.attributes) = [errors |-> {}, stored |-> ad.attributes]

\* "PAUSED is not a valid starting state - an ad has to exist before it can be
\* paused."
StartsDraftOrLive ==
    [][ad.state = "absent" /\ ad'.state = "stored" => ad'.status \in {"DRAFT", "ACTIVE"}]_vars

\* The repository "does its own deletedAt filtering and pairs the stamp with a
\* status change": a deleted listing is not shown to buyers again.
DeletedIsHidden == ad.deleted => ~Visible
=============================================================================
