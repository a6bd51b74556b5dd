----------------------------- MODULE PromoCodes -----------------------------
(***************************************************************************)
(* The promo codes of the admin panel: created, edited, switched on and    *)
(* off and deleted by several admins, while days pass.  A step is one      *)
(* database statement.  What a code is worth is in BookingRules.           *)
(***************************************************************************)
EXTENDS Naturals

CONSTANTS
    Promos,     \* ids of PromoCode rows
    Words,      \* codes, whatever their case
    LastDay,    \* bound on the days that pass
    Admins,     \* slots for requests
    NoPromo

\* What the constants must satisfy.
PromoAssumption == LastDay \in Nat /\ NoPromo \notin Promos

VARIABLES
    promo,  \* the PromoCode rows
    req,    \* requests in flight
    today   \* todayInIndia()

vars == <<promo, req, today>>

Days == 0..LastDay
Optional(S) == {{}} \cup {{s} : s \in S}
Given(field, default) == IF field = {} THEN default ELSE CHOOSE x \in field : TRUE

\* A code as it is typed; it is stored in capitals.
Typed == [word : Words, capitals : BOOLEAN]
Code == [word : Words, capitals : {TRUE}]

toUpperCase(code) == [code EXCEPT !.capitals = TRUE]

CreatePromoCodeDto == [code : Optional(Typed) \ {{}}, validTill : Optional(Days) \ {{}}, active : Optional(BOOLEAN)]
UpdatePromoCodeDto == [code : Optional(Typed), validTill : Optional(Days), active : Optional(BOOLEAN)]

\* day is the one the request was checked on.
IdleRequest == [pc |-> "idle", id |-> NoPromo, code |-> {}, validTill |-> {}, active |-> {}, day |-> 0]

Init ==
    /\ promo = [p \in Promos |-> {}]
    /\ req = [a \in Admins |-> IdleRequest]
    /\ today = 0

\* The ids of other codes with one of these spellings.
Others(id, code) == {p \in Promos \ {id} : \E row \in promo[p] : row.code \in code}

\* checkValidTill(): today or later.
CheckValidTill(validTill) == \A day \in validTill : day >= today

Goto(a, pc, id, dto) ==
    req' = [req EXCEPT ![a] = [pc |-> pc, id |-> id, code |-> {toUpperCase(c) : c \in dto.code},
                               validTill |-> dto.validTill, active |-> dto.active, day |-> today]]

\* createPromoCode() found no such code.
CreatePromoCode(a, dto) ==
    /\ req[a].pc = "idle"
    /\ CheckValidTill(dto.validTill)
    /\ Others(NoPromo, {toUpperCase(c) : c \in dto.code}) = {}
    /\ Goto(a, "insert", NoPromo, dto)
    /\ UNCHANGED <<promo, today>>

CanSwitchOn_Any(dto, current) == TRUE  \* as if an expired code could be switched back on

\* Switching on a code that has expired needs a new date.
CanSwitchOn(dto, current) == dto.active = {TRUE} /\ dto.validTill = {} => current.validTill >= today

\* updatePromoCode() has read the row, and looked for a new code.
UpdatePromoCode(a, p, dto) ==
    /\ req[a].pc = "idle"
    /\ \E current \in promo[p] : CanSwitchOn(dto, current)
    /\ CheckValidTill(dto.validTill)
    /\ Others(p, {toUpperCase(c) : c \in dto.code}) = {}
    /\ Goto(a, "update", p, dto)
    /\ UNCHANGED <<promo, today>>

\* The insert; the unique index refuses a code stored meanwhile.
InsertPromoCode(a) ==
    /\ req[a].pc = "insert"
    /\ IF Others(NoPromo, req[a].code) # {} THEN UNCHANGED promo
       ELSE \E p \in Promos :
               /\ promo[p] = {}
               /\ promo' = [promo EXCEPT ![p] = {[code |-> Given(req[a].code, 0), validTill |-> Given(req[a].validTill, 0),
                                                  active |-> Given(req[a].active, TRUE)]}]
    /\ req' = [req EXCEPT ![a] = IdleRequest]
    /\ UNCHANGED today

\* The update; it throws for a row that is gone and for a code that is taken.
SavePromoCode(a) ==
    /\ req[a].pc = "update"
    /\ promo' = IF Others(req[a].id, req[a].code) # {} THEN promo
                ELSE [promo EXCEPT ![req[a].id] =
                        {[code |-> Given(req[a].code, row.code), validTill |-> Given(req[a].validTill, row.validTill),
                          active |-> Given(req[a].active, row.active)] : row \in @}]
    /\ req' = [req EXCEPT ![a] = IdleRequest]
    /\ UNCHANGED today

\* deletePromoCode() has read the row; the delete throws for one that is gone.
DeletePromoCode(p) ==
    /\ promo[p] # {}
    /\ promo' = [promo EXCEPT ![p] = {}]
    /\ UNCHANGED <<req, today>>

Midnight ==
    /\ today < LastDay
    /\ today' = today + 1
    /\ UNCHANGED <<promo, req>>

\* The routes on promo codes.
PromoStep(a) ==
    \/ \E dto \in CreatePromoCodeDto : CreatePromoCode(a, dto)
    \/ \E p \in Promos, dto \in UpdatePromoCodeDto : UpdatePromoCode(a, p, dto)
    \/ InsertPromoCode(a)
    \/ SavePromoCode(a)

Next ==
    \/ \E a \in Admins : PromoStep(a)
    \/ \E p \in Promos : DeletePromoCode(p)
    \/ Midnight

Spec == Init /\ [][Next]_vars

(***************************************************************************)
(* Properties                                                              *)
(***************************************************************************)

\* Codes are stored in capitals, however they are typed.
TypeOK ==
    /\ \A p \in Promos : promo[p] \subseteq [code : Code, validTill : Days, active : BOOLEAN]
    /\ \A a \in Admins : req[a].pc \in {"idle", "insert", "update"} /\ req[a].day \in Days

\* "Switching an expired code back on returns 409": the code an edit switches
\* on was good on the day the edit was checked.
SwitchedOnIsValid ==
    [][\A a \in Admins : req[a].pc = "update" /\ req'[a].pc = "idle" /\ req[a].active = {TRUE} =>
          \A row \in promo'[req[a].id] : promo'[req[a].id] # promo[req[a].id] => row.validTill >= req[a].day]_vars
=============================================================================
