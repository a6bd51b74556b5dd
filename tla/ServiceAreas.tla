---------------------------- MODULE ServiceAreas ----------------------------
(***************************************************************************)
(* The service areas of one company: each is saved with the centre Google  *)
(* finds for its place, and edits that name some of its fields.  A step is *)
(* one database statement or one search at Google.  District and area are  *)
(* one name; radius and active are one setting.                            *)
(***************************************************************************)
EXTENDS Naturals

CONSTANTS
    Areas,      \* ids of ServiceLocation rows
    Names,      \* area and district
    Pincodes,
    Settings,   \* radius and active
    Requests,   \* slots for the company's requests
    Unmapped,   \* a null lat and lng
    NoArea

\* What the constants must satisfy.
AreasAssumption == NoArea \notin Areas

VARIABLES
    area,   \* the ServiceLocation rows
    req     \* requests in flight

vars == <<area, req>>

Place == [name : Names, pincode : Pincodes]
Centre == Place \cup {Unmapped}   \* a centre is named by the place it is of

Optional(S) == {{}} \cup {{s} : s \in S}
Given(field, default) == IF field = {} THEN default ELSE CHOOSE x \in field : TRUE

CreateLocationDto == [name : Optional(Names) \ {{}}, pincode : Optional(Pincodes) \ {{}}, setting : Optional(Settings) \ {{}}]
UpdateLocationDto == [name : Optional(Names), pincode : Optional(Pincodes), setting : Optional(Settings)]

Nothing == [name |-> {}, pincode |-> {}, setting |-> {}]
IdleRequest == [pc |-> "idle", id |-> NoArea, dto |-> Nothing, place |-> {}, centre |-> Unmapped]

Init ==
    /\ area = [l \in Areas |-> {}]
    /\ req = [a \in Requests |-> IdleRequest]

\* The place a form is about, on top of [base].
PlaceOf(dto, base) == [name |-> Given(dto.name, base.name), pincode |-> Given(dto.pincode, base.pincode)]

\* createLocation().
CreateLocation(a, l, dto) ==
    /\ req[a].pc = "idle"
    /\ area[l] = {}
    /\ \A b \in Requests : req[b].id # l
    /\ req' = [req EXCEPT ![a] = [IdleRequest EXCEPT !.pc = "geocode", !.id = l, !.dto = dto,
                                                     !.place = {[name |-> Given(dto.name, ""), pincode |-> Given(dto.pincode, "")]}]]
    /\ UNCHANGED area

Moved_ByName(dto, current) == \E n \in dto.name : n # current.place.name  \* as if a new pincode were no move

Moved(dto, current) == PlaceOf(dto, current.place) # current.place

\* updateLocation() has read the area.  The centre is found again when the
\* place changed or it never was; otherwise the one it read is kept.
UpdateLocation(a, l, dto) ==
    /\ req[a].pc = "idle"
    /\ \E current \in area[l] :
          req' = [req EXCEPT ![a] =
                    IF Moved(dto, current) \/ current.centre = Unmapped
                    THEN [IdleRequest EXCEPT !.pc = "geocode", !.id = l, !.dto = dto, !.place = {PlaceOf(dto, current.place)}]
                    ELSE [IdleRequest EXCEPT !.pc = "save", !.id = l, !.dto = dto, !.centre = current.centre]]
    /\ UNCHANGED area

\* geocode(): the centre of the place, or null when Google finds nothing or
\* cannot be asked.
Geocode(a, found) ==
    /\ req[a].pc = "geocode"
    /\ req' = [req EXCEPT ![a].pc = "save", ![a].centre = IF found THEN CHOOSE p \in req[a].place : TRUE ELSE Unmapped]
    /\ UNCHANGED area

\* The insert, or the update of the fields named and of the centre.
Save(a) ==
    /\ req[a].pc = "save"
    /\ LET r == req[a]
       IN  area' = [area EXCEPT ![r.id] =
             IF @ = {}
             THEN {[place |-> CHOOSE p \in r.place : TRUE, setting |-> Given(r.dto.setting, ""), centre |-> r.centre]}
             ELSE {[place |-> PlaceOf(r.dto, current.place), setting |-> Given(r.dto.setting, current.setting),
                    centre |-> r.centre] : current \in @}]
    /\ req' = [req EXCEPT ![a] = IdleRequest]

Abort(a) ==
    /\ req[a].pc # "idle"
    /\ req' = [req EXCEPT ![a] = IdleRequest]
    /\ UNCHANGED area

\* The routes on the company's areas.
AreaStep(a) ==
    \/ \E l \in Areas, dto \in CreateLocationDto : CreateLocation(a, l, dto)
    \/ \E l \in Areas, dto \in UpdateLocationDto : UpdateLocation(a, l, dto)

Next == \E a \in Requests : AreaStep(a) \/ (\E found \in BOOLEAN : Geocode(a, found)) \/ Save(a) \/ Abort(a)

Spec == Init /\ [][Next]_vars

(***************************************************************************)
(* Properties                                                              *)
(***************************************************************************)

\* Every area has a place, settings and a centre or null.
TypeOK == \A l \in Areas : area[l] \subseteq [place : Place, setting : Settings, centre : Centre]

\* "Centre of the area, geocoded when the admin saves it.  Null when that
\* failed": the centre stored is of the place stored.  Bookings go by it.
CentreIsOfThePlace == \A l \in Areas : \A row \in area[l] : row.centre \in {row.place, Unmapped}

=============================================================================
