------------------------------ MODULE Addresses ------------------------------
(***************************************************************************)
(* The address book (LocationsService, LocationsRepository): addresses are *)
(* soft-deleted by the Prisma extension, and one of a user's is the        *)
(* default that bookings start from.                                       *)
(*                                                                         *)
(* A step is a read or a transaction; a transaction that clears the old    *)
(* default locks the user's rows, so it is one step.  An address is its    *)
(* owner, isDefault and deletedAt; its id is its age.                      *)
(***************************************************************************)
EXTENDS Naturals

CONSTANTS
    Users,
    Requests,      \* slots for requests
    Nobody,
    MaxAddresses   \* bound on the addresses created

\* What the constants must satisfy.
AddressesAssumption == Nobody \notin Users /\ MaxAddresses \in Nat

VARIABLES
    address,   \* the Address rows
    req        \* requests in flight

vars == <<address, req>>

Ids == 1 .. MaxAddresses
Optional(S) == {{}} \cup {{s} : s \in S}

CreateAddressDto == [isDefault : Optional(BOOLEAN)]
UpdateAddressDto == [isDefault : Optional(BOOLEAN)]

IdleRequest == [pc |-> "idle", user |-> Nobody, id |-> 0, dto |-> [isDefault |-> {}]]

Init ==
    /\ address = [i \in Ids |-> {}]
    /\ req = [a \in Requests |-> IdleRequest]

RowsOf(u) == {i \in Ids : \E row \in address[i] : row.user = u}

\* Every read of the extension leaves out the removed rows.
withNotDeleted(ids) == {i \in ids : \E row \in address[i] : ~row.deleted}

\* The default, or else the oldest.
findDefaultForUser(u) ==
    LET mine == withNotDeleted(RowsOf(u))
        defaults == {i \in mine : \E row \in address[i] : row.isDefault}
        best == IF defaults = {} THEN mine ELSE defaults
    IN  {i \in best : \A j \in best : i <= j}

clearDefault_Kept(u, i) == address  \* as if the old default stayed

\* updateMany of the user's default rows, removed ones too, except [i].
clearDefault(u, i) ==
    [j \in Ids |-> {IF row.user = u /\ j # i THEN [row EXCEPT !.isDefault = FALSE] ELSE row : row \in address[j]}]

\* create(): one transaction.
Create(u, dto) ==
    /\ \E i \in Ids :
          /\ address[i] = {}
          /\ \A j \in 1 .. i - 1 : address[j] # {}
          /\ LET cleared == IF TRUE \in dto.isDefault THEN clearDefault(u, i) ELSE address
             IN  address' = [cleared EXCEPT ![i] = {[user |-> u, isDefault |-> TRUE \in dto.isDefault, deleted |-> FALSE]}]
    /\ UNCHANGED req

\* update() and remove() have found the address among the caller's.
RequireOwned(a, u, i, pc, dto) ==
    /\ req[a].pc = "idle"
    /\ i \in withNotDeleted(RowsOf(u))
    /\ req' = [req EXCEPT ![a] = [pc |-> pc, user |-> u, id |-> i, dto |-> dto]]
    /\ UNCHANGED address

\* The write goes by id, also when the row was removed meanwhile.
Update(a) ==
    /\ req[a].pc = "update"
    /\ LET r == req[a]
           cleared == IF TRUE \in r.dto.isDefault THEN clearDefault(r.user, r.id) ELSE address
       IN  address' = [cleared EXCEPT ![r.id] =
                         {IF r.dto.isDefault = {} THEN row ELSE [row EXCEPT !.isDefault = TRUE \in r.dto.isDefault] : row \in @}]
    /\ req' = [req EXCEPT ![a] = IdleRequest]

\* delete becomes an update that stamps deletedAt.
Remove(a) ==
    /\ req[a].pc = "remove"
    /\ address' = [address EXCEPT ![req[a].id] = {[row EXCEPT !.deleted = TRUE] : row \in @}]
    /\ req' = [req EXCEPT ![a] = IdleRequest]

Abort(a) ==
    /\ req[a].pc # "idle"
    /\ req' = [req EXCEPT ![a] = IdleRequest]
    /\ UNCHANGED address

\* The routes under locations.
LocationsStep(a, u) ==
    \/ \E dto \in CreateAddressDto : Create(u, dto)
    \/ \E i \in Ids :
          \/ \E dto \in UpdateAddressDto : RequireOwned(a, u, i, "update", dto)
          \/ RequireOwned(a, u, i, "remove", IdleRequest.dto)

Next == \E a \in Requests : (\E u \in Users : LocationsStep(a, u)) \/ Update(a) \/ Remove(a) \/ Abort(a)

Spec == Init /\ [][Next]_vars

(***************************************************************************)
(* Properties                                                              *)
(***************************************************************************)

\* The rows and the requests are what the code writes.
TypeOK ==
    /\ \A i \in Ids : address[i] \subseteq [user : Users, isDefault : BOOLEAN, deleted : BOOLEAN]
    /\ req \in [Requests -> [pc : {"idle", "update", "remove"}, user : Users \cup {Nobody}, id : 0 .. MaxAddresses,
                             dto : UpdateAddressDto]]

Shown(i) == \E row \in address[i] : ~row.deleted
Default(i) == \E row \in address[i] : row.isDefault

\* "One default per user enforced transactionally", through updates that land
\* on a row removed or made default by another request.
OneDefault == \A u \in Users : \A i, j \in RowsOf(u) : Shown(i) /\ Default(i) /\ Shown(j) /\ Default(j) => i = j

\* A booking starts from an address its customer still has, and from the
\* default if there is one, although removed rows keep their flag.
PrefillIsShown ==
    \A u \in Users :
        /\ \A i \in findDefaultForUser(u) : Shown(i)
        /\ \A i \in RowsOf(u) : Shown(i) /\ Default(i) => findDefaultForUser(u) = {i}

=============================================================================
