---------------------------- MODULE StaffAccess ----------------------------
(***************************************************************************)
(* Accounts and what staff may do: the super admins' Users tab             *)
(* (AdminUsersService), customers who sign themselves up, profiles, and    *)
(* the guards that admit an admin to a route by the modules they hold.     *)
(*                                                                         *)
(* A step is one database statement or transaction, a delete being one of  *)
(* its own (prisma.extension.ts).  Names and languages are left out, and   *)
(* so is the deletion of accounts, which no route does.                    *)
(***************************************************************************)
EXTENDS FiniteSets

CONSTANTS
    Accounts,   \* ids of users
    Lines,      \* telephone lines, without their country code
    Codes,      \* country codes, "91" among them
    Emails,
    Choices,    \* the sets of modules a form may send
    Tabs,       \* slots for requests of super admins
    Phones,     \* slots for people who sign in
    Calls,      \* slots for requests of admins
    None        \* null

VARIABLES
    account,  \* the User rows with their AdminModuleAccess rows
    given,    \* history: the sets of modules ever given to an account
    tab,      \* requests of super admins in flight
    login,    \* sign-ins in flight, each the number it has not found
    call      \* requests of admins that the guards let through

vars == <<account, given, tab, login, call>>

UserType == {"USER", "ADMIN", "SUPER_ADMIN"}
STAFF_ROLES == {"ADMIN", "SUPER_ADMIN"}
AdminModule == {"CLEAN", "REPAIR", "RENTAL"}

\* What the constants must satisfy.
StaffAssumption ==
    /\ "91" \in Codes
    /\ Choices \subseteq SUBSET AdminModule
    /\ None \notin Accounts \cup Emails

Optional(S) == {{}} \cup {{s} : s \in S}
Given(field, default) == IF field = {} THEN default ELSE CHOOSE x \in field : TRUE

(***************************************************************************)
(* Numbers: what is stored has a country code, what is typed may not.      *)
(***************************************************************************)

Number == [code : Codes, line : Lines]
Typed == [code : Codes \cup {"none"}, line : Lines]

toE164(phone) == IF phone.code = "none" THEN [phone EXCEPT !.code = "91"] ELSE phone

CreateStaffDto == [role : STAFF_ROLES, phone : Typed, email : Emails \cup {None}, modules : {{}} \cup Choices]
UpdateStaffDto == [phone : Optional(Typed), email : Optional(Emails \cup {None}), modules : Optional({{}} \cup Choices)]

NoUser == [state |-> "absent", role |-> "USER", phone |-> None, email |-> None, modules |-> {}]
IdleTab == [pc |-> "idle", user |-> None, role |-> "USER", phone |-> {}, email |-> {}, modules |-> {}]
IdleCall == [user |-> None, scope |-> {}]

\* The first super admin is made by hand.
Init ==
    /\ \E u \in Accounts, n \in Number :
          account = [v \in Accounts |-> IF v = u THEN [NoUser EXCEPT !.state = "stored", !.role = "SUPER_ADMIN", !.phone = n]
                                        ELSE NoUser]
    /\ given = [u \in Accounts |-> {}]
    /\ tab = [a \in Tabs |-> IdleTab]
    /\ login = [p \in Phones |-> {}]
    /\ call = [c \in Calls |-> IdleCall]

Stored(u) == account[u].state = "stored"

\* taken(): accounts other than [except] with one of these values.
Taken(field, values, except) ==
    \E u \in Accounts : u # except /\ Stored(u) /\ account[u][field] # None /\ account[u][field] \in values

\* What the two unique indexes refuse.
Clashes(r) == Taken("phone", r.phone, r.user) \/ Taken("email", r.email, r.user)

(***************************************************************************)
(* AdminUsersService                                                       *)
(***************************************************************************)

\* modulesFor(): an admin needs at least one.
ModulesFor(role, modules) == IF role = "ADMIN" THEN modules ELSE {}
ModulesFit(role, modules) == role = "ADMIN" => modules # {}

CreateStaff(a, dto) ==
    /\ tab[a].pc = "idle"
    /\ ModulesFit(dto.role, dto.modules)
    /\ tab' = [tab EXCEPT ![a] = [pc |-> "checkNew", user |-> None, role |-> dto.role, phone |-> {toE164(dto.phone)},
                                  email |-> {dto.email}, modules |-> {ModulesFor(dto.role, dto.modules)}]]
    /\ UNCHANGED <<account, given, login, call>>

\* updateStaff() has read the account.  A customer's is refused, and so are
\* modules for somebody who is no admin.
UpdateStaff(a, u, dto) ==
    /\ tab[a].pc = "idle"
    /\ Stored(u)
    /\ account[u].role # "USER"
    /\ dto.modules # {} => account[u].role = "ADMIN" /\ ModulesFit("ADMIN", Given(dto.modules, {}))
    /\ tab' = [tab EXCEPT ![a] = [pc |-> "check", user |-> u, role |-> account[u].role,
                                  phone |-> {toE164(p) : p \in dto.phone}, email |-> dto.email, modules |-> dto.modules]]
    /\ UNCHANGED <<account, given, login, call>>

\* assertFree(), both fields: whoever takes one of them after this is met by
\* the unique index.
AssertFree(a) ==
    /\ tab[a].pc \in {"checkNew", "check"}
    /\ tab' = [tab EXCEPT ![a] = IF Clashes(@) THEN IdleTab
                                 ELSE [@ EXCEPT !.pc = IF tab[a].pc = "checkNew" THEN "insert"
                                                       ELSE IF tab[a].modules # {} THEN "clear" ELSE "update"]]
    /\ UNCHANGED <<account, given, login, call>>

\* AdminUsersRepository.createStaff, one transaction.
InsertStaff(a) ==
    /\ tab[a].pc = "insert"
    /\ IF Clashes(tab[a]) THEN UNCHANGED <<account, given>>
       ELSE \E u \in Accounts :
               /\ account[u].state = "absent"
               /\ account' = [account EXCEPT ![u] =
                    [state |-> "stored", role |-> tab[a].role, phone |-> Given(tab[a].phone, None),
                     email |-> Given(tab[a].email, None), modules |-> Given(tab[a].modules, {})]]
               /\ given' = [given EXCEPT ![u] = tab[a].modules]
    /\ tab' = [tab EXCEPT ![a] = IdleTab]
    /\ UNCHANGED <<login, call>>

\* AdminUsersRepository.updateStaff, when modules are given: the delete, which
\* is committed at once.
ClearModules(a) ==
    /\ tab[a].pc = "clear"
    /\ account' = [account EXCEPT ![tab[a].user].modules = {}]
    /\ tab' = [tab EXCEPT ![a].pc = "update"]
    /\ UNCHANGED <<given, login, call>>

\* The rest of the transaction: it fails for a module another request stored
\* meanwhile, and for a number or an email another account took meanwhile.
SaveStaff(a) ==
    /\ tab[a].pc = "update"
    /\ LET r == tab[a]
           now == account[r.user]
           modules == Given(r.modules, {})
       IN  IF Clashes(r) \/ modules \cap now.modules # {} THEN UNCHANGED <<account, given>>
           ELSE /\ account' = [account EXCEPT ![r.user] = [now EXCEPT !.phone = Given(r.phone, @), !.email = Given(r.email, @),
                                                                      !.modules = @ \cup modules]]
                /\ given' = [given EXCEPT ![r.user] = @ \cup r.modules]
    /\ tab' = [tab EXCEPT ![a] = IdleTab]
    /\ UNCHANGED <<login, call>>

\* The request dies between two of its statements.
Abort(a) ==
    /\ tab[a].pc # "idle"
    /\ tab' = [tab EXCEPT ![a] = IdleTab]
    /\ UNCHANGED <<account, given, login, call>>

(***************************************************************************)
(* Everybody's own account                                                 *)
(***************************************************************************)

\* loginWithPhone() of somebody without an account: found none, makes one.
FindByPhone(p, n) ==
    /\ login[p] = {}
    /\ ~Taken("phone", {n}, None)
    /\ login' = [login EXCEPT ![p] = {n}]
    /\ UNCHANGED <<account, given, tab, call>>

CreateByPhone(p) ==
    /\ login[p] # {}
    /\ IF Taken("phone", login[p], None) THEN UNCHANGED account
       ELSE \E u \in Accounts :
               /\ account[u].state = "absent"
               /\ account' = [account EXCEPT ![u] = [NoUser EXCEPT !.state = "stored", !.phone = Given(login[p], None)]]
    /\ login' = [login EXCEPT ![p] = {}]
    /\ UNCHANGED <<given, tab, call>>

\* updateProfile(): the unique index alone guards the email.
UpdateProfile(u, email) ==
    /\ Stored(u)
    /\ ~Taken("email", {email}, u)
    /\ account' = [account EXCEPT ![u].email = email]
    /\ UNCHANGED <<given, tab, login, call>>

(***************************************************************************)
(* The guards of a route                                                   *)
(***************************************************************************)

VERTICAL_OF == [m \in {"CLEAN", "REPAIR"} |-> IF m = "CLEAN" THEN "CLEANING" ELSE "REPAIR"]
verticalsOf(modules) == {VERTICAL_OF[m] : m \in modules \cap DOMAIN VERTICAL_OF}

Scope_OfRoute(u) == {"CLEAN", "REPAIR"}  \* as if the scope were what the route asks for

\* The modules an admin holds, read at every request.
Scope(u) == account[u].modules

\* RolesGuard: the routes of a company are for admins.
RoleAllowed(u) == account[u].role \in {"ADMIN"}

\* AdminModulesGuard: one of the modules the routes are about.
Admit(c, u) ==
    /\ call[c].user = None
    /\ Stored(u)
    /\ RoleAllowed(u)
    /\ account[u].modules \cap {"CLEAN", "REPAIR"} # {}
    /\ call' = [call EXCEPT ![c] = [user |-> u, scope |-> Scope(u)]]
    /\ UNCHANGED <<account, given, tab, login>>

Answer(c) ==
    /\ call[c].user # None
    /\ call' = [call EXCEPT ![c] = IdleCall]
    /\ UNCHANGED <<account, given, tab, login>>

(***************************************************************************)
(* The system                                                              *)
(***************************************************************************)

\* The routes of the Users tab.
UsersTab(a) ==
    \/ \E dto \in CreateStaffDto : CreateStaff(a, dto)
    \/ \E u \in Accounts, dto \in UpdateStaffDto : UpdateStaff(a, u, dto)
    \/ AssertFree(a) \/ InsertStaff(a) \/ ClearModules(a) \/ SaveStaff(a) \/ Abort(a)

\* PATCH users/me.
ProfileStep == \E u \in Accounts, email \in Emails : UpdateProfile(u, email)

Next ==
    \/ \E a \in Tabs : UsersTab(a)
    \/ \E p \in Phones : (\E n \in Number : FindByPhone(p, n)) \/ CreateByPhone(p)
    \/ ProfileStep
    \/ \E c \in Calls : (\E u \in Accounts : Admit(c, u)) \/ Answer(c)

Spec == Init /\ [][Next]_vars

(***************************************************************************)
(* Properties                                                              *)
(***************************************************************************)

User == [state : {"absent", "stored"}, role : UserType, phone : Number \cup {None}, email : Emails \cup {None},
         modules : SUBSET AdminModule]

\* Every row has the shape of the schema, and a number is stored with its
\* country code, however it was typed.
TypeOK ==
    /\ account \in [Accounts -> User]
    /\ given \in [Accounts -> SUBSET SUBSET AdminModule]
    /\ \A c \in Calls : call[c].user \in Accounts \cup {None}

\* Modules given to an admin "replace" the ones they had: they hold those of
\* one request, or none while it is under way, never what two of them add up to.
ModulesAreOfOneRequest ==
    \A u \in Accounts : account[u].modules \in given[u] \cup {{}}

\* "Services and bookings are then limited to the vertical(s) they hold": the
\* verticals a request acts in are ones a super admin gave that admin, however
\* their modules change meanwhile.
ScopeWasGiven ==
    \A c \in Calls : call[c].user # None =>
        /\ verticalsOf(call[c].scope) # {}
        /\ \E modules \in given[call[c].user] : verticalsOf(call[c].scope) \subseteq verticalsOf(modules)

\* "An ADMIN needs at least one module; a SUPER_ADMIN holds none": so once no
\* request is under way every admin has something to run.
AdminHasModules ==
    (\A a \in Tabs : tab[a].pc = "idle") =>
        \A u \in Accounts : Stored(u) => (account[u].role = "ADMIN" <=> account[u].modules # {})

\* With one super admin at a time: the modules an admin holds, and the
\* verticals a request acts in, are those of one request.
StaffKeepScope == TypeOK /\ ScopeWasGiven /\ ModulesAreOfOneRequest
=============================================================================
