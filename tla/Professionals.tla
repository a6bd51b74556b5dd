--------------------------- MODULE Professionals ---------------------------
(***************************************************************************)
(* The professionals of one company and one of its bookings: the company   *)
(* adds, edits and removes them (AdminCatalogService), super admins decide *)
(* on them (ProfessionalApprovalsService), and the company assigns them to *)
(* the booking and sends them the job by WhatsApp (AdminBookingsService).  *)
(*                                                                         *)
(* A step is one database statement, one transaction or one WhatsApp call. *)
(* The phone and email are one contact.  Of the categories only whether    *)
(* they hold the booking's matters.  The booking's money and the           *)
(* customer's notifications are in modules of their own.                   *)
(***************************************************************************)
EXTENDS BookingRules, FiniteSets

CONSTANTS
    Pros,          \* ids of professionals
    Contacts,      \* phones (or emails) after toE164
    Staff,         \* slots for the company's requests
    SuperAdmins,
    None,          \* null, for a professional or a super admin
    MaxMessages    \* bound on the WhatsApp messages logged

ASSUME ProfessionalsAssumption ==
    /\ None \notin Pros \cup SuperAdmins \cup Contacts
    /\ MaxMessages \in Nat

VARIABLES
    pro,       \* the Professional rows
    booking,   \* the ServiceBooking row
    log,       \* the WhatsappMessage rows about it, oldest first
    req,       \* the company's requests in flight
    checked,   \* history: the contacts a super admin approved, per professional
    assigned   \* history: the professionals the booking ever had

vars == <<pro, booking, log, req, checked, assigned>>

ProStatus == {"PENDING", "APPROVED", "REJECTED"}
WhatsappStatus == {"SENT", "FAILED", "SKIPPED"}
Steps == {"idle", "clear", "save", "delete", "readPro", "assign", "readAgain", "send", "log", "setStatus"}

\* A slot without a request.  pro and contact are what it is about, resubmit
\* what updateProfessional() made of the status it read, seen the booking's
\* status read and next the one to write, result what WhatsApp answered.
Idle == [pc |-> "idle", pro |-> None, contact |-> None, resubmit |-> FALSE, does |-> {},
         seen |-> "NONE", next |-> "NONE", result |-> "SKIPPED"]

\* A paid booking, nobody added yet.
Init ==
    /\ pro = [p \in Pros |-> [state |-> "absent", status |-> "PENDING", contact |-> None,
                              does |-> FALSE, decidedBy |-> None]]
    /\ booking = [status |-> "PENDING", pro |-> None]
    /\ log = <<>>
    /\ req = [a \in Staff |-> Idle]
    /\ checked = [p \in Pros |-> {}]
    /\ assigned = {}

At(a, pc) == req[a].pc = pc
Goto(a, r) == req' = [req EXCEPT ![a] = r]
Stored(p) == pro[p].state = "stored"

(***************************************************************************)
(* AdminCatalogService: the company's people                               *)
(***************************************************************************)

CreateProfessional(p, contact, does) ==
    /\ pro[p].state = "absent"
    /\ pro' = [pro EXCEPT ![p] = [state |-> "stored", status |-> "PENDING", contact |-> contact,
                                  does |-> does, decidedBy |-> None]]
    /\ UNCHANGED <<booking, log, req, checked, assigned>>

\* Whether the edit sends the professional back for approval.
Resubmit(current, contact) ==
    \/ current.status = "REJECTED"
    \/ current.status = "APPROVED" /\ contact # current.contact

\* updateProfessional() has read the row.  An edit that leaves the contact
\* out is one that repeats it; does is {} when the categories are left out.
UpdateProfessional(a, p, contact, does) ==
    /\ At(a, "idle")
    /\ Stored(p)
    /\ Goto(a, [Idle EXCEPT !.pc = IF does = {} THEN "save" ELSE "clear",
                            !.pro = p, !.contact = contact, !.does = does,
                            !.resubmit = Resubmit(pro[p], IF contact = None THEN pro[p].contact ELSE contact)])
    /\ UNCHANGED <<pro, booking, log, checked, assigned>>

Edited_KeepsDecision(p, r) ==  \* as if a resubmission left the old decision on the row
    [pro[p] EXCEPT !.contact = IF r.contact = None THEN @ ELSE r.contact,
                   !.does = @ \/ TRUE \in r.does,
                   !.status = IF r.resubmit THEN "PENDING" ELSE @]

\* The row after the edit [r]: only the fields named are written.
Edited(p, r) ==
    [pro[p] EXCEPT !.contact = IF r.contact = None THEN @ ELSE r.contact,
                   !.does = @ \/ TRUE \in r.does,
                   !.status = IF r.resubmit THEN "PENDING" ELSE @,
                   !.decidedBy = IF r.resubmit THEN None ELSE @]

\* Categories given replace the old ones.  Their delete is the first statement
\* of the transaction, and the client commits it by itself.
ClearCategories(a) ==
    /\ At(a, "clear")
    /\ pro' = [pro EXCEPT ![req[a].pro].does = FALSE]
    /\ Goto(a, [req[a] EXCEPT !.pc = "save"])
    /\ UNCHANGED <<booking, log, checked, assigned>>

\* The rest of AdminRepository.updateProfessional, one transaction: it throws
\* for a row that is gone and for a category another edit stored meanwhile.
SaveProfessional(a) ==
    /\ At(a, "save")
    /\ LET p == req[a].pro
           fails == ~Stored(p) \/ (pro[p].does /\ TRUE \in req[a].does)
       IN  pro' = IF fails THEN pro ELSE [pro EXCEPT ![p] = Edited(p, req[a])]
    /\ Goto(a, Idle)
    /\ UNCHANGED <<booking, log, checked, assigned>>

Active == {"CONFIRMED", "IN_PROGRESS"}
HasActiveAssignments(p) == booking.pro = p /\ booking.status \in Active

\* deleteProfessional() found no job that is confirmed or under way.
DeleteProfessional(a, p) ==
    /\ At(a, "idle")
    /\ Stored(p)
    /\ ~HasActiveAssignments(p)
    /\ Goto(a, [Idle EXCEPT !.pc = "delete", !.pro = p])
    /\ UNCHANGED <<pro, booking, log, checked, assigned>>

\* The delete; the foreign keys of bookings and messages become null.
DeleteWrite(a) ==
    /\ At(a, "delete")
    /\ LET p == req[a].pro
       IN  /\ pro' = [pro EXCEPT ![p].state = "deleted"]
           /\ booking' = [booking EXCEPT !.pro = IF @ = p THEN None ELSE @]
    /\ Goto(a, Idle)
    /\ UNCHANGED <<log, checked, assigned>>

(***************************************************************************)
(* ProfessionalApprovalsService                                            *)
(***************************************************************************)

Decidable_Any(p) == Stored(p)  \* as if the update did not ask for PENDING

Decidable(p) == Stored(p) /\ pro[p].status = "PENDING"

\* decide(): of two at once only one finds the professional waiting.
Decide(s, p, verdict) ==
    /\ Decidable(p)
    /\ pro' = [pro EXCEPT ![p].status = verdict, ![p].decidedBy = s]
    /\ checked' = [checked EXCEPT ![p] = IF verdict = "APPROVED" THEN @ \cup {pro[p].contact} ELSE @]
    /\ UNCHANGED <<booking, log, req, assigned>>

(***************************************************************************)
(* AdminBookingsService                                                    *)
(***************************************************************************)

\* assign() has read the booking, then reads the professional.
Assign(a, p) ==
    /\ At(a, "idle")
    /\ booking.status \in ASSIGNABLE
    /\ Goto(a, [Idle EXCEPT !.pc = "readPro", !.pro = p])
    /\ UNCHANGED <<pro, booking, log, checked, assigned>>

\* approvedFor(): the people the booking can go to.
Assignable(p) == Stored(p) /\ pro[p].status = "APPROVED" /\ pro[p].does

\* Not the company's, not approved, or not of the category: refused.
AssignRead(a) ==
    /\ At(a, "readPro")
    /\ LET p == req[a].pro
       IN  Goto(a, IF Assignable(p)
                   THEN [req[a] EXCEPT !.pc = "assign", !.contact = pro[p].contact]
                   ELSE Idle)
    /\ UNCHANGED <<pro, booking, log, checked, assigned>>

AssignWrite_SendsAnyway(a) ==  \* as if the job were sent before the write was known to stand
    /\ At(a, "assign")
    /\ LET p == req[a].pro
       IN  IF Stored(p)
           THEN booking' = [status |-> "CONFIRMED", pro |-> p] /\ assigned' = assigned \cup {p}
           ELSE UNCHANGED <<booking, assigned>>
    /\ Goto(a, [req[a] EXCEPT !.pc = "send"])
    /\ UNCHANGED <<pro, log, checked>>

\* updateBooking(), which the foreign key refuses for a professional removed
\* meanwhile; then the customer is told and the job is sent.
AssignWrite(a) ==
    /\ At(a, "assign")
    /\ LET p == req[a].pro
       IN  IF Stored(p)
           THEN /\ booking' = [status |-> "CONFIRMED", pro |-> p]
                /\ assigned' = assigned \cup {p}
                /\ Goto(a, [req[a] EXCEPT !.pc = "send"])
           ELSE Goto(a, Idle) /\ UNCHANGED <<booking, assigned>>
    /\ UNCHANGED <<pro, log, checked>>

\* resend() has read the booking.
Resend(a) ==
    /\ At(a, "idle")
    /\ booking.pro # None
    /\ booking.status \in Active
    /\ Goto(a, [Idle EXCEPT !.pc = "readAgain", !.pro = booking.pro])
    /\ UNCHANGED <<pro, booking, log, checked, assigned>>

\* It sends to the professional as they are now, whatever their status.
ResendRead(a) ==
    /\ At(a, "readAgain")
    /\ LET p == req[a].pro
       IN  Goto(a, IF Stored(p) THEN [req[a] EXCEPT !.pc = "send", !.contact = pro[p].contact] ELSE Idle)
    /\ UNCHANGED <<pro, booking, log, checked, assigned>>

\* sendTemplate(): off, refused or unreachable, or sent; it never throws.
SendTemplate(a, result) ==
    /\ At(a, "send")
    /\ Goto(a, [req[a] EXCEPT !.pc = "log", !.result = result])
    /\ UNCHANGED <<pro, booking, log, checked, assigned>>

\* logWhatsapp(), which throws for a professional removed meanwhile.
LogWhatsapp(a) ==
    /\ At(a, "log")
    /\ Len(log) < MaxMessages
    /\ log' = IF Stored(req[a].pro)
              THEN Append(log, [pro |-> req[a].pro, to |-> req[a].contact, status |-> req[a].result])
              ELSE log
    /\ Goto(a, Idle)
    /\ UNCHANGED <<pro, booking, checked, assigned>>

\* setStatus() has read the booking and allows the move.
SetStatus(a, next) ==
    /\ At(a, "idle")
    /\ next \in TRANSITIONS[booking.status]
    /\ next = "IN_PROGRESS" => booking.pro # None
    /\ Goto(a, [Idle EXCEPT !.pc = "setStatus", !.seen = booking.status, !.next = next])
    /\ UNCHANGED <<pro, booking, log, checked, assigned>>

\* A cancel is conditional on the status read, any other move is not.
SetStatusWrite(a) ==
    /\ At(a, "setStatus")
    /\ booking' = IF req[a].next = "CANCELLED" /\ booking.status # req[a].seen
                  THEN booking
                  ELSE [booking EXCEPT !.status = req[a].next]
    /\ Goto(a, Idle)
    /\ UNCHANGED <<pro, log, checked, assigned>>

\* The customer's cancel, a conditional update.
CustomerCancels ==
    /\ booking.status \in CUSTOMER_CANCELLABLE
    /\ booking' = [booking EXCEPT !.status = "CANCELLED"]
    /\ UNCHANGED <<pro, log, req, checked, assigned>>

\* A request dies between two of its steps.
Abort(a) ==
    /\ ~At(a, "idle")
    /\ Goto(a, Idle)
    /\ UNCHANGED <<pro, booking, log, checked, assigned>>

(***************************************************************************)
(* The system                                                              *)
(***************************************************************************)

\* The routes on the company's people.
TeamStep(a) ==
    \/ \E p \in Pros, contact \in Contacts, does \in BOOLEAN : CreateProfessional(p, contact, does)
    \/ \E p \in Pros, contact \in Contacts \cup {None}, does \in {{}, {TRUE}, {FALSE}} :
          UpdateProfessional(a, p, contact, does)
    \/ ClearCategories(a)
    \/ SaveProfessional(a)
    \/ \E p \in Pros : DeleteProfessional(a, p)
    \/ DeleteWrite(a)

\* The routes on the company's bookings.
BookingStep(a) ==
    \/ \E p \in Pros : Assign(a, p)
    \/ AssignRead(a)
    \/ AssignWrite(a)
    \/ Resend(a)
    \/ ResendRead(a)
    \/ \E result \in WhatsappStatus : SendTemplate(a, result)
    \/ LogWhatsapp(a)
    \/ \E next \in BookingStatus : SetStatus(a, next)
    \/ SetStatusWrite(a)

\* Approve and reject.
SuperAdminStep(s) == \E p \in Pros, verdict \in {"APPROVED", "REJECTED"} : Decide(s, p, verdict)

Next ==
    \/ \E a \in Staff : TeamStep(a) \/ BookingStep(a) \/ Abort(a)
    \/ \E s \in SuperAdmins : SuperAdminStep(s)
    \/ CustomerCancels

Spec == Init /\ [][Next]_vars

(***************************************************************************)
(* Properties                                                              *)
(***************************************************************************)

Professional == [state : {"absent", "stored", "deleted"}, status : ProStatus,
                 contact : Contacts \cup {None}, does : BOOLEAN, decidedBy : SuperAdmins \cup {None}]
Message == [pro : Pros, to : Contacts, status : WhatsappStatus]
Request == [pc : Steps, pro : Pros \cup {None}, contact : Contacts \cup {None}, resubmit : BOOLEAN,
            does : SUBSET BOOLEAN, seen : BookingStatus, next : BookingStatus, result : WhatsappStatus]

\* Every row, message and request has the shape of the schema.
TypeOK ==
    /\ pro \in [Pros -> Professional]
    /\ booking \in [status : BookingStatus, pro : Pros \cup {None}]
    /\ log \in Seq(Message)
    /\ req \in [Staff -> Request]
    /\ checked \in [Pros -> SUBSET Contacts]
    /\ assigned \subseteq Pros

\* The decision on the row belongs to its status: whoever waits has none, and
\* whoever does not wait has a super admin who decided, however edits that
\* resubmit and decisions cross.
DecisionMatchesStatus ==
    \A p \in Pros : pro[p].status = "PENDING" <=> pro[p].decidedBy = None

\* "Two super admins cannot both decide": a decision is only replaced after
\* the professional went back to PENDING.
DecidedOnce ==
    [][\A p \in Pros : pro[p].status # "PENDING" /\ pro'[p].status # "PENDING" =>
          pro'[p].status = pro[p].status /\ pro'[p].decidedBy = pro[p].decidedBy]_vars

\* The job, with the customer's address, is only sent to somebody who was
\* assigned to the booking, whatever is removed or edited meanwhile; and the
\* booking points at a professional who is still there, since a removal clears
\* it and an assignment of somebody removed is refused.
JobsGoToAssigned ==
    /\ \A i \in DOMAIN log : log[i].pro \in assigned
    /\ \A a \in Staff : req[a].pc \in {"send", "log"} => req[a].pro \in assigned
    /\ booking.pro # None => Stored(booking.pro)

\* A professional has to be approved again after "a new phone or email": an
\* approved one has a contact that a super admin approved.
ApprovedIsChecked ==
    \A p \in Pros : Stored(p) /\ pro[p].status = "APPROVED" => pro[p].contact \in checked[p]

\* A professional cannot be removed "while they have confirmed or in-progress
\* jobs", so such a job has its professional.
ActiveHasProfessional == booking.status \in Active => booking.pro # None

\* A super admin checks a phone or email that changed "before the company can
\* send them to a customer": the job goes out only to an approved professional.
JobsGoToApproved ==
    [][\A a \in Staff : ~At(a, "send") /\ req'[a].pc = "send" =>
          pro[req'[a].pro].status = "APPROVED"]_vars
=============================================================================
