------------------------ MODULE ProfessionalsProofs ------------------------
(***************************************************************************)
(* Professionals' invariants for any number of professionals, contacts,    *)
(* requests, super admins and messages.  IInv is inductive: a professional *)
(* in the catalogue has a contact, and a request that is about to send a   *)
(* job, or will read whom to send it to, is about somebody who was         *)
(* assigned.                                                               *)
(***************************************************************************)
EXTENDS Professionals, TLAPS

\* What a request in the slot [r] relies on.
RequestKnows(r) ==
    /\ r.pc \notin {"idle", "setStatus"} => r.pro \in Pros
    /\ r.pc \in {"readAgain", "send", "log"} => r.pro \in assigned
    /\ r.pc \in {"assign", "send", "log"} => r.contact \in Contacts

ProsInv == \A p \in Pros : Stored(p) => pro[p].contact \in Contacts
ReqInv == \A a \in Staff : RequestKnows(req[a])
BookingInv == booking.pro # None => booking.pro \in assigned

IInv ==
    /\ TypeOK
    /\ DecisionMatchesStatus
    /\ JobsGoToAssigned
    /\ ProsInv
    /\ ReqInv
    /\ BookingInv

(***************************************************************************)
(* Steps of a request                                                      *)
(***************************************************************************)

\* An empty slot is well typed and relies on nothing.
LEMMA IdleFacts == Idle \in Request /\ Idle.pc = "idle" /\ RequestKnows(Idle)
  BY DEF Idle, Request, RequestKnows, Steps, BookingStatus, WhatsappStatus

\* A step that only moves its request on keeps IInv, when what the request
\* now relies on holds.
LEMMA OnlyRequest ==
  ASSUME IInv, NEW a \in Staff, NEW r \in Request, Goto(a, r), RequestKnows(r),
         UNCHANGED <<pro, booking, log, checked, assigned>>
  PROVE  IInv'
<1>1. req' \in [Staff -> Request]
  BY DEF IInv, TypeOK, Goto
<1>2. TypeOK' /\ DecisionMatchesStatus' /\ ProsInv' /\ BookingInv'
  BY <1>1 DEF IInv, TypeOK, DecisionMatchesStatus, ProsInv, BookingInv, Stored
<1>3. ReqInv'
  BY DEF IInv, TypeOK, Goto, ReqInv, RequestKnows
<1>4. JobsGoToAssigned'
  BY <1>1, <1>3, ProfessionalsAssumption DEF IInv, TypeOK, JobsGoToAssigned, ReqInv, RequestKnows, Stored
<1> QED BY <1>2, <1>3, <1>4 DEF IInv

\* A step on the professionals' rows that ends or moves its request, keeps who
\* is in the catalogue with a contact, and touches no decision by halves.
LEMMA OnlyPros ==
  ASSUME IInv, pro' \in [Pros -> Professional],
         \A p \in Pros : pro'[p].status = "PENDING" <=> pro'[p].decidedBy = None,
         \A p \in Pros : pro'[p].state = "stored" => pro'[p].contact \in Contacts,
         \A p \in Pros : Stored(p) => pro'[p].state = "stored",
         UNCHANGED <<booking, log, assigned>>, checked' \in [Pros -> SUBSET Contacts],
         req' \in [Staff -> Request], \A a \in Staff : RequestKnows(req'[a])
  PROVE  IInv'
<1>1. TypeOK' /\ DecisionMatchesStatus' /\ ProsInv' /\ BookingInv' /\ ReqInv'
  BY DEF IInv, TypeOK, DecisionMatchesStatus, ProsInv, BookingInv, ReqInv, RequestKnows, Stored
<1>2. JobsGoToAssigned'
  BY <1>1 DEF IInv, TypeOK, JobsGoToAssigned, ReqInv, RequestKnows, Stored
<1> QED BY <1>1, <1>2 DEF IInv

(***************************************************************************)
(* The company's people                                                    *)
(***************************************************************************)

LEMMA CreateStep ==
  ASSUME IInv, NEW p \in Pros, NEW contact \in Contacts, NEW does \in BOOLEAN,
         CreateProfessional(p, contact, does)
  PROVE  IInv'
<1> DEFINE row == [state |-> "stored", status |-> "PENDING", contact |-> contact,
                   does |-> does, decidedBy |-> None]
<1>1. row \in Professional
  BY DEF Professional, ProStatus
<1>2. pro' = [pro EXCEPT ![p] = row]
  BY DEF CreateProfessional
<1>3. pro' \in [Pros -> Professional]
  BY <1>1, <1>2 DEF IInv, TypeOK
<1> QED BY <1>2, <1>3, OnlyPros DEF IInv, TypeOK, CreateProfessional, DecisionMatchesStatus, ProsInv,
     ReqInv, Stored

LEMMA UpdateStep ==
  ASSUME IInv, NEW a \in Staff, NEW p \in Pros, NEW contact \in Contacts \cup {None},
         NEW does \in {{}, {TRUE}, {FALSE}}, UpdateProfessional(a, p, contact, does)
  PROVE  IInv'
<1> DEFINE resubmit == Resubmit(pro[p], IF contact = None THEN pro[p].contact ELSE contact)
           r == [Idle EXCEPT !.pc = IF does = {} THEN "save" ELSE "clear",
                             !.pro = p, !.contact = contact, !.does = does, !.resubmit = resubmit]
<1>1. resubmit \in BOOLEAN
  BY DEF Resubmit
<1>2. Goto(a, r) /\ UNCHANGED <<pro, booking, log, checked, assigned>>
  BY DEF UpdateProfessional
<1> HIDE DEF resubmit
<1>3. r \in Request /\ RequestKnows(r)
  BY <1>1, IdleFacts DEF Idle, Request, RequestKnows, Steps
<1> HIDE DEF r
<1> QED BY <1>2, <1>3, OnlyRequest

\* The first statement of an edit that names categories.
LEMMA ClearStep ==
  ASSUME IInv, NEW a \in Staff, ClearCategories(a) PROVE IInv'
<1> DEFINE p == req[a].pro
           r == [req[a] EXCEPT !.pc = "save"]
<1>1. req[a] \in Request /\ RequestKnows(req[a]) /\ req[a].pc = "clear"
  BY DEF IInv, TypeOK, ReqInv, ClearCategories, At
<1>2. p \in Pros /\ r \in Request /\ RequestKnows(r)
  BY <1>1 DEF Request, RequestKnows, Steps
<1>3. pro' = [pro EXCEPT ![p].does = FALSE] /\ pro[p] \in Professional
  BY <1>2 DEF ClearCategories, IInv, TypeOK
<1>4. pro' \in [Pros -> Professional]
  BY <1>3 DEF IInv, TypeOK, Professional
<1>5. req' \in [Staff -> Request] /\ \A b \in Staff : RequestKnows(req'[b])
  BY <1>2 DEF IInv, TypeOK, ReqInv, ClearCategories, Goto
<1> QED BY <1>2, <1>3, <1>4, <1>5, OnlyPros DEF IInv, TypeOK, DecisionMatchesStatus, ProsInv, Stored,
     ClearCategories, Professional

\* A slot that is left empty disturbs no other request.
LEMMA EndRequest ==
  ASSUME TypeOK, ReqInv, NEW a \in Staff, Goto(a, Idle), UNCHANGED assigned
  PROVE  req' \in [Staff -> Request] /\ \A b \in Staff : RequestKnows(req'[b])
BY IdleFacts DEF TypeOK, ReqInv, Goto

\* An edit leaves a row well formed: sent back for approval it loses its
\* decision with its status, otherwise it keeps both.
LEMMA EditedFacts ==
  ASSUME TypeOK, NEW p \in Pros, NEW r \in Request
  PROVE  /\ Edited(p, r) \in Professional
         /\ Edited(p, r).state = pro[p].state
         /\ Edited(p, r).contact = pro[p].contact \/ Edited(p, r).contact \in Contacts
         /\ \/ Edited(p, r).status = "PENDING" /\ Edited(p, r).decidedBy = None
            \/ Edited(p, r).status = pro[p].status /\ Edited(p, r).decidedBy = pro[p].decidedBy
<1>1. pro[p] \in Professional
  BY DEF TypeOK
<1>2. r.resubmit \in BOOLEAN /\ (TRUE \in r.does) \in BOOLEAN /\ r.contact \in Contacts \cup {None}
  BY DEF Request
<1> QED BY <1>1, <1>2 DEF Edited, Professional, ProStatus

LEMMA SaveStep ==
  ASSUME IInv, NEW a \in Staff, SaveProfessional(a) PROVE IInv'
<1> DEFINE p == req[a].pro
<1>1. req[a] \in Request /\ p \in Pros
  BY DEF IInv, TypeOK, ReqInv, RequestKnows, SaveProfessional, At
<1>2. req' \in [Staff -> Request] /\ \A b \in Staff : RequestKnows(req'[b])
  BY EndRequest DEF IInv, SaveProfessional
<1>3. pro' = pro \/ pro' = [pro EXCEPT ![p] = Edited(p, req[a])]
  BY DEF SaveProfessional
<1>4. CASE pro' = pro
  BY <1>2, <1>4, OnlyPros DEF IInv, TypeOK, DecisionMatchesStatus, ProsInv, Stored, SaveProfessional
<1>5. CASE pro' = [pro EXCEPT ![p] = Edited(p, req[a])]
  <2> DEFINE row == Edited(p, req[a])
  <2>1. /\ row \in Professional /\ row.state = pro[p].state
        /\ row.contact = pro[p].contact \/ row.contact \in Contacts
        /\ \/ row.status = "PENDING" /\ row.decidedBy = None
           \/ row.status = pro[p].status /\ row.decidedBy = pro[p].decidedBy
    BY <1>1, EditedFacts DEF IInv
  <2> HIDE DEF row
  <2>2. pro' = [pro EXCEPT ![p] = row]
    BY <1>5 DEF row
  <2>3. pro' \in [Pros -> Professional]
    BY <2>1, <2>2 DEF IInv, TypeOK
  <2>4. \A q \in Pros : pro'[q] = IF q = p THEN row ELSE pro[q]
    BY <2>2 DEF IInv, TypeOK
  <2>5. \A q \in Pros : /\ pro'[q].status = "PENDING" <=> pro'[q].decidedBy = None
                        /\ pro'[q].state = pro[q].state
                        /\ pro'[q].state = "stored" => pro'[q].contact \in Contacts
    BY <1>1, <2>1, <2>4 DEF IInv, DecisionMatchesStatus, ProsInv, Stored
  <2>6. UNCHANGED <<booking, log, checked, assigned>> /\ checked \in [Pros -> SUBSET Contacts]
    BY DEF SaveProfessional, IInv, TypeOK
  <2> QED BY <1>2, <2>3, <2>5, <2>6, OnlyPros DEF Stored
<1> QED BY <1>3, <1>4, <1>5

LEMMA DeleteStep ==
  ASSUME IInv, NEW a \in Staff, NEW p \in Pros, DeleteProfessional(a, p) PROVE IInv'
<1> DEFINE r == [Idle EXCEPT !.pc = "delete", !.pro = p]
<1>1. r \in Request /\ RequestKnows(r)
  BY IdleFacts DEF Idle, Request, RequestKnows, Steps
<1>2. Goto(a, r) /\ UNCHANGED <<pro, booking, log, checked, assigned>>
  BY DEF DeleteProfessional
<1> HIDE DEF r
<1> QED BY <1>1, <1>2, OnlyRequest

\* A removal takes the professional off the booking too.
LEMMA DeleteWriteStep ==
  ASSUME IInv, NEW a \in Staff, DeleteWrite(a) PROVE IInv'
<1> DEFINE p == req[a].pro
<1>1. p \in Pros
  BY DEF IInv, ReqInv, RequestKnows, DeleteWrite, At
<1>2. req' \in [Staff -> Request] /\ \A b \in Staff : RequestKnows(req'[b])
  BY EndRequest DEF IInv, DeleteWrite
<1>3. pro' = [pro EXCEPT ![p].state = "deleted"] /\ UNCHANGED <<log, checked, assigned>>
  BY DEF DeleteWrite
<1>4. /\ pro' \in [Pros -> Professional]
      /\ \A q \in Pros : /\ pro'[q].status = pro[q].status /\ pro'[q].decidedBy = pro[q].decidedBy
                         /\ pro'[q].contact = pro[q].contact
                         /\ pro'[q].state = IF q = p THEN "deleted" ELSE pro[q].state
  BY <1>1, <1>3 DEF IInv, TypeOK, Professional
<1>5. booking' \in [status : BookingStatus, pro : Pros \cup {None}]
      /\ (booking'.pro = None \/ (booking'.pro = booking.pro /\ booking.pro # p))
  BY DEF DeleteWrite, IInv, TypeOK
<1>6. TypeOK' /\ DecisionMatchesStatus' /\ ProsInv' /\ BookingInv'
  BY <1>2, <1>3, <1>4, <1>5 DEF IInv, TypeOK, DecisionMatchesStatus, ProsInv, BookingInv, Stored
<1>7. ReqInv'
  BY <1>2, <1>3 DEF ReqInv, RequestKnows
<1>8. JobsGoToAssigned'
  BY <1>2, <1>3, <1>4, <1>5 DEF IInv, TypeOK, JobsGoToAssigned, RequestKnows, Stored
<1> QED BY <1>6, <1>7, <1>8 DEF IInv

(***************************************************************************)
(* Decisions                                                               *)
(***************************************************************************)

LEMMA DecideStep ==
  ASSUME IInv, NEW s \in SuperAdmins, NEW p \in Pros, NEW verdict \in {"APPROVED", "REJECTED"},
         Decide(s, p, verdict)
  PROVE  IInv'
<1>1. pro[p] \in Professional /\ Stored(p) /\ pro[p].contact \in Contacts /\ s # None
  BY ProfessionalsAssumption DEF IInv, TypeOK, ProsInv, Decide, Decidable
<1>2. pro' = [pro EXCEPT ![p] = [pro[p] EXCEPT !.status = verdict, !.decidedBy = s]]
  BY DEF Decide, IInv, TypeOK
<1>3. pro' \in [Pros -> Professional]
  BY <1>1, <1>2 DEF IInv, TypeOK, Professional, ProStatus
<1>4. checked' \in [Pros -> SUBSET Contacts]
  BY <1>1 DEF Decide, IInv, TypeOK
<1> QED BY <1>1, <1>2, <1>3, <1>4, OnlyPros DEF IInv, TypeOK, DecisionMatchesStatus, ProsInv, ReqInv, Stored,
     Decide, Professional

(***************************************************************************)
(* The company's bookings                                                  *)
(***************************************************************************)

LEMMA AssignStep ==
  ASSUME IInv, NEW a \in Staff, NEW p \in Pros, Assign(a, p) PROVE IInv'
<1> DEFINE r == [Idle EXCEPT !.pc = "readPro", !.pro = p]
<1>1. r \in Request /\ RequestKnows(r)
  BY IdleFacts DEF Idle, Request, RequestKnows, Steps
<1>2. Goto(a, r) /\ UNCHANGED <<pro, booking, log, checked, assigned>>
  BY DEF Assign
<1> HIDE DEF r
<1> QED BY <1>1, <1>2, OnlyRequest

\* assign() keeps the contact of a professional in the catalogue.
LEMMA AssignReadStep ==
  ASSUME IInv, NEW a \in Staff, AssignRead(a) PROVE IInv'
<1> DEFINE p == req[a].pro
           r == [req[a] EXCEPT !.pc = "assign", !.contact = pro[p].contact]
<1>1. req[a] \in Request /\ p \in Pros
  BY DEF IInv, TypeOK, ReqInv, RequestKnows, AssignRead, At
<1>2. UNCHANGED <<pro, booking, log, checked, assigned>>
  BY DEF AssignRead
<1>3. CASE Assignable(p)
  <2>1. pro[p].contact \in Contacts
    BY <1>1, <1>3 DEF IInv, ProsInv, Assignable
  <2>2. r \in Request /\ RequestKnows(r)
    BY <1>1, <2>1 DEF Request, RequestKnows, Steps
  <2>3. Goto(a, r)
    BY <1>3 DEF AssignRead
  <2> HIDE DEF r
  <2> QED BY <1>2, <2>2, <2>3, OnlyRequest
<1>4. CASE ~Assignable(p)
  <2>1. Goto(a, Idle)
    BY <1>4 DEF AssignRead
  <2> QED BY <1>2, <2>1, IdleFacts, OnlyRequest
<1> QED BY <1>3, <1>4

\* updateBooking(): who gets the booking is still there, and from now on was
\* assigned.
LEMMA AssignWriteStep ==
  ASSUME IInv, NEW a \in Staff, AssignWrite(a) PROVE IInv'
<1> DEFINE p == req[a].pro
           r == [req[a] EXCEPT !.pc = "send"]
<1>1. req[a] \in Request /\ p \in Pros /\ req[a].contact \in Contacts /\ UNCHANGED <<pro, log, checked>>
  BY DEF IInv, TypeOK, ReqInv, RequestKnows, AssignWrite, At
<1>2. CASE ~Stored(p)
  <2>1. Goto(a, Idle) /\ UNCHANGED <<pro, booking, log, checked, assigned>>
    BY <1>1, <1>2 DEF AssignWrite
  <2> QED BY <2>1, IdleFacts, OnlyRequest
<1>3. CASE Stored(p)
  <2>1. /\ booking' = [status |-> "CONFIRMED", pro |-> p]
        /\ assigned' = assigned \cup {p}
        /\ req' = [req EXCEPT ![a] = r]
    BY <1>3 DEF AssignWrite, Goto
  <2>2. r \in Request /\ r.pc = "send" /\ r.pro = p /\ r.contact \in Contacts
    BY <1>1 DEF Request, Steps
  <2> HIDE DEF r
  <2>3. TypeOK'
    BY <1>1, <2>1, <2>2 DEF IInv, TypeOK, BookingStatus
  <2>4. DecisionMatchesStatus' /\ ProsInv' /\ BookingInv'
    BY <1>1, <2>1 DEF IInv, DecisionMatchesStatus, ProsInv, BookingInv, Stored
  <2>5. ReqInv'
    BY <1>1, <2>1, <2>2 DEF IInv, TypeOK, ReqInv, RequestKnows
  <2>6. JobsGoToAssigned'
    <3>1. \A i \in DOMAIN log' : log'[i].pro \in assigned'
      BY <1>1, <2>1 DEF IInv, JobsGoToAssigned
    <3>2. booking'.pro # None => Stored(booking.pro)'
      BY <1>1, <1>3, <2>1 DEF Stored
    <3> QED BY <2>5, <3>1, <3>2 DEF JobsGoToAssigned, ReqInv, RequestKnows
  <2> QED BY <2>3, <2>4, <2>5, <2>6 DEF IInv
<1> QED BY <1>2, <1>3

\* resend() starts from the professional the booking points at.
LEMMA ResendStep ==
  ASSUME IInv, NEW a \in Staff, Resend(a) PROVE IInv'
<1> DEFINE r == [Idle EXCEPT !.pc = "readAgain", !.pro = booking.pro]
<1>1. booking.pro \in Pros /\ booking.pro \in assigned
  BY DEF IInv, TypeOK, BookingInv, Resend
<1>2. r \in Request /\ RequestKnows(r)
  BY <1>1, IdleFacts DEF Idle, Request, RequestKnows, Steps
<1>3. Goto(a, r) /\ UNCHANGED <<pro, booking, log, checked, assigned>>
  BY DEF Resend
<1> HIDE DEF r
<1> QED BY <1>2, <1>3, OnlyRequest

LEMMA ResendReadStep ==
  ASSUME IInv, NEW a \in Staff, ResendRead(a) PROVE IInv'
<1> DEFINE p == req[a].pro
           r == [req[a] EXCEPT !.pc = "send", !.contact = pro[p].contact]
<1>1. req[a] \in Request /\ p \in Pros /\ p \in assigned
  BY DEF IInv, TypeOK, ReqInv, RequestKnows, ResendRead, At
<1>2. UNCHANGED <<pro, booking, log, checked, assigned>>
  BY DEF ResendRead
<1>3. CASE Stored(p)
  <2>1. pro[p].contact \in Contacts
    BY <1>1, <1>3 DEF IInv, ProsInv
  <2>2. r \in Request /\ RequestKnows(r)
    BY <1>1, <2>1 DEF Request, RequestKnows, Steps
  <2>3. Goto(a, r)
    BY <1>3 DEF ResendRead
  <2> HIDE DEF r
  <2> QED BY <1>2, <2>2, <2>3, OnlyRequest
<1>4. CASE ~Stored(p)
  <2>1. Goto(a, Idle)
    BY <1>4 DEF ResendRead
  <2> QED BY <1>2, <2>1, IdleFacts, OnlyRequest
<1> QED BY <1>3, <1>4

LEMMA SendStep ==
  ASSUME IInv, NEW a \in Staff, NEW result \in WhatsappStatus, SendTemplate(a, result) PROVE IInv'
<1> DEFINE r == [req[a] EXCEPT !.pc = "log", !.result = result]
<1>1. req[a] \in Request /\ RequestKnows(req[a]) /\ req[a].pc = "send"
  BY DEF IInv, TypeOK, ReqInv, SendTemplate, At
<1>2. r \in Request /\ RequestKnows(r)
  BY <1>1 DEF Request, RequestKnows, Steps
<1>3. Goto(a, r) /\ UNCHANGED <<pro, booking, log, checked, assigned>>
  BY DEF SendTemplate
<1> HIDE DEF r
<1> QED BY <1>2, <1>3, OnlyRequest

\* The message logged is about the professional of the request.
LEMMA LogStep ==
  ASSUME IInv, NEW a \in Staff, LogWhatsapp(a) PROVE IInv'
<1> DEFINE m == [pro |-> req[a].pro, to |-> req[a].contact, status |-> req[a].result]
<1>1. m \in Message /\ m.pro \in assigned
  BY DEF IInv, TypeOK, ReqInv, RequestKnows, LogWhatsapp, At, Request, Message
<1>2. log' = log \/ log' = Append(log, m)
  BY DEF LogWhatsapp
<1>3. UNCHANGED <<pro, booking, checked, assigned>>
  BY DEF LogWhatsapp
<1>4. req' \in [Staff -> Request] /\ \A b \in Staff : RequestKnows(req'[b])
  BY <1>3, EndRequest DEF IInv, LogWhatsapp
<1> HIDE DEF m
<1>5. log \in Seq(Message) /\ \A i \in 1 .. Len(log) : log[i].pro \in assigned
  BY DEF IInv, TypeOK, JobsGoToAssigned
<1>6. log' \in Seq(Message)
  BY <1>1, <1>2, <1>5
<1>7. \A i \in DOMAIN log' : log'[i].pro \in assigned
  BY <1>1, <1>2, <1>5
<1>8. TypeOK' /\ DecisionMatchesStatus' /\ ProsInv' /\ BookingInv' /\ ReqInv'
  BY <1>3, <1>4, <1>6 DEF IInv, TypeOK, DecisionMatchesStatus, ProsInv, BookingInv, ReqInv, RequestKnows, Stored
<1>9. JobsGoToAssigned'
  BY <1>3, <1>4, <1>7 DEF IInv, JobsGoToAssigned, RequestKnows, Stored
<1> QED BY <1>8, <1>9 DEF IInv

LEMMA SetStatusStep ==
  ASSUME IInv, NEW a \in Staff, NEW next \in BookingStatus, SetStatus(a, next) PROVE IInv'
<1> DEFINE r == [Idle EXCEPT !.pc = "setStatus", !.seen = booking.status, !.next = next]
<1>1. r \in Request /\ RequestKnows(r)
  BY IdleFacts DEF Idle, Request, RequestKnows, Steps, IInv, TypeOK
<1>2. Goto(a, r) /\ UNCHANGED <<pro, booking, log, checked, assigned>>
  BY DEF SetStatus
<1> HIDE DEF r
<1> QED BY <1>1, <1>2, OnlyRequest

\* A step that only moves the booking's status keeps its professional.
LEMMA OnlyStatus ==
  ASSUME IInv, NEW status \in BookingStatus,
         booking' = booking \/ booking' = [booking EXCEPT !.status = status],
         req' \in [Staff -> Request], \A b \in Staff : RequestKnows(req'[b]),
         UNCHANGED <<pro, log, checked, assigned>>
  PROVE  IInv'
<1>1. booking' \in [status : BookingStatus, pro : Pros \cup {None}] /\ booking'.pro = booking.pro
  BY DEF IInv, TypeOK
<1>2. TypeOK' /\ DecisionMatchesStatus' /\ ProsInv' /\ BookingInv' /\ ReqInv'
  BY <1>1 DEF IInv, TypeOK, DecisionMatchesStatus, ProsInv, BookingInv, ReqInv, RequestKnows, Stored
<1>3. JobsGoToAssigned'
  BY <1>1 DEF IInv, JobsGoToAssigned, RequestKnows, Stored
<1> QED BY <1>2, <1>3 DEF IInv

LEMMA SetStatusWriteStep ==
  ASSUME IInv, NEW a \in Staff, SetStatusWrite(a) PROVE IInv'
<1>1. req[a].next \in BookingStatus
  BY DEF IInv, TypeOK, Request
<1>2. req' \in [Staff -> Request] /\ \A b \in Staff : RequestKnows(req'[b])
  BY EndRequest DEF IInv, SetStatusWrite
<1> QED BY <1>1, <1>2, OnlyStatus DEF SetStatusWrite

LEMMA CustomerStep ==
  ASSUME IInv, CustomerCancels PROVE IInv'
<1>1. "CANCELLED" \in BookingStatus
  BY DEF BookingStatus
<1>2. req' \in [Staff -> Request] /\ \A b \in Staff : RequestKnows(req'[b])
  BY DEF IInv, TypeOK, ReqInv, CustomerCancels, RequestKnows
<1> QED BY <1>1, <1>2, OnlyStatus DEF CustomerCancels

LEMMA AbortStep ==
  ASSUME IInv, NEW a \in Staff, Abort(a) PROVE IInv'
BY IdleFacts, OnlyRequest DEF Abort

(***************************************************************************)
(* The theorems                                                            *)
(***************************************************************************)

LEMMA Initially == Init => IInv
<1> SUFFICES ASSUME Init PROVE IInv
  OBVIOUS
<1>1. TypeOK
  BY IdleFacts DEF Init, TypeOK, Professional, ProStatus, BookingStatus
<1>2. DecisionMatchesStatus /\ ProsInv /\ BookingInv
  BY DEF Init, DecisionMatchesStatus, ProsInv, BookingInv, Stored
<1>3. ReqInv
  BY IdleFacts DEF Init, ReqInv
<1>4. JobsGoToAssigned
  BY IdleFacts DEF Init, JobsGoToAssigned
<1> QED BY <1>1, <1>2, <1>3, <1>4 DEF IInv

LEMMA Inductive == IInv /\ [Next]_vars => IInv'
<1> SUFFICES ASSUME IInv, [Next]_vars PROVE IInv'
  OBVIOUS
<1>1. ASSUME NEW a \in Staff, TeamStep(a) PROVE IInv'
  BY <1>1, CreateStep, UpdateStep, ClearStep, SaveStep, DeleteStep, DeleteWriteStep DEF TeamStep
<1>2. ASSUME NEW a \in Staff, BookingStep(a) PROVE IInv'
  BY <1>2, AssignStep, AssignReadStep, AssignWriteStep, ResendStep, ResendReadStep, SendStep, LogStep,
     SetStatusStep, SetStatusWriteStep DEF BookingStep
<1>3. ASSUME NEW s \in SuperAdmins, SuperAdminStep(s) PROVE IInv'
  BY <1>3, DecideStep DEF SuperAdminStep
<1>4. CASE UNCHANGED vars
  BY <1>4 DEF vars, IInv, TypeOK, DecisionMatchesStatus, JobsGoToAssigned, ProsInv, ReqInv, BookingInv,
     RequestKnows, Stored
<1> QED BY <1>1, <1>2, <1>3, <1>4, CustomerStep, AbortStep DEF Next

THEOREM Invariance == Spec => []IInv
BY Initially, Inductive, PTL DEF Spec

\* Whatever edits, removals, decisions and assignments cross, every row,
\* message and request has the shape of the schema.
THEOREM Types == Spec => []TypeOK
<1>1. IInv => TypeOK
  BY DEF IInv
<1> QED BY <1>1, Invariance, PTL

\* A professional waits exactly while no decision is on the row
\* (ProfessionalApprovalsService.decide, AdminRepository.updateProfessional).
THEOREM Decisions == Spec => []DecisionMatchesStatus
<1>1. IInv => DecisionMatchesStatus
  BY DEF IInv
<1> QED BY <1>1, Invariance, PTL

\* A job only goes to somebody who was assigned, and the booking points at a
\* professional who is still there (AdminBookingsService.assign and resend,
\* AdminCatalogService.deleteProfessional).
THEOREM Jobs == Spec => []JobsGoToAssigned
<1>1. IInv => JobsGoToAssigned
  BY DEF IInv
<1> QED BY <1>1, Invariance, PTL

\* "Two super admins cannot both decide": no step replaces one decision by
\* another (ProfessionalApprovalsService.decide).
THEOREM Decided == Spec => DecidedOnce
<1> DEFINE Kept == \A p \in Pros : pro[p].status # "PENDING" /\ pro'[p].status # "PENDING" =>
                      pro'[p].status = pro[p].status /\ pro'[p].decidedBy = pro[p].decidedBy
<1>1. ASSUME IInv, [Next]_vars PROVE Kept
  <2>0. pro \in [Pros -> Professional]
    BY <1>1 DEF IInv, TypeOK
  <2>1. ASSUME UNCHANGED pro PROVE Kept
    BY <2>1
  <2>2. ASSUME NEW a \in Staff, TeamStep(a) PROVE Kept
    <3>1. ASSUME NEW p \in Pros, NEW contact \in Contacts, NEW does \in BOOLEAN,
                 CreateProfessional(p, contact, does)
          PROVE  Kept
      BY <2>0, <3>1 DEF CreateProfessional
    <3>2. ASSUME ClearCategories(a) PROVE Kept
      <4>1. req[a].pro \in Pros
        BY <1>1, <3>2 DEF IInv, ReqInv, RequestKnows, ClearCategories, At
      <4> QED BY <2>0, <3>2, <4>1 DEF ClearCategories, Professional
    <3>3. ASSUME SaveProfessional(a) PROVE Kept
      <4> DEFINE p == req[a].pro
      <4>1. p \in Pros /\ req[a] \in Request
        BY <1>1, <3>3 DEF IInv, TypeOK, ReqInv, RequestKnows, SaveProfessional, At
      <4>2. pro' = pro \/ pro' = [pro EXCEPT ![p] = Edited(p, req[a])]
        BY <3>3 DEF SaveProfessional
      <4>3. \/ Edited(p, req[a]).status = "PENDING"
            \/ Edited(p, req[a]).status = pro[p].status /\ Edited(p, req[a]).decidedBy = pro[p].decidedBy
        BY <1>1, <4>1, EditedFacts DEF IInv
      <4> QED BY <2>0, <4>1, <4>2, <4>3
    <3>4. ASSUME DeleteWrite(a) PROVE Kept
      <4>1. req[a].pro \in Pros
        BY <1>1, <3>4 DEF IInv, ReqInv, RequestKnows, DeleteWrite, At
      <4> QED BY <2>0, <3>4, <4>1 DEF DeleteWrite, Professional
    <3> QED BY <2>1, <2>2, <3>1, <3>2, <3>3, <3>4 DEF TeamStep, UpdateProfessional, DeleteProfessional
  <2>3. ASSUME NEW a \in Staff, BookingStep(a) PROVE Kept
    BY <2>1, <2>3 DEF BookingStep, Assign, AssignRead, AssignWrite, Resend, ResendRead, SendTemplate,
       LogWhatsapp, SetStatus, SetStatusWrite
  <2>4. ASSUME NEW s \in SuperAdmins, SuperAdminStep(s) PROVE Kept
    BY <2>0, <2>4 DEF SuperAdminStep, Decide, Decidable
  <2> QED BY <1>1, <2>1, <2>2, <2>3, <2>4 DEF Next, Abort, CustomerCancels, vars
<1>2. IInv /\ [Next]_vars => [Kept]_vars
  BY <1>1
<1> QED BY <1>2, Invariance, PTL DEF Spec, DecidedOnce
=============================================================================
