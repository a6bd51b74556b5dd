--------------------------- MODULE AccountsProofs ---------------------------
(***************************************************************************)
(* The invariants of sign-in and access, for any phone, sessions, tokens,  *)
(* accounts and requests: one-time codes, access tokens and staff accounts *)
(* are proved here, each as a specification of its own, sessions in        *)
(* SessionsProofs; the last section puts them together.                    *)
(***************************************************************************)
EXTENDS SignIn, Integers, FiniteSets, FiniteSetTheorems, TLAPS

(***************************************************************************)
(* One-time codes                                                          *)
(***************************************************************************)

\* One device, and a gateway whose every failure is one to deliver.
OneDevice == \E d : OtpSlots = {d}
NoLateSms == "late" \notin Outcomes

OtpReq == [pc : {"idle", "setCode", "setCooldown", "delAttempts", "send", "undo", "count", "exhaust", "consume", "findUser",
                 "createUser"}, code : 0 .. O!TestCode]

\* What a request knows of the keys.  From issuing a code until the gateway has
\* answered, the code in hand is the last one and nobody holds an older one that
\* should work; while the cooldown runs and no code is on its way, the last one
\* arrived.
OtpKnows(d) ==
    /\ O!At(d, "setCode") \/ O!At(d, "setCooldown") => ~cooldown
    /\ otpReq[d].pc \in {"setCode", "setCooldown", "delAttempts", "send", "undo"} /\ ~isTestPhone => otpReq[d].code = last
    /\ otpReq[d].pc \in {"setCooldown", "delAttempts", "send", "undo"} => otpHeld = O!NoCode
    /\ otpReq[d].pc \notin {"delAttempts", "send", "undo"} /\ cooldown /\ ~isTestPhone => arrived = last
    /\ ~O!At(d, "exhaust") => attempts < O!MAX_ATTEMPTS

OtpInv ==
    /\ isTestPhone \in BOOLEAN /\ cooldown \in BOOLEAN /\ user \in BOOLEAN
    /\ code \in 0 .. O!TestCode /\ attempts \in 0 .. O!MAX_ATTEMPTS /\ last \in 0 .. MaxCodes
    /\ otpReq \in [OtpSlots -> OtpReq]
    /\ otpHeld \in 0 .. O!TestCode /\ arrived \in 0 .. O!TestCode /\ missed \in Nat
    /\ otpHeld # O!NoCode => otpHeld = code
    /\ \A d \in OtpSlots : OtpKnows(d)

\* With one device, a step of it is all there is to look at.
LEMMA OtpRow ==
  ASSUME OneDevice, OtpInv, NEW d \in OtpSlots, NEW x \in OtpReq, otpReq' = [otpReq EXCEPT ![d] = x]
  PROVE  otpReq' \in [OtpSlots -> OtpReq] /\ OtpSlots = {d} /\ otpReq'[d] = x
BY DEF OneDevice, OtpInv

LEMMA OtpRows ==
  ASSUME O!OtpAssumption, OtpInv, NEW d \in OtpSlots
  PROVE  /\ otpReq[d] \in OtpReq /\ OtpKnows(d)
         /\ \A pc \in {"idle", "setCode", "setCooldown", "delAttempts", "send", "undo", "count", "exhaust", "consume",
                       "findUser", "createUser"} :
               [otpReq[d] EXCEPT !.pc = pc] \in OtpReq /\ [otpReq[d] EXCEPT !.pc = pc].pc = pc
               /\ [otpReq[d] EXCEPT !.pc = pc].code = otpReq[d].code
         /\ O!IdleReq \in OtpReq /\ O!IdleReq.pc = "idle"
<1>1. otpReq[d] \in OtpReq /\ OtpKnows(d)
  BY DEF OtpInv
<1>2. O!TestCode \in Nat
  BY DEF O!OtpAssumption, O!TestCode
<1> QED BY <1>1, <1>2 DEF OtpReq, O!IdleReq, O!NoCode

LEMMA GotoFacts ==
  ASSUME O!OtpAssumption, OneDevice, OtpInv, NEW d \in OtpSlots,
         NEW pc \in {"setCooldown", "delAttempts", "send", "undo", "exhaust", "findUser", "createUser"}, O!Goto(d, pc)
  PROVE  /\ otpReq' \in [OtpSlots -> OtpReq] /\ OtpSlots = {d}
         /\ otpReq'[d].pc = pc /\ otpReq'[d].code = otpReq[d].code
<1> DEFINE x == [otpReq[d] EXCEPT !.pc = pc]
<1>1. otpReq' = [otpReq EXCEPT ![d] = x]
  BY DEF O!Goto
<1>2. x \in OtpReq /\ x.pc = pc /\ x.code = otpReq[d].code
  BY OtpRows DEF OtpReq
<1> HIDE DEF x
<1> QED BY <1>1, <1>2, OtpRow

LEMMA DoneFacts ==
  ASSUME O!OtpAssumption, OneDevice, OtpInv, NEW d \in OtpSlots, O!Done(d)
  PROVE  otpReq' \in [OtpSlots -> OtpReq] /\ OtpSlots = {d} /\ otpReq'[d].pc = "idle"
BY OtpRows, OtpRow DEF O!Done

LEMMA OtpNumbers ==
  ASSUME O!OtpAssumption
  PROVE  O!TestCode = MaxCodes + 1 /\ MaxCodes \in Nat /\ O!NoCode = 0 /\ O!MAX_ATTEMPTS = 5
BY DEF O!OtpAssumption, O!TestCode, O!NoCode, O!MAX_ATTEMPTS

LEMMA IssueStep == ASSUME O!OtpAssumption, OneDevice, OtpInv, NEW d \in OtpSlots, O!Issue(d) PROVE OtpInv'
<1> DEFINE x == [pc |-> "setCode", code |-> IF isTestPhone THEN O!TestCode ELSE last']
<1>1. /\ otpReq' = [otpReq EXCEPT ![d] = x] /\ last' = last + 1 /\ last < MaxCodes /\ ~cooldown
      /\ UNCHANGED <<isTestPhone, code, cooldown, attempts, user, otpHeld, missed, arrived>> /\ otpReq[d].pc = "idle"
  BY DEF O!Issue, O!At
<1>2. last' \in 0 .. MaxCodes
  BY <1>1, OtpNumbers DEF OtpInv
<1>3. x \in OtpReq /\ x.pc = "setCode" /\ (~isTestPhone => x.code = last')
  BY <1>2, OtpNumbers DEF OtpReq
<1> HIDE DEF x
<1>4. otpReq' \in [OtpSlots -> OtpReq] /\ OtpSlots = {d} /\ otpReq'[d] = x
  BY <1>1, <1>3, OtpRow
<1>5. OtpKnows(d)'
  BY <1>1, <1>3, <1>4, OtpRows DEF OtpKnows, O!At
<1> QED BY <1>1, <1>2, <1>4, <1>5 DEF OtpInv

LEMMA SetCodeStep == ASSUME O!OtpAssumption, OneDevice, OtpInv, NEW d \in OtpSlots, O!SetCode(d) PROVE OtpInv'
<1>1. otpReq' \in [OtpSlots -> OtpReq] /\ OtpSlots = {d} /\ otpReq'[d].pc = "setCooldown"
      /\ otpReq'[d].code = otpReq[d].code /\ otpReq[d].code \in 0 .. O!TestCode
  BY GotoFacts, OtpRows DEF O!SetCode, OtpReq
<1>2. OtpKnows(d)'
  BY <1>1, OtpRows DEF OtpKnows, O!SetCode, O!At
<1> QED BY <1>1, <1>2, OtpNumbers DEF OtpInv, O!SetCode

LEMMA SetCooldownStep == ASSUME O!OtpAssumption, OneDevice, OtpInv, NEW d \in OtpSlots, O!SetCooldown(d) PROVE OtpInv'
<1>1. otpReq' \in [OtpSlots -> OtpReq] /\ OtpSlots = {d} /\ otpReq'[d].pc = "delAttempts" /\ otpReq'[d].code = otpReq[d].code
  BY GotoFacts DEF O!SetCooldown
<1>2. OtpKnows(d)'
  BY <1>1, OtpRows DEF OtpKnows, O!SetCooldown, O!At
<1> QED BY <1>1, <1>2 DEF OtpInv, O!SetCooldown

LEMMA DelAttemptsStep ==
  ASSUME O!OtpAssumption, OneDevice, OtpInv, NEW d \in OtpSlots, O!DelAttempts(d) PROVE OtpInv'
<1>1. /\ otpReq[d].pc = "delAttempts" /\ attempts' = 0
      /\ UNCHANGED <<isTestPhone, code, cooldown, user, last, otpHeld, missed, arrived>>
  BY DEF O!DelAttempts, O!At
<1>2. OtpKnows(d)' /\ otpReq' \in [OtpSlots -> OtpReq] /\ OtpSlots = {d}
  <2>1. CASE isTestPhone
    <3>1. otpReq' \in [OtpSlots -> OtpReq] /\ OtpSlots = {d} /\ otpReq'[d].pc = "idle"
      BY <2>1, DoneFacts DEF O!DelAttempts
    <3>2. isTestPhone'
      BY <1>1, <2>1
    <3> QED BY <1>1, <3>1, <3>2, OtpNumbers DEF OtpKnows, O!At
  <2>2. CASE ~isTestPhone
    <3>1. otpReq' \in [OtpSlots -> OtpReq] /\ OtpSlots = {d} /\ otpReq'[d].pc = "send" /\ otpReq'[d].code = otpReq[d].code
      BY <2>2, GotoFacts DEF O!DelAttempts
    <3> QED BY <1>1, <3>1, OtpRows, OtpNumbers DEF OtpKnows, O!At
  <2> QED BY <2>1, <2>2
<1> QED BY <1>1, <1>2, OtpNumbers DEF OtpInv

\* A message that went out carries the last code.
LEMMA SendStep ==
  ASSUME O!OtpAssumption, OneDevice, OtpInv, NEW d \in OtpSlots, NoLateSms, NEW outcome \in Outcomes, O!Send(d, outcome) PROVE OtpInv'
<1>1. /\ otpReq' \in [OtpSlots -> OtpReq] /\ OtpSlots = {d}
      /\ \/ outcome = "sent" /\ otpReq'[d].pc = "idle"
         \/ outcome = "refused" /\ otpReq'[d].pc = "undo" /\ otpReq'[d].code = otpReq[d].code
  BY GotoFacts, DoneFacts DEF O!Send, O!OtpAssumption, NoLateSms
<1>2. /\ UNCHANGED <<isTestPhone, code, cooldown, attempts, user, last, missed>> /\ otpReq[d].pc = "send"
      /\ otpReq[d] \in OtpReq /\ OtpKnows(d)
      /\ otpHeld' = IF outcome # "refused" /\ code = otpReq[d].code THEN code ELSE otpHeld
      /\ arrived' = IF outcome = "refused" THEN arrived ELSE otpReq[d].code
  BY OtpRows DEF O!Send, O!At
<1>3. OtpKnows(d)'
  BY <1>1, <1>2 DEF OtpKnows, O!At
<1> QED BY <1>1, <1>2, <1>3 DEF OtpInv, OtpReq

\* The undo follows a message that did not go out, so nobody holds a code.
LEMMA UndoStep == ASSUME O!OtpAssumption, OneDevice, OtpInv, NEW d \in OtpSlots, O!Undo(d) PROVE OtpInv'
<1>1. otpReq' \in [OtpSlots -> OtpReq] /\ OtpSlots = {d} /\ otpReq'[d].pc = "idle"
  BY DoneFacts DEF O!Undo
<1>2. OtpKnows(d)' /\ otpHeld = O!NoCode
  BY <1>1, OtpRows DEF OtpKnows, O!Undo, O!At
<1> QED BY <1>1, <1>2, OtpNumbers DEF OtpInv, O!Undo

LEMMA VerifyStep == ASSUME O!OtpAssumption, OneDevice, OtpInv, NEW d \in OtpSlots, NEW guess \in 1 .. O!TestCode, O!Verify(d, guess) PROVE OtpInv'
<1> DEFINE x == [pc |-> IF guess = code THEN "consume" ELSE "count", code |-> guess]
<1>1. /\ otpReq' = [otpReq EXCEPT ![d] = x] /\ otpReq[d].pc = "idle"
      /\ UNCHANGED <<isTestPhone, code, cooldown, attempts, user, last, otpHeld, arrived>>
      /\ missed' = IF guess = code THEN missed ELSE missed + 1
  BY DEF O!Verify, O!At
<1>2. x \in OtpReq /\ x.pc \in {"consume", "count"}
  BY OtpNumbers DEF OtpReq
<1> HIDE DEF x
<1>3. otpReq' \in [OtpSlots -> OtpReq] /\ OtpSlots = {d} /\ otpReq'[d] = x
  BY <1>1, <1>2, OtpRow
<1>4. OtpKnows(d)'
  BY <1>1, <1>2, <1>3, OtpRows DEF OtpKnows, O!At
<1> QED BY <1>1, <1>3, <1>4 DEF OtpInv

LEMMA CountAttemptStep == ASSUME O!OtpAssumption, OneDevice, OtpInv, NEW d \in OtpSlots, O!CountAttempt(d) PROVE OtpInv'
<1>1. /\ otpReq' \in [OtpSlots -> OtpReq] /\ OtpSlots = {d}
      /\ \/ attempts' >= O!MAX_ATTEMPTS /\ otpReq'[d].pc = "exhaust"
         \/ ~(attempts' >= O!MAX_ATTEMPTS) /\ otpReq'[d].pc = "idle"
  BY GotoFacts, DoneFacts DEF O!CountAttempt
<1>2. /\ otpReq[d].pc = "count" /\ attempts' = attempts + 1 /\ OtpKnows(d) /\ attempts \in 0 .. O!MAX_ATTEMPTS
      /\ UNCHANGED <<isTestPhone, code, cooldown, user, last, otpHeld, missed, arrived>>
  BY OtpRows DEF O!CountAttempt, O!At, OtpInv
<1>3. attempts < 5 /\ attempts' \in 0 .. 5
  BY <1>2, OtpNumbers DEF OtpKnows, O!At
<1>4. OtpKnows(d)'
  BY <1>1, <1>2, <1>3, OtpNumbers DEF OtpKnows, O!At
<1> QED BY <1>1, <1>2, <1>3, <1>4, OtpNumbers DEF OtpInv

LEMMA ExhaustStep == ASSUME O!OtpAssumption, OneDevice, OtpInv, NEW d \in OtpSlots, O!Exhaust(d) PROVE OtpInv'
<1>1. otpReq' \in [OtpSlots -> OtpReq] /\ OtpSlots = {d} /\ otpReq'[d].pc = "idle"
  BY DoneFacts DEF O!Exhaust
<1>2. OtpKnows(d)'
  BY <1>1, OtpRows, OtpNumbers DEF OtpKnows, O!Exhaust, O!DeleteCode, O!At
<1> QED BY <1>1, <1>2, OtpNumbers DEF OtpInv, O!Exhaust, O!DeleteCode

LEMMA ConsumeStep == ASSUME O!OtpAssumption, OneDevice, OtpInv, NEW d \in OtpSlots, O!Consume(d) PROVE OtpInv'
<1>1. otpReq' \in [OtpSlots -> OtpReq] /\ OtpSlots = {d} /\ otpReq'[d].pc = "findUser"
  BY GotoFacts DEF O!Consume
<1>2. OtpKnows(d)'
  BY <1>1, OtpRows, OtpNumbers DEF OtpKnows, O!Consume, O!DeleteCode, O!At
<1> QED BY <1>1, <1>2, OtpNumbers DEF OtpInv, O!Consume, O!DeleteCode

LEMMA FindUserStep ==
  ASSUME O!OtpAssumption, OneDevice, OtpInv, NEW d \in OtpSlots, O!FindByPhone(d) \/ O!CreateByPhone(d) PROVE OtpInv'
<1>1. /\ otpReq' \in [OtpSlots -> OtpReq] /\ OtpSlots = {d} /\ otpReq'[d].pc \in {"idle", "createUser"}
      /\ otpReq[d].pc \in {"findUser", "createUser"} /\ user' \in BOOLEAN
      /\ UNCHANGED <<isTestPhone, code, cooldown, attempts, last, otpHeld, missed, arrived>>
  <2>1. CASE O!FindByPhone(d)
    BY <2>1, GotoFacts, DoneFacts DEF O!FindByPhone, O!At, OtpInv
  <2>2. CASE O!CreateByPhone(d)
    BY <2>2, DoneFacts DEF O!CreateByPhone, O!At
  <2> QED BY <2>1, <2>2
<1>2. OtpKnows(d)'
  BY <1>1, OtpRows DEF OtpKnows, O!At
<1> QED BY <1>1, <1>2 DEF OtpInv

LEMMA ExpireStep ==
  ASSUME O!OtpAssumption, OtpInv, O!ExpireCode \/ O!ExpireCooldown PROVE OtpInv'
<1>1. CASE O!ExpireCode
  <2>1. ASSUME NEW d \in OtpSlots PROVE OtpKnows(d)'
    BY <1>1, OtpRows DEF O!ExpireCode, OtpKnows, O!At
  <2> QED BY <1>1, <2>1, OtpNumbers DEF OtpInv, O!ExpireCode
<1>2. CASE O!ExpireCooldown
  <2>1. ASSUME NEW d \in OtpSlots PROVE OtpKnows(d)'
    BY <1>2, OtpRows DEF O!ExpireCooldown, OtpKnows, O!At
  <2> QED BY <1>2, <2>1 DEF OtpInv, O!ExpireCooldown
<1> QED BY <1>1, <1>2

LEMMA InitOtp == ASSUME O!OtpAssumption, O!Init PROVE OtpInv
<1>1. otpReq = [d \in OtpSlots |-> O!IdleReq] /\ O!IdleReq \in OtpReq /\ O!IdleReq.pc = "idle"
  BY OtpNumbers DEF O!Init, O!IdleReq, OtpReq
<1>2. ASSUME NEW d \in OtpSlots PROVE OtpKnows(d)
  BY <1>1, OtpNumbers DEF OtpKnows, O!Init, O!At
<1>3. isTestPhone \in BOOLEAN /\ cooldown \in BOOLEAN /\ user \in BOOLEAN
  BY DEF O!Init
<1>4. /\ code \in 0 .. O!TestCode /\ attempts \in 0 .. O!MAX_ATTEMPTS /\ last \in 0 .. MaxCodes
      /\ otpHeld \in 0 .. O!TestCode /\ arrived \in 0 .. O!TestCode /\ missed \in Nat /\ otpHeld = O!NoCode
  BY OtpNumbers DEF O!Init
<1> QED BY <1>1, <1>2, <1>3, <1>4 DEF OtpInv

LEMMA OtpQuiet == ASSUME OtpInv, UNCHANGED O!vars PROVE OtpInv'
BY DEF OtpInv, O!vars, OtpKnows, O!At

LEMMA OtpInvWorks == ASSUME O!OtpAssumption, OneDevice, OtpInv PROVE O!CodesWork
<1>1. PICK d \in OtpSlots : OtpSlots = {d}
  BY DEF OneDevice
<1>2. Cardinality(OtpSlots) = 1
  BY <1>1, FS_Singleton
<1>3. O!TypeOK
  <2>1. attempts \in 0 .. O!MAX_ATTEMPTS - 1 + Cardinality(OtpSlots)
    BY <1>2, OtpNumbers DEF OtpInv
  <2>2. {otpHeld, arrived} \subseteq 0 .. O!TestCode
    BY DEF OtpInv
  <2>3. isTestPhone \in BOOLEAN /\ cooldown \in BOOLEAN /\ user \in BOOLEAN
    BY DEF OtpInv
  <2>4. /\ code \in 0 .. O!TestCode /\ last \in 0 .. MaxCodes /\ missed \in Nat
        /\ otpReq \in [OtpSlots -> [pc : {"idle", "setCode", "setCooldown", "delAttempts", "send", "undo", "count",
                                         "exhaust", "consume", "findUser", "createUser"}, code : 0 .. O!TestCode]]
    BY DEF OtpInv, OtpReq
  <2>5. O!Cardinality(OtpSlots) = Cardinality(OtpSlots)
    BY DEF O!Cardinality, Cardinality
  <2> QED BY <2>1, <2>2, <2>3, <2>4, <2>5 DEF O!TypeOK
<1>4. O!DeliveredCodeWorks
  BY DEF OtpInv, O!DeliveredCodeWorks
<1>5. O!LockedOnlyIfSent
  BY <1>1, OtpRows DEF O!LockedOnlyIfSent, O!Quiet, OtpKnows, O!At
<1> QED BY <1>3, <1>4, <1>5 DEF O!CodesWork

\* One device asking for codes and typing them, and a gateway that never
\* delivers what it said it could not (OtpService.issue and verify): the code of
\* an SMS that arrived, neither superseded, used up nor expired, is the one
\* stored, and no cooldown is left by a send that failed.
THEOREM CodesHold == ASSUME O!OtpAssumption, OneDevice, NoLateSms PROVE O!Spec => []O!CodesWork
<1>1. O!Init => OtpInv
  BY InitOtp
<1>2. OtpInv /\ [O!Next]_(O!vars) => OtpInv'
  <2> SUFFICES ASSUME OtpInv, [O!Next]_(O!vars) PROVE OtpInv'
    OBVIOUS
  <2>1. ASSUME NEW d \in OtpSlots, O!OtpStep(d) PROVE OtpInv'
    BY <2>1, IssueStep, SetCodeStep, SetCooldownStep, DelAttemptsStep, SendStep, UndoStep, VerifyStep, CountAttemptStep,
       ExhaustStep, ConsumeStep, FindUserStep DEF O!OtpStep
  <2>2. CASE O!ExpireCode \/ O!ExpireCooldown
    BY <2>2, ExpireStep
  <2>3. CASE UNCHANGED O!vars
    BY <2>3, OtpQuiet
  <2> QED BY <2>1, <2>2, <2>3 DEF O!Next
<1>3. OtpInv => O!CodesWork
  BY OtpInvWorks
<1> QED BY <1>1, <1>2, <1>3, PTL DEF O!Spec

(***************************************************************************)
(* Access tokens                                                           *)
(***************************************************************************)

\* A logout that was answered either has an entry until the token is over, or
\* came when it was.
Covered(t) == exp[t] * TicksPerSecond <= denylist[t] \/ exp[t] * TicksPerSecond <= now

TokenInv ==
    /\ T!LogoutHolds
    /\ \A t \in checking \cup leaving \cup loggedOut \cup admitted : exp[t] # 0
    /\ \A t \in loggedOut : Covered(t)

\* Whole seconds, rounded down.
LEMMA SecondsFacts ==
  ASSUME T!AccessTokensAssumption, NEW n \in Nat
  PROVE  /\ T!Seconds(n) \in Nat
         /\ T!Seconds(n) * TicksPerSecond <= n /\ n < (T!Seconds(n) + 1) * TicksPerSecond
BY DEF T!AccessTokensAssumption, T!Seconds

LEMMA Times ==
  ASSUME T!AccessTokensAssumption
  PROVE  /\ \A a, b \in Int : (a + b) * TicksPerSecond = a * TicksPerSecond + b * TicksPerSecond
         /\ \A a, b \in Int : (a - b) * TicksPerSecond = a * TicksPerSecond - b * TicksPerSecond
         /\ \A a, b \in Int : a <= b => a * TicksPerSecond <= b * TicksPerSecond
         /\ \A a \in Int : a * TicksPerSecond \in Int
BY DEF T!AccessTokensAssumption

\* A token is over when its seconds are.
LEMMA OverFacts ==
  ASSUME T!AccessTokensAssumption, NEW n \in Nat, NEW e \in Nat
  PROVE  e <= T!Seconds(n) <=> e * TicksPerSecond <= n
<1> DEFINE s == T!Seconds(n)
<1>1. s \in Nat /\ s * TicksPerSecond <= n /\ n < (s + 1) * TicksPerSecond
  BY SecondsFacts
<1> HIDE DEF s
<1> DEFINE es == e * TicksPerSecond
           ss == s * TicksPerSecond
           next == (s + 1) * TicksPerSecond
<1>2. es \in Int /\ ss \in Int /\ next \in Int /\ (e <= s => es <= ss) /\ (s + 1 <= e => next <= es)
  <2>1. s \in Int /\ s + 1 \in Int /\ e \in Int
    BY <1>1
  <2> QED BY <2>1, Times
<1>3. ss <= n /\ n < next
  BY <1>1
<1> HIDE DEF es, ss, next
<1>4. e <= s <=> es <= n
  BY <1>1, <1>2, <1>3
<1> QED BY <1>4 DEF s, es

LEMMA TokenFacts ==
  ASSUME T!AccessTokensAssumption, TokenInv
  PROVE  /\ now \in Nat /\ now + 1 \in Nat /\ exp \in [Tokens -> Nat] /\ denylist \in [Tokens -> Nat]
         /\ checking \subseteq Tokens /\ leaving \subseteq Tokens /\ loggedOut \subseteq Tokens
         /\ admitted \subseteq Tokens
         /\ TicksPerSecond \in Nat \ {0} /\ AccessTtl \in Nat \ {0} /\ MaxNow \in Nat
         /\ T!Seconds(now) \in Nat /\ T!Seconds(MaxNow + TicksPerSecond) \in Nat
<1>1. /\ TicksPerSecond \in Nat \ {0} /\ AccessTtl \in Nat \ {0} /\ MaxNow \in Nat
      /\ T!Seconds(MaxNow + TicksPerSecond) \in Nat
  BY SecondsFacts DEF T!AccessTokensAssumption
<1>2. now \in 1 .. MaxNow + TicksPerSecond
  BY DEF TokenInv, T!LogoutHolds, T!TypeOK
<1>3. now \in Nat /\ now + 1 \in Nat
  BY <1>1, <1>2
<1>4. exp \in [Tokens -> 0 .. T!Seconds(MaxNow + TicksPerSecond) + AccessTtl] /\ denylist \in [Tokens -> Nat]
  BY DEF TokenInv, T!LogoutHolds, T!TypeOK
<1>5. exp \in [Tokens -> Nat]
  BY <1>1, <1>4
<1>6. /\ checking \subseteq Tokens /\ leaving \subseteq Tokens /\ loggedOut \subseteq Tokens
      /\ admitted \subseteq Tokens
  BY DEF TokenInv, T!LogoutHolds, T!TypeOK
<1> QED BY <1>1, <1>3, <1>4, <1>5, <1>6, SecondsFacts

\* A step that issues nothing, writes no entry and lets nobody in.
LEMMA TokenQuiet ==
  ASSUME T!AccessTokensAssumption, TokenInv, UNCHANGED <<exp, denylist, loggedOut>>, admitted' = {},
         now' = now \/ (now < MaxNow /\ now' = now + 1), redisUp' \in BOOLEAN,
         checking' \subseteq Tokens, leaving' \subseteq Tokens,
         \A t \in checking' \cup leaving' : exp[t] # 0
  PROVE  TokenInv'
<1>1. /\ now \in Nat /\ now' \in Nat /\ now <= now' /\ loggedOut \subseteq Tokens
      /\ exp \in [Tokens -> Nat] /\ denylist \in [Tokens -> Nat]
      /\ TicksPerSecond \in Nat \ {0} /\ MaxNow \in Nat
  BY TokenFacts
<1>2. now' \in 1 .. MaxNow + TicksPerSecond
  BY <1>1 DEF TokenInv, T!LogoutHolds, T!TypeOK
<1>3. T!TypeOK'
  BY <1>2 DEF TokenInv, T!LogoutHolds, T!TypeOK, T!Seconds
<1>4. T!LoggedOutStaysOut' /\ T!EntriesGoWithToken'
  BY DEF TokenInv, T!LogoutHolds, T!LoggedOutStaysOut, T!EntriesGoWithToken
<1>5. \A t \in checking' \cup leaving' \cup loggedOut' \cup admitted' : exp'[t] # 0
  BY DEF TokenInv
<1>6. ASSUME NEW t \in loggedOut PROVE Covered(t)'
  <2>1. exp[t] * TicksPerSecond \in Int /\ Covered(t)
    BY <1>1, Times DEF TokenInv
  <2> QED BY <1>1, <2>1 DEF Covered
<1> QED BY <1>3, <1>4, <1>5, <1>6 DEF TokenInv, T!LogoutHolds

LEMMA SignStep ==
  ASSUME T!AccessTokensAssumption, TokenInv, NEW t \in Tokens, T!SignAccessToken(t) PROVE TokenInv'
<1> DEFINE e == T!Seconds(now) + AccessTtl
           most == T!Seconds(MaxNow + TicksPerSecond) + AccessTtl
<1>1. /\ exp[t] = 0 /\ exp' = [exp EXCEPT ![t] = e] /\ admitted' = {}
      /\ UNCHANGED <<now, redisUp, denylist, checking, leaving, loggedOut>>
  BY DEF T!SignAccessToken
<1>2. /\ now \in Nat /\ exp \in [Tokens -> Nat] /\ denylist \in [Tokens -> Nat] /\ loggedOut \subseteq Tokens
      /\ TicksPerSecond \in Nat \ {0} /\ AccessTtl \in Nat \ {0} /\ MaxNow \in Nat
      /\ T!Seconds(now) \in Nat /\ T!Seconds(MaxNow + TicksPerSecond) \in Nat
  BY TokenFacts
<1>3. e \in 0 .. most
  <2>1. T!Seconds(now) <= T!Seconds(MaxNow + TicksPerSecond)
    <3> DEFINE n == MaxNow + TicksPerSecond
               s == T!Seconds(now)
    <3>1. s * TicksPerSecond <= now /\ s * TicksPerSecond \in Int
      BY <1>2, SecondsFacts, Times
    <3>2. n \in Nat /\ now <= n
      BY <1>2 DEF TokenInv, T!LogoutHolds, T!TypeOK
    <3>3. s \in Nat
      BY <1>2
    <3> HIDE DEF n, s
    <3>4. s * TicksPerSecond <= n
      BY <1>2, <3>1, <3>2
    <3>5. s <= T!Seconds(n)
      BY <3>2, <3>3, <3>4, OverFacts
    <3> QED BY <3>5 DEF n, s
  <2> QED BY <1>2, <2>1
<1>4. e \in Nat /\ e # 0
  BY <1>2
<1> HIDE DEF e, most
<1>5. \A q \in Tokens : exp'[q] = IF q = t THEN e ELSE exp[q]
  BY <1>1, <1>2
<1>6. T!TypeOK'
  <2>1. exp' \in [Tokens -> 0 .. most]
    BY <1>1, <1>3 DEF TokenInv, T!LogoutHolds, T!TypeOK, most
  <2> QED BY <1>1, <2>1 DEF TokenInv, T!LogoutHolds, T!TypeOK, T!Seconds, most
<1>7. \A q \in checking' \cup leaving' \cup loggedOut' \cup admitted' : q # t /\ exp'[q] # 0
  BY <1>1, <1>5, TokenFacts DEF TokenInv
<1>8. \A q \in loggedOut' : Covered(q)'
  <2> SUFFICES ASSUME NEW q \in loggedOut PROVE Covered(q)'
    BY <1>1
  <2>1. exp'[q] = exp[q] /\ Covered(q)
    BY <1>1, <1>2, <1>5, <1>7 DEF TokenInv
  <2> QED BY <1>1, <2>1 DEF Covered
<1>9. T!EntriesGoWithToken'
  <2> SUFFICES ASSUME NEW q \in Tokens PROVE denylist[q] < (exp'[q] + 1) * TicksPerSecond
    BY <1>1 DEF T!EntriesGoWithToken
  <2>1. denylist[q] < (exp[q] + 1) * TicksPerSecond /\ denylist[q] \in Nat /\ exp[q] \in Nat
    BY <1>2 DEF TokenInv, T!LogoutHolds, T!EntriesGoWithToken
  <2>2. CASE q = t
    <3>1. exp[q] + 1 \in Int /\ e + 1 \in Int /\ exp[q] + 1 <= e + 1
      BY <1>1, <1>4, <2>1, <2>2
    <3>2. (exp[q] + 1) * TicksPerSecond <= (e + 1) * TicksPerSecond
      BY <3>1, Times
    <3>3. (exp[q] + 1) * TicksPerSecond \in Int /\ (e + 1) * TicksPerSecond \in Int
      BY <3>1, Times
    <3> QED BY <1>5, <2>1, <2>2, <3>2, <3>3
  <2>3. CASE q # t
    BY <1>5, <2>1, <2>3
  <2> QED BY <2>2, <2>3
<1> QED BY <1>1, <1>6, <1>7, <1>8, <1>9 DEF TokenInv, T!LogoutHolds, T!LoggedOutStaysOut

\* Nobody is let in whose logout was answered: the entry is still there, or
\* the token is over.
LEMMA IsRevokedStep ==
  ASSUME T!AccessTokensAssumption, TokenInv, NEW t \in Tokens, T!IsRevoked(t) PROVE TokenInv'
<1>1. /\ t \in checking /\ checking' = checking \ {t}
      /\ admitted' = IF redisUp /\ ~(now < denylist[t]) THEN {t} ELSE {}
      /\ UNCHANGED <<now, redisUp, exp, denylist, leaving, loggedOut>>
  BY DEF T!IsRevoked
<1>2. /\ now \in Nat /\ exp[t] \in Nat /\ denylist[t] \in Nat /\ exp[t] # 0
  BY <1>1, TokenFacts DEF TokenInv
<1>3. T!TypeOK'
  BY <1>1 DEF TokenInv, T!LogoutHolds, T!TypeOK, T!Seconds
<1>4. ASSUME t \in admitted' \cap loggedOut PROVE ~T!VerifyAsync(t)
  <2>1. denylist[t] <= now /\ Covered(t)
    BY <1>1, <1>2, <1>4 DEF TokenInv
  <2>2. exp[t] * TicksPerSecond \in Int
    BY <1>2 DEF T!AccessTokensAssumption
  <2>3. exp[t] * TicksPerSecond <= now
    BY <1>2, <2>1, <2>2 DEF Covered
  <2>4. exp[t] <= T!Seconds(now) /\ T!Seconds(now) \in Nat
    BY <1>2, <2>3, OverFacts, TokenFacts
  <2> QED BY <1>2, <2>4 DEF T!VerifyAsync
<1>5. T!LoggedOutStaysOut'
  BY <1>1, <1>4 DEF T!LoggedOutStaysOut, T!VerifyAsync, T!Seconds
<1>6. T!EntriesGoWithToken' /\ \A q \in loggedOut' : Covered(q)'
  BY <1>1 DEF TokenInv, T!LogoutHolds, T!EntriesGoWithToken, Covered
<1>7. \A q \in checking' \cup leaving' \cup loggedOut' \cup admitted' : exp'[q] # 0
  BY <1>1, <1>2 DEF TokenInv
<1> QED BY <1>3, <1>5, <1>6, <1>7 DEF TokenInv, T!LogoutHolds

\* The entry of a logout lives from now for the whole seconds the token has
\* left: to the end of the token, and not a second longer.
LEMMA RevokeTokenStep ==
  ASSUME T!AccessTokensAssumption, TokenInv, NEW t \in Tokens, T!Revoke(t) PROVE TokenInv'
<1> DEFINE s == T!Seconds(now)
           ttl == exp[t] - s
           entry == now + ttl * TicksPerSecond
<1>1. /\ t \in leaving /\ leaving' = leaving \ {t} /\ admitted' = {} /\ UNCHANGED <<now, redisUp, exp, checking>>
      /\ denylist' = IF redisUp /\ ttl > 0 THEN [denylist EXCEPT ![t] = entry] ELSE denylist
      /\ loggedOut' = IF redisUp \/ ttl <= 0 THEN loggedOut \cup {t} ELSE loggedOut
  BY DEF T!Revoke, T!RevokeTtl
<1>2. /\ now \in Nat /\ exp \in [Tokens -> Nat] /\ denylist \in [Tokens -> Nat] /\ loggedOut \subseteq Tokens
      /\ leaving \subseteq Tokens /\ s \in Nat /\ exp[t] \in Nat /\ ttl \in Int
  BY TokenFacts
<1>3. exp[t] # 0
  BY <1>1 DEF TokenInv
<1>4. /\ s * TicksPerSecond <= now /\ now < (s + 1) * TicksPerSecond
      /\ s * TicksPerSecond \in Int /\ (s + 1) * TicksPerSecond \in Int
      /\ exp[t] * TicksPerSecond \in Int /\ (exp[t] + 1) * TicksPerSecond \in Int
      /\ ttl * TicksPerSecond = exp[t] * TicksPerSecond - s * TicksPerSecond
      /\ (exp[t] + 1) * TicksPerSecond = exp[t] * TicksPerSecond + 1 * TicksPerSecond
      /\ (s + 1) * TicksPerSecond = s * TicksPerSecond + 1 * TicksPerSecond
      /\ 1 * TicksPerSecond \in Int
  <2>1. s \in Int /\ s + 1 \in Int /\ exp[t] \in Int /\ exp[t] + 1 \in Int /\ 1 \in Int
    BY <1>2
  <2>2. ttl = exp[t] - s
    OBVIOUS
  <2> HIDE DEF ttl, s
  <2> QED BY <1>2, <2>1, <2>2, SecondsFacts, Times DEF s
<1>5. ttl > 0 => exp[t] * TicksPerSecond <= entry /\ entry < (exp[t] + 1) * TicksPerSecond
  <2> DEFINE es == exp[t] * TicksPerSecond
             ss == s * TicksPerSecond
             ts == ttl * TicksPerSecond
             k == 1 * TicksPerSecond
  <2>1. /\ ss \in Int /\ es \in Int /\ k \in Int /\ ts = es - ss /\ ss <= now /\ now < ss + k
        /\ entry = now + ts /\ (exp[t] + 1) * TicksPerSecond = es + k
    BY <1>4
  <2> HIDE DEF es, ss, ts, k, entry
  <2>2. es <= entry /\ entry < es + k
    BY <1>2, <2>1
  <2> QED BY <2>1, <2>2 DEF es
<1>6. ttl <= 0 => exp[t] * TicksPerSecond <= now
  BY <1>2, OverFacts
<1>7. ttl > 0 => entry \in Nat
  <2>1. entry \in Int
    BY <1>2, <1>4
  <2>2. exp[t] * TicksPerSecond \in Nat
    BY <1>2, TokenFacts
  <2> HIDE DEF entry, ttl
  <2> QED BY <1>5, <2>1, <2>2
<1> HIDE DEF s, ttl, entry
<1>8. \A q \in Tokens : denylist'[q] = IF q = t /\ redisUp /\ ttl > 0 THEN entry ELSE denylist[q]
  BY <1>1, <1>2
<1>9. T!TypeOK'
  <2>1. denylist' \in [Tokens -> Nat]
    BY <1>1, <1>2, <1>7
  <2> QED BY <1>1, <1>2, <2>1 DEF TokenInv, T!LogoutHolds, T!TypeOK, T!Seconds
<1>10. T!EntriesGoWithToken'
  BY <1>1, <1>5, <1>8 DEF TokenInv, T!LogoutHolds, T!EntriesGoWithToken
<1>11. ASSUME NEW q \in loggedOut' PROVE Covered(q)'
  <2>1. CASE q = t /\ redisUp /\ ttl > 0
    <3>1. denylist'[q] = entry
      BY <1>8, <2>1
    <3> QED BY <1>1, <1>5, <2>1, <3>1 DEF Covered
  <2>2. CASE q = t /\ ttl <= 0
    BY <1>1, <1>6, <2>2 DEF Covered
  <2>3. CASE q # t \/ (~redisUp /\ ~(ttl <= 0))
    <3>1. ASSUME redisUp \/ ttl <= 0 PROVE q \in loggedOut
      <4>1. loggedOut' = loggedOut \cup {t} /\ q # t
        BY <1>1, <2>3, <3>1, Zenon
      <4> QED BY <4>1
    <3>2. ASSUME ~(redisUp \/ ttl <= 0) PROVE q \in loggedOut
      <4>1. loggedOut' = loggedOut
        BY <1>1, <3>2, Zenon
      <4> QED BY <4>1
    <3>3. q \in loggedOut
      BY <3>1, <3>2, Zenon
    <3>4. denylist'[q] = denylist[q] /\ Covered(q)
      BY <1>2, <1>8, <2>3, <3>3 DEF TokenInv
    <3> QED BY <1>1, <3>4 DEF Covered
  <2>4. ttl > 0 <=> ~(ttl <= 0)
    BY <1>2
  <2>5. \/ q = t /\ redisUp /\ ttl > 0
        \/ q = t /\ ttl <= 0
        \/ q # t \/ (~redisUp /\ ~(ttl <= 0))
    BY <2>4, Zenon
  <2> QED BY <2>1, <2>2, <2>3, <2>5, Zenon
<1>12. \A q \in checking' \cup leaving' \cup loggedOut' \cup admitted' : exp'[q] # 0
  BY <1>1, <1>3 DEF TokenInv
<1> QED BY <1>1, <1>9, <1>10, <1>11, <1>12 DEF TokenInv, T!LogoutHolds, T!LoggedOutStaysOut

LEMMA InitTokens == ASSUME T!AccessTokensAssumption, T!Init PROVE TokenInv
<1>1. /\ TicksPerSecond \in Nat \ {0} /\ AccessTtl \in Nat \ {0} /\ MaxNow \in Nat
      /\ T!Seconds(MaxNow + TicksPerSecond) \in Nat
  BY SecondsFacts DEF T!AccessTokensAssumption
<1>2. now \in 1 .. MaxNow + TicksPerSecond
  BY <1>1 DEF T!Init
<1>3. T!TypeOK
  BY <1>1, <1>2 DEF T!Init, T!TypeOK
<1>4. T!EntriesGoWithToken
  <2>1. (0 + 1) * TicksPerSecond = TicksPerSecond
    BY <1>1
  <2> QED BY <1>1, <2>1 DEF T!Init, T!EntriesGoWithToken
<1> QED BY <1>3, <1>4 DEF T!Init, TokenInv, T!LogoutHolds, T!LoggedOutStaysOut

THEOREM TokensInvariance == ASSUME T!AccessTokensAssumption PROVE T!Spec => []TokenInv
<1>1. T!Init => TokenInv
  BY InitTokens
<1>2. TokenInv /\ [T!Next]_(T!vars) => TokenInv'
  <2> SUFFICES ASSUME TokenInv, [T!Next]_(T!vars) PROVE TokenInv'
    OBVIOUS
  <2>1. ASSUME NEW t \in Tokens, T!CanActivate(t) \/ T!Logout(t) PROVE TokenInv'
    <3>1. /\ UNCHANGED <<now, exp, denylist, loggedOut>> /\ admitted' = {} /\ redisUp' = redisUp
          /\ checking' \subseteq checking \cup {t} /\ leaving' \subseteq leaving \cup {t} /\ exp[t] # 0
      BY <2>1 DEF T!CanActivate, T!VerifyAsync, T!Logout, TokenInv
    <3>2. /\ checking' \subseteq Tokens /\ leaving' \subseteq Tokens
          /\ \A q \in checking' \cup leaving' : exp[q] # 0
      BY <3>1, TokenFacts DEF TokenInv
    <3>3. redisUp' \in BOOLEAN
      BY <3>1 DEF TokenInv, T!LogoutHolds, T!TypeOK
    <3>4. UNCHANGED <<exp, denylist, loggedOut>> /\ admitted' = {} /\ now' = now
      BY <3>1
    <3> QED BY <3>2, <3>3, <3>4, TokenQuiet
  <2>2. CASE T!Tick \/ T!RedisFails
    <3>1. /\ UNCHANGED <<exp, denylist, loggedOut, checking, leaving>> /\ admitted' = {}
          /\ now' = now \/ (now < MaxNow /\ now' = now + 1)
      <4>1. CASE T!Tick
        BY <4>1 DEF T!Tick
      <4>2. CASE T!RedisFails
        BY <4>2 DEF T!RedisFails
      <4> QED BY <2>2, <4>1, <4>2
    <3>2. redisUp' \in BOOLEAN
      <4>1. redisUp \in BOOLEAN /\ (redisUp' = redisUp \/ redisUp' = ~redisUp)
        BY <2>2 DEF T!Tick, T!RedisFails, TokenInv, T!LogoutHolds, T!TypeOK
      <4> QED BY <4>1
    <3>3. /\ checking' \subseteq Tokens /\ leaving' \subseteq Tokens
          /\ \A q \in checking' \cup leaving' : exp[q] # 0
      BY <3>1, TokenFacts DEF TokenInv
    <3> QED BY <3>1, <3>2, <3>3, TokenQuiet
  <2>3. CASE UNCHANGED T!vars
    BY <2>3 DEF T!vars, TokenInv, T!LogoutHolds, T!TypeOK, T!LoggedOutStaysOut, T!EntriesGoWithToken,
                T!VerifyAsync, T!Seconds, Covered
  <2> QED BY <2>1, <2>2, <2>3, SignStep, IsRevokedStep, RevokeTokenStep DEF T!Next
<1> QED BY <1>1, <1>2, PTL DEF T!Spec

\* "Lets logout take effect immediately" (token-denylist.service.ts): for any
\* clock, any lifetime and any crossing of requests, logouts and failures of
\* Redis, no request of a token is let in after its logout was answered, and
\* its entry outlives the token by less than a second.
THEOREM LoggedOut == ASSUME T!AccessTokensAssumption PROVE T!Spec => []T!LogoutHolds
<1>1. TokenInv => T!LogoutHolds
  BY DEF TokenInv
<1> QED BY <1>1, TokensInvariance, PTL

(***************************************************************************)
(* Staff                                                                   *)
(***************************************************************************)

OneTab == \A a, b \in Tabs : a = b

TabReq == [pc : {"idle", "checkNew", "check", "insert", "clear", "update"}, user : Accounts \cup {None},
           role : A!UserType, phone : A!Optional(A!Number), email : A!Optional(Emails \cup {None}),
           modules : A!Optional(SUBSET A!AdminModule)]

\* While one super admin edits, what their request is about to add is all the
\* admin will hold.
TabKnows(a) ==
    /\ tab[a].pc \in {"check", "clear", "update"} => tab[a].user \in Accounts
    /\ tab[a].pc = "update" /\ tab[a].modules # {} => account[tab[a].user].modules = {}

\* A request acts with a set of modules that was given to a stored admin.
CallKnows(c) ==
    call[c].user # None =>
        /\ call[c].user \in Accounts /\ A!Stored(call[c].user)
        /\ call[c].scope \in given[call[c].user] /\ call[c].scope \cap {"CLEAN", "REPAIR"} # {}

StaffInv ==
    /\ A!TypeOK
    /\ tab \in [Tabs -> TabReq]
    /\ login \in [Phones -> A!Optional(A!Number)]
    /\ DOMAIN call = Calls
    /\ A!ModulesAreOfOneRequest
    /\ \A a \in Tabs : TabKnows(a)
    /\ \A c \in Calls : CallKnows(c)

LEMMA FieldFacts ==
  ASSUME NEW set, NEW field \in A!Optional(set), NEW default
  PROVE  \/ field = {} /\ A!Given(field, default) = default
         \/ \E x \in set : field = {x} /\ A!Given(field, default) = x
BY DEF A!Optional, A!Given

LEMMA NumberFacts ==
  ASSUME A!StaffAssumption, NEW phone \in A!Typed
  PROVE  A!toE164(phone) \in A!Number
BY DEF A!StaffAssumption, A!Typed, A!Number, A!toE164

LEMMA IdleTabFacts == A!IdleTab \in TabReq /\ A!IdleTab.pc = "idle"
BY DEF A!IdleTab, TabReq, A!UserType, A!Optional

LEMMA NoUserFacts == A!NoUser \in A!User /\ A!NoUser.modules = {} /\ A!NoUser.state = "absent"
BY DEF A!NoUser, A!User, A!UserType, A!AdminModule

LEMMA StaffTypes ==
  ASSUME StaffInv
  PROVE  /\ account \in [Accounts -> A!User] /\ given \in [Accounts -> SUBSET SUBSET A!AdminModule]
         /\ tab \in [Tabs -> TabReq]
         /\ \A u \in Accounts : account[u].modules \in given[u] \cup {{}}
BY DEF StaffInv, A!TypeOK, A!ModulesAreOfOneRequest

\* A step of super admins that touches no row.
LEMMA TabMoves ==
  ASSUME StaffInv, OneTab, NEW a \in Tabs, NEW x \in TabReq, tab' = [tab EXCEPT ![a] = x],
         x.pc \in {"check", "clear", "update"} => x.user \in Accounts,
         x.pc = "update" => x.modules = {}, UNCHANGED <<account, given, login, call>>
  PROVE  StaffInv'
<1>1. tab' \in [Tabs -> TabReq] /\ \A b \in Tabs : tab'[b] = x
  BY DEF StaffInv, OneTab
<1>2. \A b \in Tabs : TabKnows(b)'
  BY <1>1 DEF TabKnows
<1>3. A!TypeOK' /\ A!ModulesAreOfOneRequest' /\ \A c \in Calls : CallKnows(c)'
  BY DEF StaffInv, A!TypeOK, A!ModulesAreOfOneRequest, CallKnows, A!Stored
<1> QED BY <1>1, <1>2, <1>3 DEF StaffInv

LEMMA CreateStaffStep ==
  ASSUME A!StaffAssumption, StaffInv, OneTab, NEW a \in Tabs, NEW dto \in A!CreateStaffDto, A!CreateStaff(a, dto)
  PROVE  StaffInv'
<1> DEFINE phone == {A!toE164(dto.phone)}
           email == {dto.email}
           modules == {A!ModulesFor(dto.role, dto.modules)}
           x == [pc |-> "checkNew", user |-> None, role |-> dto.role, phone |-> phone, email |-> email,
                 modules |-> modules]
<1>1. /\ dto.role \in A!UserType /\ dto.phone \in A!Typed /\ dto.email \in Emails \cup {None}
      /\ dto.modules \in SUBSET A!AdminModule
  BY DEF A!CreateStaffDto, A!STAFF_ROLES, A!UserType, A!StaffAssumption
<1>2. phone \in A!Optional(A!Number)
  BY <1>1, NumberFacts DEF A!Optional
<1>3. email \in A!Optional(Emails \cup {None}) /\ modules \in A!Optional(SUBSET A!AdminModule)
  BY <1>1 DEF A!Optional, A!ModulesFor
<1>4. tab' = [tab EXCEPT ![a] = x] /\ UNCHANGED <<account, given, login, call>>
  BY DEF A!CreateStaff
<1> HIDE DEF phone, email, modules
<1>5. x \in TabReq /\ x.pc = "checkNew"
  BY <1>1, <1>2, <1>3 DEF TabReq
<1> HIDE DEF x
<1> QED BY <1>4, <1>5, TabMoves

LEMMA UpdateStaffStep ==
  ASSUME A!StaffAssumption, StaffInv, OneTab, NEW a \in Tabs, NEW u \in Accounts, NEW dto \in A!UpdateStaffDto,
         A!UpdateStaff(a, u, dto)
  PROVE  StaffInv'
<1> DEFINE phone == {A!toE164(p) : p \in dto.phone}
           x == [pc |-> "check", user |-> u, role |-> account[u].role, phone |-> phone, email |-> dto.email,
                 modules |-> dto.modules]
<1>1. /\ dto.phone \in A!Optional(A!Typed) /\ dto.email \in A!Optional(Emails \cup {None})
      /\ dto.modules \in A!Optional(SUBSET A!AdminModule) /\ account[u].role \in A!UserType
  BY StaffTypes DEF A!UpdateStaffDto, A!StaffAssumption, A!Optional, A!User
<1>2. phone \in A!Optional(A!Number)
  <2>1. CASE dto.phone = {}
    BY <2>1 DEF A!Optional
  <2>2. ASSUME NEW p \in A!Typed, dto.phone = {p} PROVE phone \in A!Optional(A!Number)
    <3>1. phone = {A!toE164(p)}
      BY <2>2
    <3> QED BY <3>1, NumberFacts DEF A!Optional
  <2> QED BY <1>1, <2>1, <2>2 DEF A!Optional
<1>3. tab' = [tab EXCEPT ![a] = x] /\ UNCHANGED <<account, given, login, call>>
  BY DEF A!UpdateStaff
<1> HIDE DEF phone
<1>4. x \in TabReq /\ x.pc = "check" /\ x.user = u
  BY <1>1, <1>2 DEF TabReq
<1> HIDE DEF x
<1> QED BY <1>3, <1>4, TabMoves

LEMMA AssertFreeStep ==
  ASSUME StaffInv, OneTab, NEW a \in Tabs, A!AssertFree(a) PROVE StaffInv'
<1> DEFINE pc == IF tab[a].pc = "checkNew" THEN "insert" ELSE IF tab[a].modules # {} THEN "clear" ELSE "update"
           x == [tab[a] EXCEPT !.pc = pc]
<1>1. /\ tab[a].pc \in {"checkNew", "check"} /\ UNCHANGED <<account, given, login, call>>
      /\ tab' = [tab EXCEPT ![a] = A!IdleTab] \/ tab' = [tab EXCEPT ![a] = x]
  <2>1. CASE A!Clashes(tab[a])
    BY <2>1 DEF A!AssertFree
  <2>2. CASE ~A!Clashes(tab[a])
    BY <2>2 DEF A!AssertFree
  <2> QED BY <2>1, <2>2
<1>2. tab[a] \in TabReq /\ TabKnows(a)
  BY DEF StaffInv
<1>3. x \in TabReq /\ x.pc = pc /\ x.user = tab[a].user /\ x.modules = tab[a].modules
  BY <1>2 DEF TabReq
<1>4. /\ x.pc \in {"check", "clear", "update"} => x.user \in Accounts
      /\ x.pc = "update" => x.modules = {}
  BY <1>1, <1>2, <1>3 DEF TabKnows
<1> HIDE DEF x
<1> QED BY <1>1, <1>3, <1>4, IdleTabFacts, TabMoves

\* One row is written, of somebody whose modules were given to them.
LEMMA RowWritten ==
  ASSUME StaffInv, NEW u \in Accounts, NEW row \in A!User, NEW more \in SUBSET SUBSET A!AdminModule,
         account' = [account EXCEPT ![u] = row], given' = [given EXCEPT ![u] = more], call' = call,
         row.modules \in more \cup {{}},
         A!Stored(u) => row.state = "stored" /\ given[u] \subseteq more
  PROVE  A!TypeOK' /\ A!ModulesAreOfOneRequest' /\ DOMAIN call' = Calls /\ \A c \in Calls : CallKnows(c)'
<1>1. /\ account' \in [Accounts -> A!User] /\ given' \in [Accounts -> SUBSET SUBSET A!AdminModule]
      /\ account'[u] = row /\ given'[u] = more
      /\ \A v \in Accounts : v # u => account'[v] = account[v] /\ given'[v] = given[v]
  BY StaffTypes
<1>2. A!TypeOK' /\ DOMAIN call' = Calls
  BY <1>1 DEF StaffInv, A!TypeOK
<1>3. A!ModulesAreOfOneRequest'
  BY <1>1, StaffTypes DEF A!ModulesAreOfOneRequest
<1>4. ASSUME NEW c \in Calls PROVE CallKnows(c)'
  <2>1. CallKnows(c)
    BY DEF StaffInv
  <2> QED BY <1>1, <2>1 DEF CallKnows, A!Stored
<1> QED BY <1>2, <1>3, <1>4

LEMMA TabFreed ==
  ASSUME StaffInv, OneTab, NEW a \in Tabs, tab' = [tab EXCEPT ![a] = A!IdleTab]
  PROVE  tab' \in [Tabs -> TabReq] /\ \A b \in Tabs : TabKnows(b)'
<1>1. tab' \in [Tabs -> TabReq] /\ \A b \in Tabs : tab'[b].pc = "idle"
  BY IdleTabFacts DEF StaffInv, OneTab
<1> QED BY <1>1 DEF TabKnows

LEMMA AbortStep ==
  ASSUME StaffInv, OneTab, NEW a \in Tabs, A!Abort(a) PROVE StaffInv'
BY IdleTabFacts, TabMoves DEF A!Abort

LEMMA InsertStaffStep ==
  ASSUME A!StaffAssumption, StaffInv, OneTab, NEW a \in Tabs, A!InsertStaff(a) PROVE StaffInv'
<1> DEFINE r == tab[a]
           phone == A!Given(r.phone, None)
           email == A!Given(r.email, None)
           modules == A!Given(r.modules, {})
           row == [state |-> "stored", role |-> r.role, phone |-> phone, email |-> email, modules |-> modules]
<1>1. r \in TabReq /\ UNCHANGED <<login, call>> /\ tab' = [tab EXCEPT ![a] = A!IdleTab]
  BY DEF StaffInv, A!InsertStaff
<1>2. CASE UNCHANGED <<account, given>>
  BY <1>1, <1>2, IdleTabFacts, TabMoves
<1>3. ASSUME NEW u \in Accounts, account[u].state = "absent", account' = [account EXCEPT ![u] = row],
             given' = [given EXCEPT ![u] = r.modules]
      PROVE  StaffInv'
  <2>1. phone \in A!Number \cup {None}
    BY <1>1, FieldFacts DEF TabReq
  <2>2. email \in Emails \cup {None}
    BY <1>1, FieldFacts DEF TabReq
  <2>3. modules \in SUBSET A!AdminModule /\ modules \in r.modules \cup {{}} /\ r.modules \in SUBSET SUBSET A!AdminModule
    <3>1. r.modules \in A!Optional(SUBSET A!AdminModule)
      BY <1>1 DEF TabReq
    <3>2. r.modules \in SUBSET SUBSET A!AdminModule
      BY <3>1 DEF A!Optional
    <3>3. CASE r.modules = {} /\ modules = {}
      BY <3>2, <3>3
    <3>4. ASSUME NEW x \in SUBSET A!AdminModule, r.modules = {x}, modules = x
          PROVE  modules \in SUBSET A!AdminModule /\ modules \in r.modules \cup {{}}
      BY <3>4
    <3> QED BY <3>1, <3>2, <3>3, <3>4, FieldFacts
  <2>4. r.role \in A!UserType
    BY <1>1 DEF TabReq
  <2> DEFINE more == r.modules
  <2>5. given' = [given EXCEPT ![u] = more] /\ more \in SUBSET SUBSET A!AdminModule /\ modules \in more \cup {{}}
    BY <1>3, <2>3
  <2> HIDE DEF phone, email, modules, r
  <2>6. row \in A!User /\ row.modules = modules /\ row.state = "stored" /\ account' = [account EXCEPT ![u] = row]
    BY <1>3, <2>1, <2>2, <2>3, <2>4 DEF A!User
  <2>7. ~A!Stored(u)
    BY <1>3 DEF A!Stored
  <2> HIDE DEF row, more
  <2>8. A!TypeOK' /\ A!ModulesAreOfOneRequest' /\ DOMAIN call' = Calls /\ \A c \in Calls : CallKnows(c)'
    BY <1>1, <2>5, <2>6, <2>7, RowWritten
  <2> QED BY <1>1, <2>8, TabFreed DEF StaffInv
<1>4. CASE A!Clashes(tab[a])
  <2>1. UNCHANGED <<account, given>>
    BY <1>4 DEF A!InsertStaff
  <2> QED BY <1>2, <2>1
<1>5. CASE ~A!Clashes(tab[a])
  <2>1. PICK u \in Accounts : account[u].state = "absent" /\ account' = [account EXCEPT ![u] = row]
                              /\ given' = [given EXCEPT ![u] = r.modules]
    BY <1>5 DEF A!InsertStaff
  <2> QED BY <1>3, <2>1
<1> QED BY <1>4, <1>5

LEMMA ClearModulesStep ==
  ASSUME StaffInv, OneTab, NEW a \in Tabs, A!ClearModules(a) PROVE StaffInv'
<1> DEFINE u == tab[a].user
           row == [account[u] EXCEPT !.modules = {}]
           more == given[u]
           x == [tab[a] EXCEPT !.pc = "update"]
<1>1. tab[a] \in TabReq /\ u \in Accounts
  BY DEF StaffInv, TabKnows, A!ClearModules
<1>2. /\ account' = [account EXCEPT ![u] = row] /\ UNCHANGED <<given, login, call>> /\ tab' = [tab EXCEPT ![a] = x]
  BY DEF A!ClearModules
<1>3. account[u] \in A!User /\ more \in SUBSET SUBSET A!AdminModule
  BY <1>1, StaffTypes
<1>4. row \in A!User /\ row.modules = {} /\ (A!Stored(u) => row.state = "stored")
  BY <1>3 DEF A!User, A!Stored
<1>5. given' = [given EXCEPT ![u] = more]
  BY <1>1, <1>2, StaffTypes
<1>6. x \in TabReq /\ x.user = u
  BY <1>1 DEF TabReq
<1>7. account'[u].modules = {}
  BY <1>1, <1>2, <1>4, StaffTypes
<1>8. tab' \in [Tabs -> TabReq] /\ \A b \in Tabs : tab'[b].user = u
  BY <1>2, <1>6 DEF StaffInv, OneTab
<1>9. \A b \in Tabs : TabKnows(b)'
  BY <1>1, <1>7, <1>8 DEF TabKnows
<1> HIDE DEF row, x
<1>10. A!TypeOK' /\ A!ModulesAreOfOneRequest' /\ DOMAIN call' = Calls /\ \A c \in Calls : CallKnows(c)'
  <2> HIDE DEF more
  <2>1. given[u] \subseteq more
    BY DEF more
  <2> QED BY <1>1, <1>2, <1>3, <1>4, <1>5, <2>1, RowWritten
<1> QED BY <1>2, <1>8, <1>9, <1>10 DEF StaffInv

LEMMA SaveStaffStep ==
  ASSUME A!StaffAssumption, StaffInv, OneTab, NEW a \in Tabs, A!SaveStaff(a) PROVE StaffInv'
<1> DEFINE r == tab[a]
           u == r.user
           was == account[u]
           modules == A!Given(r.modules, {})
           phone == A!Given(r.phone, was.phone)
           email == A!Given(r.email, was.email)
           row == [was EXCEPT !.phone = phone, !.email = email, !.modules = was.modules \cup modules]
           more == given[u] \cup r.modules
<1>1. /\ r \in TabReq /\ u \in Accounts /\ UNCHANGED <<login, call>> /\ tab' = [tab EXCEPT ![a] = A!IdleTab]
      /\ r.modules # {} => was.modules = {}
  BY DEF StaffInv, TabKnows, A!SaveStaff
<1>2. CASE UNCHANGED <<account, given>>
  BY <1>1, <1>2, IdleTabFacts, TabMoves
<1>3. ASSUME account' = [account EXCEPT ![u] = row], given' = [given EXCEPT ![u] = more]
      PROVE  StaffInv'
  <2>1. was \in A!User /\ given[u] \in SUBSET SUBSET A!AdminModule /\ was.modules \in given[u] \cup {{}}
    BY <1>1, StaffTypes
  <2>2. phone \in A!Number \cup {None}
    <3>1. was.phone \in A!Number \cup {None} /\ r.phone \in A!Optional(A!Number)
      BY <1>1, <2>1 DEF A!User, TabReq
    <3> QED BY <3>1, FieldFacts
  <2>3. email \in Emails \cup {None}
    <3>1. was.email \in Emails \cup {None} /\ r.email \in A!Optional(Emails \cup {None})
      BY <1>1, <2>1 DEF A!User, TabReq
    <3> QED BY <3>1, FieldFacts
  <2>4. /\ was.modules \cup modules \in SUBSET A!AdminModule
        /\ was.modules \cup modules \in more \cup {{}} /\ more \in SUBSET SUBSET A!AdminModule
    <3>1. r.modules \in A!Optional(SUBSET A!AdminModule) /\ was.modules \in SUBSET A!AdminModule
      BY <1>1, <2>1 DEF TabReq, A!User
    <3>2. more \in SUBSET SUBSET A!AdminModule
      BY <2>1, <3>1 DEF A!Optional
    <3>3. CASE r.modules = {} /\ modules = {}
      BY <2>1, <3>1, <3>2, <3>3
    <3>4. ASSUME NEW x \in SUBSET A!AdminModule, r.modules = {x}, modules = x
          PROVE  /\ was.modules \cup modules \in SUBSET A!AdminModule
                 /\ was.modules \cup modules \in more \cup {{}}
      <4>1. was.modules \cup modules = x /\ x \in more
        BY <1>1, <3>4
      <4> QED BY <4>1
    <3>5. \/ r.modules = {} /\ modules = {}
          \/ \E x \in SUBSET A!AdminModule : r.modules = {x} /\ modules = x
      BY <3>1, FieldFacts
    <3> HIDE DEF more, modules, was, r
    <3> QED BY <3>2, <3>3, <3>4, <3>5
  <2>5. A!Stored(u) => was.state = "stored"
    BY DEF A!Stored
  <2>6. given[u] \subseteq more /\ u \in Accounts
    BY <1>1
  <2>7. account' = [account EXCEPT ![u] = row] /\ given' = [given EXCEPT ![u] = more]
    BY <1>3
  <2> HIDE DEF phone, email, modules, more, was, u, r
  <2>8. row \in A!User /\ row.modules = was.modules \cup modules /\ row.state = was.state
    BY <2>1, <2>2, <2>3, <2>4 DEF A!User
  <2>9. row.modules \in more \cup {{}} /\ (A!Stored(u) => row.state = "stored")
    BY <2>4, <2>5, <2>8
  <2> HIDE DEF row
  <2>10. A!TypeOK' /\ A!ModulesAreOfOneRequest' /\ DOMAIN call' = Calls /\ \A c \in Calls : CallKnows(c)'
    BY <1>1, <2>4, <2>6, <2>7, <2>8, <2>9, RowWritten
  <2> QED BY <1>1, <2>10, TabFreed DEF StaffInv
<1>4. UNCHANGED <<account, given>> \/ (account' = [account EXCEPT ![u] = row] /\ given' = [given EXCEPT ![u] = more])
  <2>1. CASE A!Clashes(r) \/ modules \cap was.modules # {}
    BY <2>1 DEF A!SaveStaff
  <2>2. CASE ~(A!Clashes(r) \/ modules \cap was.modules # {})
    BY <2>2 DEF A!SaveStaff
  <2> QED BY <2>1, <2>2
<1> QED BY <1>2, <1>3, <1>4

LEMMA FindByPhoneStep ==
  ASSUME StaffInv, NEW p \in Phones, NEW n \in A!Number, A!FindByPhone(p, n) PROVE StaffInv'
<1>1. login' \in [Phones -> A!Optional(A!Number)] /\ UNCHANGED <<account, given, tab, call>>
  BY DEF StaffInv, A!FindByPhone, A!Optional
<1> QED BY <1>1 DEF StaffInv, A!TypeOK, A!ModulesAreOfOneRequest, TabKnows, CallKnows, A!Stored

\* A row whose modules nobody touches leaves every request as it was.
LEMMA TabKept ==
  ASSUME StaffInv, tab' = tab, \A v \in Accounts : account'[v].modules = account[v].modules \/ account'[v].modules = {}
  PROVE  tab' \in [Tabs -> TabReq] /\ \A b \in Tabs : TabKnows(b)'
BY DEF StaffInv, TabKnows

LEMMA CreateByPhoneStep ==
  ASSUME StaffInv, NEW p \in Phones, A!CreateByPhone(p) PROVE StaffInv'
<1>1. login' = [login EXCEPT ![p] = {}] /\ UNCHANGED <<given, tab, call>>
  BY DEF A!CreateByPhone
<1>2. login' \in [Phones -> A!Optional(A!Number)]
  BY <1>1 DEF StaffInv, A!Optional
<1>3. CASE A!Taken("phone", login[p], None)
  <2>1. account' = account
    BY <1>3 DEF A!CreateByPhone
  <2> QED BY <1>1, <1>2, <2>1 DEF StaffInv, A!TypeOK, A!ModulesAreOfOneRequest, TabKnows, CallKnows, A!Stored
<1>4. CASE ~A!Taken("phone", login[p], None)
  <2> DEFINE phone == A!Given(login[p], None)
             row == [A!NoUser EXCEPT !.state = "stored", !.phone = phone]
  <2>1. PICK u \in Accounts : account[u].state = "absent" /\ account' = [account EXCEPT ![u] = row]
    BY <1>4 DEF A!CreateByPhone
  <2>2. phone \in A!Number \cup {None}
    <3>1. login[p] \in A!Optional(A!Number)
      BY DEF StaffInv
    <3> QED BY <3>1, FieldFacts
  <2> HIDE DEF phone
  <2>3. row \in A!User /\ row.modules = {} /\ row.state = "stored"
    BY <2>2, NoUserFacts DEF A!User
  <2>4. ~A!Stored(u) /\ given' = [given EXCEPT ![u] = given[u]] /\ given[u] \in SUBSET SUBSET A!AdminModule
    BY <1>1, <2>1, StaffTypes DEF A!Stored
  <2> HIDE DEF row
  <2> DEFINE more == given[u]
  <2>5. given' = [given EXCEPT ![u] = more] /\ more \in SUBSET SUBSET A!AdminModule
    BY <2>4
  <2> HIDE DEF more
  <2>6. A!TypeOK' /\ A!ModulesAreOfOneRequest' /\ DOMAIN call' = Calls /\ \A c \in Calls : CallKnows(c)'
    BY <1>1, <2>1, <2>3, <2>4, <2>5, RowWritten
  <2>7. \A v \in Accounts : account'[v].modules = account[v].modules \/ account'[v].modules = {}
    BY <2>1, <2>3, StaffTypes
  <2> QED BY <1>1, <1>2, <2>6, <2>7, TabKept DEF StaffInv
<1> QED BY <1>3, <1>4

LEMMA UpdateProfileStep ==
  ASSUME StaffInv, NEW u \in Accounts, NEW email \in Emails, A!UpdateProfile(u, email) PROVE StaffInv'
<1> DEFINE row == [account[u] EXCEPT !.email = email]
           more == given[u]
<1>1. account' = [account EXCEPT ![u] = row] /\ UNCHANGED <<given, tab, login, call>> /\ A!Stored(u)
  BY DEF A!UpdateProfile
<1>2. account[u] \in A!User /\ more \in SUBSET SUBSET A!AdminModule /\ account[u].modules \in more \cup {{}}
  BY StaffTypes
<1>3. row \in A!User /\ row.modules = account[u].modules /\ row.state = account[u].state
  BY <1>2 DEF A!User
<1>4. given' = [given EXCEPT ![u] = more] /\ given[u] \subseteq more
  BY <1>1, StaffTypes
<1>5. row.modules \in more \cup {{}} /\ row.state = "stored"
  BY <1>1, <1>2, <1>3 DEF A!Stored
<1> HIDE DEF row, more
<1>6. A!TypeOK' /\ A!ModulesAreOfOneRequest' /\ DOMAIN call' = Calls /\ \A c \in Calls : CallKnows(c)'
  BY <1>1, <1>2, <1>3, <1>4, <1>5, RowWritten
<1>7. \A v \in Accounts : account'[v].modules = account[v].modules
  BY <1>1, <1>3, StaffTypes
<1> QED BY <1>1, <1>6, <1>7, TabKept DEF StaffInv

\* The guards read the modules, and what they read was given.
LEMMA AdmitStep ==
  ASSUME StaffInv, NEW c \in Calls, NEW u \in Accounts, A!Admit(c, u) PROVE StaffInv'
<1>1. /\ call' = [call EXCEPT ![c] = [user |-> u, scope |-> account[u].modules]] /\ A!Stored(u)
      /\ account[u].modules \cap {"CLEAN", "REPAIR"} # {} /\ UNCHANGED <<account, given, tab, login>>
  BY DEF A!Admit, A!Scope
<1>2. account[u].modules \in given[u]
  BY <1>1, StaffTypes
<1>3. /\ DOMAIN call' = Calls /\ call'[c].user = u /\ call'[c].scope = account[u].modules
      /\ \A d \in Calls : d # c => call'[d] = call[d]
  BY <1>1 DEF StaffInv
<1>4. ASSUME NEW d \in Calls PROVE CallKnows(d)' /\ call'[d].user \in Accounts \cup {None}
  <2>1. CallKnows(d) /\ call[d].user \in Accounts \cup {None}
    BY DEF StaffInv, A!TypeOK
  <2> QED BY <1>1, <1>2, <1>3, <2>1 DEF CallKnows, A!Stored
<1>5. A!TypeOK'
  BY <1>1, <1>4 DEF StaffInv, A!TypeOK
<1> QED BY <1>1, <1>3, <1>4, <1>5 DEF StaffInv, A!ModulesAreOfOneRequest, TabKnows

LEMMA AnswerStep ==
  ASSUME StaffInv, NEW c \in Calls, A!Answer(c) PROVE StaffInv'
<1>1. call' = [call EXCEPT ![c] = A!IdleCall] /\ UNCHANGED <<account, given, tab, login>>
  BY DEF A!Answer
<1>2. /\ DOMAIN call' = Calls /\ call'[c].user = None /\ \A d \in Calls : d # c => call'[d] = call[d]
  BY <1>1 DEF StaffInv, A!IdleCall
<1>3. ASSUME NEW d \in Calls PROVE CallKnows(d)' /\ call'[d].user \in Accounts \cup {None}
  <2>1. CallKnows(d) /\ call[d].user \in Accounts \cup {None}
    BY DEF StaffInv, A!TypeOK
  <2> QED BY <1>1, <1>2, <2>1 DEF CallKnows, A!Stored
<1>4. A!TypeOK'
  BY <1>1, <1>3 DEF StaffInv, A!TypeOK
<1> QED BY <1>1, <1>2, <1>3, <1>4 DEF StaffInv, A!ModulesAreOfOneRequest, TabKnows

LEMMA InitStaff == ASSUME A!Init PROVE StaffInv
<1>1. PICK u \in Accounts, n \in A!Number :
        account = [v \in Accounts |-> IF v = u THEN [A!NoUser EXCEPT !.state = "stored", !.role = "SUPER_ADMIN", !.phone = n]
                                      ELSE A!NoUser]
  BY DEF A!Init
<1>2. given = [v \in Accounts |-> {}] /\ tab = [a \in Tabs |-> A!IdleTab] /\ login = [p \in Phones |-> {}]
      /\ call = [c \in Calls |-> A!IdleCall]
  BY DEF A!Init
<1>3. account \in [Accounts -> A!User] /\ \A v \in Accounts : account[v].modules = {}
  <2> DEFINE row == [A!NoUser EXCEPT !.state = "stored", !.role = "SUPER_ADMIN", !.phone = n]
  <2>1. row \in A!User /\ row.modules = {}
    BY NoUserFacts DEF A!User, A!UserType
  <2> HIDE DEF row
  <2>2. account = [v \in Accounts |-> IF v = u THEN row ELSE A!NoUser]
    BY <1>1 DEF row
  <2> QED BY <2>1, <2>2, NoUserFacts
<1>4. A!TypeOK /\ A!ModulesAreOfOneRequest
  BY <1>2, <1>3 DEF A!TypeOK, A!ModulesAreOfOneRequest, A!IdleCall
<1>5. login \in [Phones -> A!Optional(A!Number)]
  BY <1>2 DEF A!Optional
<1>6. tab \in [Tabs -> TabReq] /\ \A a \in Tabs : TabKnows(a)
  BY <1>2, IdleTabFacts DEF TabKnows
<1>7. DOMAIN call = Calls /\ \A c \in Calls : CallKnows(c)
  BY <1>2 DEF CallKnows, A!IdleCall
<1> QED BY <1>4, <1>5, <1>6, <1>7 DEF StaffInv

\* The vertical a guard lets a request act in is one its modules stand for.
LEMMA VerticalFacts ==
  ASSUME NEW modules, modules \cap {"CLEAN", "REPAIR"} # {}
  PROVE  A!verticalsOf(modules) # {}
BY DEF A!verticalsOf, A!VERTICAL_OF

LEMMA StaffInvKeeps == ASSUME StaffInv PROVE A!StaffKeepScope
<1>1. ASSUME NEW c \in Calls, call[c].user # None
      PROVE  /\ A!verticalsOf(call[c].scope) # {}
             /\ \E modules \in given[call[c].user] : A!verticalsOf(call[c].scope) \subseteq A!verticalsOf(modules)
  BY <1>1, VerticalFacts DEF StaffInv, CallKnows
<1> QED BY <1>1 DEF StaffInv, A!StaffKeepScope, A!ScopeWasGiven

LEMMA StaffQuiet == ASSUME StaffInv, UNCHANGED A!vars PROVE StaffInv'
BY DEF StaffInv, A!vars, A!TypeOK, A!ModulesAreOfOneRequest, TabKnows, CallKnows, A!Stored

\* While one super admin edits at a time (AdminUsersService: updateStaff()
\* deletes the modules and stores the new ones in two statements), an admin
\* holds the modules of one request or none, and what a request is admitted to
\* by AdminModulesGuard is what a super admin gave that admin.
THEOREM StaffHold == ASSUME A!StaffAssumption, OneTab PROVE A!Spec => []A!StaffKeepScope
<1>1. A!Init => StaffInv
  BY InitStaff
<1>2. StaffInv /\ [A!Next]_(A!vars) => StaffInv'
  <2> SUFFICES ASSUME StaffInv, [A!Next]_(A!vars) PROVE StaffInv'
    OBVIOUS
  <2>1. ASSUME NEW a \in Tabs, A!UsersTab(a) PROVE StaffInv'
    BY <2>1, CreateStaffStep, UpdateStaffStep, AssertFreeStep, InsertStaffStep, ClearModulesStep, SaveStaffStep, AbortStep
       DEF A!UsersTab
  <2>2. ASSUME NEW p \in Phones, (\E n \in A!Number : A!FindByPhone(p, n)) \/ A!CreateByPhone(p) PROVE StaffInv'
    BY <2>2, FindByPhoneStep, CreateByPhoneStep
  <2>3. CASE A!ProfileStep
    BY <2>3, UpdateProfileStep DEF A!ProfileStep
  <2>4. ASSUME NEW c \in Calls, (\E u \in Accounts : A!Admit(c, u)) \/ A!Answer(c) PROVE StaffInv'
    BY <2>4, AdmitStep, AnswerStep
  <2>5. CASE UNCHANGED A!vars
    BY <2>5, StaffQuiet
  <2> QED BY <2>1, <2>2, <2>3, <2>4, <2>5 DEF A!Next
<1>3. StaffInv => A!StaffKeepScope
  BY StaffInvKeeps
<1> QED BY <1>1, <1>2, <1>3, PTL DEF A!Spec

(***************************************************************************)
(* Sign-in and access together                                             *)
(***************************************************************************)

SP == INSTANCE SessionsProofs WITH Devices <- Clients, Parallel <- 1, req <- sessionReq

RP == INSTANCE SessionsProofs WITH
        Devices <- RacingClients, MaxSessions <- MaxRaceSessions,
        sessions <- raceSessions, held <- raceHeld, req <- raceReq, upset <- raceUpset, reused <- raceReused

\* SP is S with what is proved of it, RP is R.
LEMMA WaitingSteps == (S!Init => SP!Init) /\ ([S!Next]_(S!vars) => [SP!Next]_(SP!vars))
BY DEF S!vars, SP!vars, S!Slots, SP!Slots, S!NoSession, SP!NoSession, S!IdleReq, SP!IdleReq, S!Init, SP!Init,
          S!At, SP!At, S!Goto, SP!Goto, S!Done, SP!Done, S!Family, SP!Family, S!NewSession, SP!NewSession, S!Create,
          SP!Create, S!RevokeAll, SP!RevokeAll, S!IssueTokenPair, SP!IssueTokenPair, S!RotateRefreshToken,
          SP!RotateRefreshToken, S!Claim, SP!Claim, S!CreateNext, SP!CreateNext, S!FamilyMembers, SP!FamilyMembers,
          S!RevokeFamily, SP!RevokeFamily, S!Logout, SP!Logout, S!Revoke, SP!Revoke, S!Answer, SP!Answer,
          S!LoseAnswer, SP!LoseAnswer, S!Abort, SP!Abort, S!Forget, SP!Forget, S!Expire, SP!Expire, S!SessionStep,
          SP!SessionStep, S!Next, SP!Next

LEMMA WaitingWords ==
  /\ S!SessionsAssumption => SP!SessionsAssumption
  /\ SP!SessionsHold => S!SessionsHold
BY DEF S!SessionsAssumption, SP!SessionsAssumption, S!Slots, SP!Slots, S!NoSession, SP!NoSession, S!At, SP!At,
          S!Family, SP!Family, S!Ids, SP!Ids, S!TypeOK, SP!TypeOK, S!OneLiveSession, SP!OneLiveSession,
          S!ReuseEndsFamily, SP!ReuseEndsFamily, S!ClientStaysSignedIn, SP!ClientStaysSignedIn, S!SessionsHold,
          SP!SessionsHold

LEMMA RacingSteps == (R!Init => RP!Init) /\ ([R!Next]_(R!vars) => [RP!Next]_(RP!vars))
BY DEF R!vars, RP!vars, R!Slots, RP!Slots, R!NoSession, RP!NoSession, R!IdleReq, RP!IdleReq, R!Init, RP!Init,
          R!At, RP!At, R!Goto, RP!Goto, R!Done, RP!Done, R!Family, RP!Family, R!NewSession, RP!NewSession, R!Create,
          RP!Create, R!RevokeAll, RP!RevokeAll, R!IssueTokenPair, RP!IssueTokenPair, R!RotateRefreshToken,
          RP!RotateRefreshToken, R!Claim, RP!Claim, R!CreateNext, RP!CreateNext, R!FamilyMembers, RP!FamilyMembers,
          R!RevokeFamily, RP!RevokeFamily, R!Logout, RP!Logout, R!Revoke, RP!Revoke, R!Answer, RP!Answer,
          R!LoseAnswer, RP!LoseAnswer, R!Abort, RP!Abort, R!Forget, RP!Forget, R!Expire, RP!Expire, R!SessionStep,
          RP!SessionStep, R!Next, RP!Next

LEMMA RacingWords ==
  /\ R!SessionsAssumption => RP!SessionsAssumption
  /\ RP!SessionsHold => R!SessionsHold
BY DEF R!SessionsAssumption, RP!SessionsAssumption, R!Slots, RP!Slots, R!NoSession, RP!NoSession, R!At, RP!At,
          R!Family, RP!Family, R!Ids, RP!Ids, R!TypeOK, RP!TypeOK, R!OneLiveSession, RP!OneLiveSession,
          R!ReuseEndsFamily, RP!ReuseEndsFamily, R!ClientStaysSignedIn, RP!ClientStaysSignedIn, R!SessionsHold,
          RP!SessionsHold

\* A behaviour of the whole is, for each component, one of its own.
LEMMA Components == Spec => O!Spec /\ S!Spec /\ R!Spec /\ T!Spec /\ A!Spec
<1>1. Init => O!Init /\ S!Init /\ R!Init /\ T!Init /\ A!Init
  BY DEF Init
<1>2. ASSUME [Next]_vars
      PROVE  /\ [O!Next]_(O!vars) /\ [S!Next]_(S!vars) /\ [R!Next]_(R!vars)
             /\ [T!Next]_(T!vars) /\ [A!Next]_(A!vars)
  <2> USE DEF vars, otpVars, sessionVars, raceVars, tokenVars, staffVars, O!vars, S!vars, R!vars, T!vars, A!vars
  <2>1. [O!Next]_(O!vars) /\ [S!Next]_(S!vars)
    BY <1>2 DEF Next
  <2>2. [R!Next]_(R!vars) /\ [T!Next]_(T!vars)
    BY <1>2 DEF Next
  <2>3. [A!Next]_(A!vars)
    BY <1>2 DEF Next
  <2> QED BY <2>1, <2>2, <2>3
<1> QED BY <1>1, <1>2, PTL DEF Spec, O!Spec, S!Spec, R!Spec, T!Spec, A!Spec

\* OtpService with one device and a gateway that answers in time: a code that
\* arrived signs in until it is superseded, used up or expired, and a send that
\* failed leaves no cooldown behind.
THEOREM CodesKept == ASSUME OneDevice, NoLateSms PROVE Spec => []CodesWork
BY CodesHold, Components, SignInAssumption, PTL DEF CodesWork

\* AuthService.refresh and its repository: devices that wait for their answers
\* lose the whole family of a token used twice, and are not signed out by their
\* own refreshes; however the requests of a device cross, a family has one
\* session at most that is good to refresh.
THEOREM SessionsKept == Spec => []SessionsHold
<1>1. SP!Spec => []SP!SessionsHold
  BY SignInAssumption, WaitingWords, SP!Hold
<1>2. RP!Spec => []RP!SessionsHold
  BY SignInAssumption, RacingWords, RP!Hold
<1>3. SP!SessionsHold /\ RP!SessionsHold => SessionsHold
  BY WaitingWords, RacingWords DEF SessionsHold
<1> QED BY <1>1, <1>2, <1>3, WaitingSteps, RacingSteps, Components, PTL DEF S!Spec, R!Spec, SP!Spec, RP!Spec

\* TokenDenylistService: once a logout was answered, no request of its token is
\* let in, and the entry goes with the token.
THEOREM LogoutKept == Spec => []LogoutHolds
BY LoggedOut, Components, SignInAssumption, PTL DEF LogoutHolds

\* AdminModulesGuard and AdminUsersRepository with one super admin at a time:
\* what a request is admitted to was given to that admin.
THEOREM ScopeKept == ASSUME OneTab PROVE Spec => []StaffKeepScope
BY StaffHold, Components, SignInAssumption, PTL DEF StaffKeepScope
=============================================================================
