-------------------------- MODULE SessionsProofs --------------------------
(***************************************************************************)
(* What Sessions guarantees of codes, tokens and accounts, for all sets of *)
(* requests, phones, addresses, tokens and codes, all time limits and all  *)
(* numbers of attempts.                                                    *)
(***************************************************************************)
EXTENDS Sessions, FiniteSetTheorems, TLAPS

---------------------------------------------------------------------------
(* The inductive invariant, in layers *)

Holding    == {"wrong", "consume"}      \* a code was read and is not written yet
Refreshing == {"owner", "rotate"}       \* and the same of a token

\* The places of a handler that may end with issueTokenPair.
Issuing == {"verify", "consume", "exists", "create", "wallet", "loyalty", "issue"} \cup Refreshing

\* What a request has in its locals, by its place in the handler.
LocalsOK(q) ==
    LET r == req[q] IN
    /\ r.pc \notin {"idle", "done"} => r.phone \in Phones
    /\ r.pc \in {"recent", "send", "verify"} \cup Holding => r.purpose \in Purposes
    /\ IF r.pc \in Holding THEN r.otp \in OtpIds /\ otp[r.otp].phone # NoPhone
                           ELSE r.otp = NoOtp
    /\ r.pc \in Refreshing => r.tok \in TokenIds /\ token[r.tok].phone = r.phone
    /\ r.pc = "loyalty" => r.phone \in wallets
    /\ r.pc = "delete" => user[r.phone] # "NONE"

Shape == TypeOK /\ \A q \in Requests : LocalsOK(q)

Readers(o)  == {q \in Requests : req[q].otp = o}
Rotators(t) == {q \in Requests : req[q].pc \in Refreshing /\ req[q].tok = t}

\* How often a code was accepted or counted as wrong, and what those who have read
\* it may still do, together stay within the limits and the rivals; and every
\* comparison is one of those, or its handler failed.
CodeOK(o) ==
    /\ accepted[o] + Cardinality(Readers(o)) <= 1 + codeRivals[o]
    /\ otp[o].attempts + accepted[o] + Cardinality(Readers(o)) <= MaxAttempts + codeRivals[o]
    /\ tried[o] <= otp[o].attempts + accepted[o] + Cardinality(Readers(o)) + lost[o]
    /\ ~otp[o].used => accepted[o] = 0
    /\ otp[o].phone = NoPhone => accepted[o] = 0 /\ otp[o].attempts = 0

Codes == \A o \in OtpIds : CodeOK(o)

\* The same of a token and its exchanges.
RefreshOK(t) ==
    /\ rotated[t] + Cardinality(Rotators(t)) <= 1 + tokenRivals[t]
    /\ ~token[t].revoked => rotated[t] = 0
    /\ token[t].phone = NoPhone => rotated[t] = 0

Refreshes == \A t \in TokenIds : RefreshOK(t)

\* Sessions of p may be open that go back to earlier credentials.
Excused(p) ==
    \/ p \in broken
    \/ \E q \in Requests : req[q].pc = "revoke" /\ req[q].phone = p

\* A handler that will issue tokens for credentials called off since was under
\* way at the time, or exchanges a token of one that was.
HandlerOK(q) ==
    req[q].pc \in Issuing /\ req[q].epoch < epoch[req[q].phone] =>
      q \in overtaken \/ req[q].tok \in escaped \/ Excused(req[q].phone)

Survivors == NoSurvivors /\ \A q \in Requests : HandlerOK(q)

\* A profile is written for an account that was not deleted meanwhile, or its
\* handler was under way when it was.
Erased ==
    /\ EmailStaysErased
    /\ \A q \in Requests \ overtaken : req[q].pc = "profile" => user[req[q].phone] = "ACTIVE"

IInv == Shape /\ Codes /\ Refreshes /\ Survivors /\ Erased /\ RegistrationComplete

---------------------------------------------------------------------------
(* The locals of the request that takes a step *)

\* Nobody's locals change but those of q.
Alone(q) ==
    /\ req' \in [Requests -> Locals]
    /\ \A s \in Requests \ {q} : req'[s] = req[s]

LEMMA LocalsUpdate ==
  ASSUME TypeOK, NEW q \in Requests, NEW r \in Locals, req' = [req EXCEPT ![q] = r]
  PROVE  Alone(q) /\ req'[q] = r
  BY DEF TypeOK, Alone

LEMMA IdleFields ==
  /\ Idle \in Locals /\ Idle.pc = "idle" /\ Idle.phone = NoPhone /\ Idle.purpose = "NONE"
  /\ Idle.otp = NoOtp /\ Idle.tok = NoToken /\ Idle.email = NoEmail /\ Idle.epoch = 0
  /\ Done \in Locals /\ Done.pc = "done" /\ Done.otp = NoOtp /\ Done.phone = NoPhone
  BY DEF Idle, Done, Locals, PCs

\* A request is answered.
LEMMA DoneUpdate ==
  ASSUME TypeOK, NEW q \in Requests, req' = [req EXCEPT ![q] = Done]
  PROVE  Alone(q) /\ req'[q].pc = "done" /\ req'[q].otp = NoOtp /\ req'[q].phone = NoPhone
  BY IdleFields, LocalsUpdate

\* A request moves on within its handler.
LEMMA GotoUpdate ==
  ASSUME TypeOK, NEW q \in Requests, NEW pc \in PCs, Goto(q, pc)
  PROVE  /\ Alone(q) /\ req'[q].pc = pc /\ req'[q].phone = req[q].phone
         /\ req'[q].purpose = req[q].purpose /\ req'[q].otp = req[q].otp
         /\ req'[q].tok = req[q].tok /\ req'[q].email = req[q].email
         /\ req'[q].epoch = req[q].epoch
<1> DEFINE r == [req[q] EXCEPT !.pc = pc]
<1>1. req[q] \in Locals
  BY DEF TypeOK
<1>2. /\ r \in Locals /\ r.pc = pc /\ r.phone = req[q].phone
      /\ r.purpose = req[q].purpose /\ r.otp = req[q].otp /\ r.tok = req[q].tok
      /\ r.email = req[q].email /\ r.epoch = req[q].epoch
  BY <1>1 DEF Locals
<1>3. req' = [req EXCEPT ![q] = r]
  BY DEF Goto, TypeOK
<1> HIDE DEF r
<1> QED BY <1>2, <1>3, LocalsUpdate

\* A handler starts.
LEMMA BeginUpdate ==
  ASSUME TypeOK, NEW q \in Requests, NEW pc \in PCs, NEW p \in Phones, Begin(q, pc, p)
  PROVE  /\ Alone(q) /\ req[q].pc = "idle"
         /\ req'[q].pc = pc /\ req'[q].phone = p /\ req'[q].otp = NoOtp
         /\ req'[q].tok = NoToken /\ req'[q].epoch = epoch[p]
<1> DEFINE r == [Idle EXCEPT !.pc = pc, !.phone = p, !.epoch = epoch[p]]
<1>1. epoch[p] \in Nat
  BY DEF TypeOK
<1>2. /\ r \in Locals /\ r.pc = pc /\ r.phone = p /\ r.otp = NoOtp /\ r.tok = NoToken
      /\ r.epoch = epoch[p]
  BY <1>1 DEF Idle, Locals, PCs
<1>3. req[q].pc = "idle" /\ req' = [req EXCEPT ![q] = r]
  BY DEF Begin
<1> HIDE DEF r
<1> QED BY <1>2, <1>3, LocalsUpdate

LEMMA RequestOtpUpdate ==
  ASSUME TypeOK, NEW q \in Requests, NEW p \in Phones, NEW purpose \in Purposes,
         RequestOtp(q, p, purpose)
  PROVE  /\ Alone(q) /\ req[q].pc = "idle"
         /\ req'[q].pc = "recent" /\ req'[q].phone = p /\ req'[q].purpose = purpose
         /\ req'[q].otp = NoOtp
<1> DEFINE r == [Idle EXCEPT !.pc = "recent", !.phone = p, !.purpose = purpose]
<1>2. r \in Locals /\ r.pc = "recent" /\ r.phone = p /\ r.otp = NoOtp /\ r.purpose = purpose
  BY DEF Idle, Locals, PCs
<1>3. req[q].pc = "idle" /\ req' = [req EXCEPT ![q] = r]
  BY DEF RequestOtp
<1> HIDE DEF r
<1> QED BY <1>2, <1>3, LocalsUpdate

LEMMA BeginVerifyUpdate ==
  ASSUME TypeOK, NEW q \in Requests, NEW p \in Phones, NEW purpose \in Purposes,
         BeginVerify(q, p, purpose)
  PROVE  /\ Alone(q) /\ req[q].pc = "idle"
         /\ req'[q].pc = "verify" /\ req'[q].phone = p /\ req'[q].purpose = purpose
         /\ req'[q].otp = NoOtp /\ req'[q].epoch = epoch[p]
<1> DEFINE r == [Idle EXCEPT !.pc = "verify", !.phone = p, !.purpose = purpose,
                             !.epoch = epoch[p]]
<1>1. epoch[p] \in Nat
  BY DEF TypeOK
<1>2. /\ r \in Locals /\ r.pc = "verify" /\ r.phone = p /\ r.otp = NoOtp
      /\ r.purpose = purpose /\ r.epoch = epoch[p]
  BY <1>1 DEF Idle, Locals, PCs
<1>3. req[q].pc = "idle" /\ req' = [req EXCEPT ![q] = r]
  BY DEF BeginVerify
<1> HIDE DEF r
<1> QED BY <1>2, <1>3, LocalsUpdate

LEMMA UpdateProfileUpdate ==
  ASSUME TypeOK, NEW q \in Requests, NEW p \in Phones, NEW e \in Emails \cup {NoEmail},
         UpdateProfile(q, p, e)
  PROVE  /\ Alone(q) /\ req[q].pc = "idle"
         /\ req'[q].pc = "profile" /\ req'[q].phone = p /\ req'[q].otp = NoOtp
<1> DEFINE r == [Idle EXCEPT !.pc = "profile", !.phone = p, !.email = e]
<1>2. r \in Locals /\ r.pc = "profile" /\ r.phone = p /\ r.otp = NoOtp
  BY DEF Idle, Locals, PCs
<1>3. req[q].pc = "idle" /\ req' = [req EXCEPT ![q] = r]
  BY DEF UpdateProfile
<1> HIDE DEF r
<1> QED BY <1>2, <1>3, LocalsUpdate

LEMMA RefreshTokensUpdate ==
  ASSUME TypeOK, NEW q \in Requests, NEW t \in TokenIds, RefreshTokens(q, t)
  PROVE  /\ Alone(q) /\ req[q].pc = "idle" /\ token[t].phone \in Phones
         /\ req'[q].pc = "owner" /\ req'[q].phone = token[t].phone /\ req'[q].otp = NoOtp
         /\ req'[q].tok = t /\ req'[q].epoch = born[t]
<1> DEFINE r == [Idle EXCEPT !.pc = "owner", !.phone = token[t].phone, !.tok = t,
                             !.epoch = born[t]]
<1>1. born[t] \in Nat /\ token[t].phone \in Phones
  BY DEF TypeOK, TokenRows, RefreshTokens
<1>2. /\ r \in Locals /\ r.pc = "owner" /\ r.phone = token[t].phone /\ r.otp = NoOtp
      /\ r.tok = t /\ r.epoch = born[t]
  BY <1>1 DEF Idle, Locals, PCs
<1>3. req[q].pc = "idle" /\ req' = [req EXCEPT ![q] = r]
  BY DEF RefreshTokens
<1> HIDE DEF r
<1> QED BY <1>1, <1>2, <1>3, LocalsUpdate

LEMMA ReadCodeUpdate ==
  ASSUME TypeOK, NEW q \in Requests, NEW o \in OtpIds, NEW right \in BOOLEAN,
         ReadCode(q, o, right)
  PROVE  /\ Alone(q) /\ req'[q].pc \in Holding /\ req'[q].phone = req[q].phone
         /\ req'[q].purpose = req[q].purpose /\ req'[q].otp = o
         /\ req'[q].tok = req[q].tok /\ req'[q].epoch = req[q].epoch
<1> DEFINE pc == IF right THEN "consume" ELSE "wrong"
<1> DEFINE r == [req[q] EXCEPT !.pc = pc, !.otp = o]
<1>1. req[q] \in Locals /\ pc \in Holding /\ pc \in PCs
  BY DEF TypeOK, Holding, PCs
<1>3. req' = [req EXCEPT ![q] = r]
  BY DEF ReadCode, TypeOK
<1> HIDE DEF pc
<1>2. /\ r \in Locals /\ r.pc \in Holding /\ r.phone = req[q].phone
      /\ r.purpose = req[q].purpose /\ r.otp = o /\ r.tok = req[q].tok
      /\ r.epoch = req[q].epoch
  BY <1>1 DEF Locals
<1> HIDE DEF r
<1> QED BY <1>2, <1>3, LocalsUpdate

LEMMA ConsumeOtpUpdate ==
  ASSUME Shape, NEW q \in Requests, ConsumeOtp(q)
  PROVE  /\ Alone(q) /\ req[q].pc = "consume" /\ req'[q].phone = req[q].phone
         /\ req'[q].pc \in {"exists", "issue", "password"}
         /\ req'[q].otp = NoOtp /\ req'[q].tok = req[q].tok /\ req'[q].epoch = req[q].epoch
<1> DEFINE pc == AfterCode[req[q].purpose]
<1> DEFINE r == [req[q] EXCEPT !.pc = pc, !.otp = NoOtp]
<1>0. TypeOK /\ req[q].pc = "consume" /\ req[q].purpose \in Purposes
  BY DEF Shape, LocalsOK, ConsumeOtp, Holding
<1>1. req[q] \in Locals /\ pc \in {"exists", "issue", "password"}
  BY <1>0 DEF TypeOK, AfterCode, Purposes
<1>3. req' = [req EXCEPT ![q] = r]
  BY <1>0 DEF ConsumeOtp, TypeOK
<1> HIDE DEF pc
<1>2. /\ r \in Locals /\ r.pc \in {"exists", "issue", "password"} /\ r.phone = req[q].phone
      /\ r.otp = NoOtp /\ r.tok = req[q].tok /\ r.epoch = req[q].epoch
  BY <1>1 DEF Locals, PCs
<1> HIDE DEF r
<1> QED BY <1>0, <1>2, <1>3, LocalsUpdate

---------------------------------------------------------------------------
(* The rows of codes and tokens *)

LEMMA CreateOtpRow ==
  ASSUME Shape, NEW q \in Requests, NEW o \in OtpIds, CreateOtp(q, o)
  PROVE  /\ otp' \in [OtpIds -> OtpRows] /\ otp[o].phone = NoPhone
         /\ otp'[o].phone \in Phones /\ otp'[o].attempts = 0
         /\ \A i \in OtpIds \ {o} : otp'[i] = otp[i]
<1>1. req[q].phone \in Phones /\ req[q].purpose \in Purposes
  BY DEF Shape, LocalsOK, CreateOtp, Holding
<1>2. otp[o].phone = NoPhone
  BY ClockAssumption DEF CreateOtp
<1> DEFINE row == [phone |-> req[q].phone, purpose |-> req[q].purpose,
                   at |-> now, attempts |-> 0, used |-> FALSE]
<1>3. row \in OtpRows /\ row.phone \in Phones /\ row.attempts = 0
  BY <1>1 DEF OtpRows, Shape, TypeOK
<1>4. otp' = [otp EXCEPT ![o] = row]
  BY DEF CreateOtp
<1> HIDE DEF row
<1> QED BY <1>2, <1>3, <1>4 DEF Shape, TypeOK

LEMMA WrongCodeRow ==
  ASSUME Shape, NEW q \in Requests, WrongCode(q)
  PROVE  /\ req[q].otp \in OtpIds /\ otp' \in [OtpIds -> OtpRows]
         /\ \A o \in OtpIds :
              /\ otp'[o].phone = otp[o].phone /\ otp'[o].used = otp[o].used
              /\ otp'[o].attempts = IF o = req[q].otp THEN otp[o].attempts + 1
                                                      ELSE otp[o].attempts
<1>1. PICK i \in OtpIds : i = req[q].otp
  BY DEF Shape, TypeOK, WrongCode
<1> DEFINE row == [otp[i] EXCEPT !.attempts = otp[i].attempts + 1]
<1>2. otp[i] \in OtpRows
  BY DEF Shape, TypeOK
<1>3. /\ row \in OtpRows /\ row.phone = otp[i].phone /\ row.used = otp[i].used
      /\ row.attempts = otp[i].attempts + 1
  BY <1>2 DEF OtpRows
<1>4. otp' = [otp EXCEPT ![i] = row]
  BY <1>1 DEF WrongCode, Shape, TypeOK
<1> HIDE DEF row
<1> QED BY <1>1, <1>3, <1>4 DEF Shape, TypeOK

LEMMA ConsumeOtpRow ==
  ASSUME Shape, NEW q \in Requests, ConsumeOtp(q)
  PROVE  /\ req[q].otp \in OtpIds /\ otp' \in [OtpIds -> OtpRows]
         /\ otp'[req[q].otp].used
         /\ \A o \in OtpIds :
              /\ otp'[o].phone = otp[o].phone /\ otp'[o].attempts = otp[o].attempts
              /\ o # req[q].otp => otp'[o].used = otp[o].used
<1>1. PICK i \in OtpIds : i = req[q].otp
  BY DEF Shape, TypeOK, ConsumeOtp
<1> DEFINE row == [otp[i] EXCEPT !.used = TRUE]
<1>2. otp[i] \in OtpRows
  BY DEF Shape, TypeOK
<1>3. row \in OtpRows /\ row.phone = otp[i].phone /\ row.used /\ row.attempts = otp[i].attempts
  BY <1>2 DEF OtpRows
<1>4. otp' = [otp EXCEPT ![i] = row]
  BY <1>1 DEF ConsumeOtp, Shape, TypeOK
<1> HIDE DEF row
<1> QED BY <1>1, <1>3, <1>4 DEF Shape, TypeOK

\* Tokens are revoked.
Revokes ==
    /\ token' \in [TokenIds -> TokenRows]
    /\ \A t \in TokenIds : /\ token'[t].phone = token[t].phone
                           /\ token[t].revoked => token'[t].revoked

LEMMA RevokeOne ==
  ASSUME Shape, NEW t \in TokenIds, token' = [token EXCEPT ![t].revoked = TRUE]
  PROVE  Revokes /\ token'[t].revoked
<1> DEFINE row == [token[t] EXCEPT !.revoked = TRUE]
<1>1. token[t] \in TokenRows
  BY DEF Shape, TypeOK
<1>2. row \in TokenRows /\ row.phone = token[t].phone /\ row.revoked
  BY <1>1 DEF TokenRows
<1>3. token' = [token EXCEPT ![t] = row]
  BY DEF Shape, TypeOK
<1> HIDE DEF row
<1> QED BY <1>2, <1>3 DEF Shape, TypeOK, Revokes

LEMMA RotateRow ==
  ASSUME Shape, NEW q \in Requests, Rotate(q)
  PROVE  req[q].tok \in TokenIds /\ Revokes /\ token'[req[q].tok].revoked
<1>1. PICK t \in TokenIds : t = req[q].tok
  BY DEF Shape, LocalsOK, Rotate, Refreshing
<1>2. token' = [token EXCEPT ![t].revoked = TRUE]
  BY <1>1 DEF Rotate
<1> QED BY <1>1, <1>2, RevokeOne

LEMMA RevokeAllRows ==
  ASSUME Shape, NEW q \in Requests, RevokeAll(q)
  PROVE  Revokes /\ \A t \in TokenIds : token[t].phone = req[q].phone => token'[t].revoked
<1>1. ASSUME NEW t \in TokenIds
      PROVE  /\ token'[t] \in TokenRows /\ token'[t].phone = token[t].phone
             /\ token[t].revoked => token'[t].revoked
             /\ token[t].phone = req[q].phone => token'[t].revoked
  <2>1. token[t] \in TokenRows
    BY DEF Shape, TypeOK
  <2>2. token'[t] = IF token[t].phone = req[q].phone THEN [token[t] EXCEPT !.revoked = TRUE]
                                                     ELSE token[t]
    BY DEF RevokeAll
  <2> QED BY <2>1, <2>2 DEF TokenRows
<1>2. token' \in [TokenIds -> TokenRows]
  <2>1. token' = [t \in TokenIds |-> token'[t]]
    BY DEF RevokeAll
  <2> QED BY <1>1, <2>1
<1> QED BY <1>1, <1>2 DEF Revokes

LEMMA IssueTokenPairRow ==
  ASSUME Shape, NEW q \in Requests, NEW t \in TokenIds, IssueTokenPair(q, t)
  PROVE  /\ token' \in [TokenIds -> TokenRows] /\ token[t].phone = NoPhone
         /\ req[q].phone \in Phones /\ token'[t].phone = req[q].phone
         /\ \A i \in TokenIds \ {t} : token'[i] = token[i]
<1>1. req[q].phone \in Phones /\ token[t].phone = NoPhone
  BY DEF Shape, LocalsOK, IssueTokenPair
<1> DEFINE row == [phone |-> req[q].phone, at |-> now, revoked |-> FALSE]
<1>2. row \in TokenRows /\ row.phone = req[q].phone
  BY <1>1 DEF TokenRows, Shape, TypeOK
<1>3. token' = [token EXCEPT ![t] = row]
  BY DEF IssueTokenPair
<1> HIDE DEF row
<1> QED BY <1>1, <1>2, <1>3 DEF Shape, TypeOK

---------------------------------------------------------------------------
(* Shape: types and locals *)

TablesTyped ==
    /\ user \in [Phones -> {"NONE", "ACTIVE", "DELETED"}]
    /\ email \in [Phones -> Emails \cup {NoEmail}]
    /\ named \subseteq Phones /\ wallets \subseteq Phones /\ loyalty \subseteq Phones
    /\ otp \in [OtpIds -> OtpRows] /\ token \in [TokenIds -> TokenRows]
    /\ now \in 0..Horizon

HistoryTyped ==
    /\ epoch \in [Phones -> Nat] /\ born \in [TokenIds -> Nat]
    /\ tried \in [OtpIds -> Nat] /\ accepted \in [OtpIds -> Nat] /\ lost \in [OtpIds -> Nat]
    /\ rotated \in [TokenIds -> Nat]
    /\ codeRivals \in [OtpIds -> Nat] /\ tokenRivals \in [TokenIds -> Nat]
    /\ overtaken \subseteq Requests /\ escaped \subseteq TokenIds
    /\ kept \subseteq Phones /\ broken \subseteq Phones

LEMMA ShapeTyped ==
  ASSUME Shape
  PROVE  TypeOK /\ TablesTyped /\ HistoryTyped /\ req \in [Requests -> Locals]
  BY DEF Shape, TypeOK, TablesTyped, HistoryTyped

\* No account, code, token or wallet goes away.
RowsStay ==
    /\ \A p \in Phones : user[p] # "NONE" => user'[p] # "NONE"
    /\ \A o \in OtpIds : otp[o].phone # NoPhone => otp'[o].phone # NoPhone
    /\ \A t \in TokenIds : token[t].phone # NoPhone => token'[t].phone = token[t].phone
    /\ wallets \subseteq wallets'

\* Locals that are in order stay so when they do not change.
LEMMA LocalsStay ==
  ASSUME Shape, RowsStay, NEW s \in Requests, req'[s] = req[s]
  PROVE  LocalsOK(s)'
<1>1. LocalsOK(s)
  BY DEF Shape
<1>2. req[s].pc = "delete" => req[s].phone \in Phones
  BY <1>1 DEF LocalsOK
<1>3. /\ req[s].pc \in Refreshing => req[s].phone \in Phones
      /\ Phones \cap {NoPhone} = {}
  BY <1>1, NullAssumption DEF LocalsOK, Refreshing
<1> QED BY <1>1, <1>2, <1>3 DEF LocalsOK, RowsStay

LEMMA ShapeStep ==
  ASSUME Shape, TablesTyped', HistoryTyped', RowsStay, NEW q \in Requests, Alone(q), LocalsOK(q)'
  PROVE  Shape'
<1>1. \A s \in Requests : LocalsOK(s)'
  BY LocalsStay DEF Alone
<1>2. \A s \in Requests : req'[s].pc \in {"wrong", "consume"} => req'[s].otp \in OtpIds
  BY <1>1 DEF LocalsOK, Holding
<1>3. TypeOK'
  BY <1>2 DEF TypeOK, TablesTyped, HistoryTyped, Alone
<1> QED BY <1>1, <1>3 DEF Shape

\* A step that only writes the locals of q.
LEMMA ShapeMove ==
  ASSUME Shape, NEW q \in Requests, Alone(q), LocalsOK(q)', UNCHANGED <<tables, now>>, HistoryTyped'
  PROVE  Shape'
<1>1. TablesTyped' /\ RowsStay
  BY ShapeTyped DEF TablesTyped, RowsStay, tables
<1> QED BY <1>1, ShapeStep

\* A step that leaves the locals alone.
LEMMA ShapeTables ==
  ASSUME Shape, TablesTyped', RowsStay, UNCHANGED <<req, history>>
  PROVE  Shape'
<1>1. HistoryTyped' /\ req' \in [Requests -> Locals]
  BY ShapeTyped DEF HistoryTyped, history
<1>2. \A s \in Requests : LocalsOK(s)'
  BY LocalsStay
<1>3. TypeOK'
  <2>1. \A s \in Requests : req'[s].pc \in {"wrong", "consume"} => req'[s].otp \in OtpIds
    BY <1>2 DEF LocalsOK, Holding
  <2> QED BY <1>1, <2>1 DEF TypeOK, TablesTyped, HistoryTyped
<1> QED BY <1>2, <1>3 DEF Shape

LEMMA HistoryStays ==
  ASSUME Shape, UNCHANGED history
  PROVE  HistoryTyped'
  BY ShapeTyped DEF HistoryTyped, history

\* The locals of a request that has been answered.
LEMMA DoneLocals ==
  ASSUME NEW q \in Requests, req'[q].pc = "done", req'[q].otp = NoOtp
  PROVE  LocalsOK(q)'
  BY DEF LocalsOK, Holding, Refreshing

\* A step that ends the request and writes nothing else but history.
LEMMA ShapeFinish ==
  ASSUME Shape, NEW q \in Requests, Finish(q), UNCHANGED <<tables, now, epoch, born, tried, accepted,
           rotated, codeRivals, tokenRivals, escaped, kept>>, broken' \subseteq Phones,
         lost' \in [OtpIds -> Nat]
  PROVE  Shape'
<1>1. Alone(q) /\ LocalsOK(q)'
  BY ShapeTyped, DoneUpdate, DoneLocals DEF Finish
<1>2. HistoryTyped'
  BY ShapeTyped DEF HistoryTyped, Finish
<1> QED BY <1>1, <1>2, ShapeMove

LEMMA ShapeInit == Init => Shape
<1> SUFFICES ASSUME Init PROVE Shape
  OBVIOUS
<1>1. TablesTyped
  <2>1. SentCodes \cup {NoOtpRow} \subseteq OtpRows
    <3>1. 0 \in 0..Horizon /\ 0 \in Nat
      BY ClockAssumption
    <3>2. NoOtpRow \in OtpRows
      BY <3>1 DEF NoOtpRow, OtpRows
    <3>3. ASSUME NEW row \in SentCodes
          PROVE  row \in OtpRows
      <4>1. row \in [phone : Phones, purpose : Purposes, at : {0}, attempts : {0},
                      used : {FALSE}]
        BY DEF SentCodes
      <4> QED BY <3>1, <4>1 DEF OtpRows
    <3> QED BY <3>2, <3>3
  <2>2. OpenSessions \cup {NoTokenRow} \subseteq TokenRows
    <3>1. 0 \in 0..Horizon
      BY ClockAssumption
    <3>2. NoTokenRow \in TokenRows
      BY <3>1 DEF NoTokenRow, TokenRows
    <3>3. ASSUME NEW row \in OpenSessions
          PROVE  row \in TokenRows
      BY <3>1, <3>3 DEF OpenSessions, TokenRows
    <3> QED BY <3>2, <3>3
  <2>3. otp \in [OtpIds -> OtpRows] /\ token \in [TokenIds -> TokenRows]
    BY <2>1, <2>2 DEF Init
  <2> QED BY <2>3, ClockAssumption DEF Init, TablesTyped
<1>2. HistoryTyped
  BY DEF Init, HistoryTyped
<1>3. \A q \in Requests : req[q] = Idle
  BY DEF Init
<1>4. req \in [Requests -> Locals] /\ \A q \in Requests : LocalsOK(q)
  BY <1>3, IdleFields DEF Init, LocalsOK, Holding, Refreshing
<1>5. TypeOK
  BY <1>1, <1>2, <1>3, <1>4, IdleFields DEF TypeOK, TablesTyped, HistoryTyped
<1> QED BY <1>4, <1>5 DEF Shape

\* Every action keeps types and locals in order.
LEMMA ShapeNext ==
  ASSUME Shape, [Next]_vars
  PROVE  Shape'
<1> USE ShapeTyped
<1>1. ASSUME NEW q \in Requests, NEW p \in Phones, NEW purpose \in Purposes,
             RequestOtp(q, p, purpose)
      PROVE  Shape'
  <2>1. LocalsOK(q)' /\ Alone(q)
    BY <1>1, RequestOtpUpdate DEF LocalsOK, Holding, Refreshing
  <2>2. UNCHANGED <<tables, now, history>>
    BY <1>1 DEF RequestOtp
  <2> QED BY <2>1, <2>2, ShapeMove, HistoryStays
<1>2. ASSUME NEW q \in Requests, NEW p \in Phones, NEW purpose \in Purposes,
             BeginVerify(q, p, purpose)
      PROVE  Shape'
  <2>1. LocalsOK(q)' /\ Alone(q)
    BY <1>2, BeginVerifyUpdate DEF LocalsOK, Holding, Refreshing
  <2>2. UNCHANGED <<tables, now, history>>
    BY <1>2 DEF BeginVerify
  <2> QED BY <2>1, <2>2, ShapeMove, HistoryStays
<1>3. ASSUME NEW q \in Requests, NEW p \in Phones, LoginWithPassword(q, p)
      PROVE  Shape'
  <2>0. Begin(q, "issue", p) /\ UNCHANGED <<tables, now, history>> /\ "issue" \in PCs
    BY <1>3 DEF LoginWithPassword, PCs
  <2>1. LocalsOK(q)' /\ Alone(q)
    BY <2>0, BeginUpdate DEF LocalsOK, Holding, Refreshing
  <2> QED BY <2>0, <2>1, ShapeMove, HistoryStays
<1>4. ASSUME NEW q \in Requests, NEW p \in Phones, RequestAccountDeletion(q, p)
      PROVE  Shape'
  <2>0. /\ Begin(q, "delete", p) /\ UNCHANGED <<tables, now, history>> /\ "delete" \in PCs
        /\ user'[p] # "NONE"
    BY <1>4 DEF RequestAccountDeletion, PCs, tables
  <2>1. LocalsOK(q)' /\ Alone(q)
    BY <2>0, BeginUpdate DEF LocalsOK, Holding, Refreshing
  <2> QED BY <2>0, <2>1, ShapeMove, HistoryStays
<1>5. ASSUME NEW q \in Requests, NEW p \in Phones, NEW e \in Emails \cup {NoEmail},
             UpdateProfile(q, p, e)
      PROVE  Shape'
  <2>1. LocalsOK(q)' /\ Alone(q)
    BY <1>5, UpdateProfileUpdate DEF LocalsOK, Holding, Refreshing
  <2>2. UNCHANGED <<tables, now, history>>
    BY <1>5 DEF UpdateProfile
  <2> QED BY <2>1, <2>2, ShapeMove, HistoryStays
<1>6. ASSUME NEW q \in Requests, NEW t \in TokenIds, IssueTokenPair(q, t)
      PROVE  Shape'
  <2>1. LocalsOK(q)' /\ Alone(q)
    BY <1>6, DoneUpdate, DoneLocals DEF IssueTokenPair, Finish
  <2>2. TablesTyped' /\ RowsStay
    BY <1>6, IssueTokenPairRow DEF IssueTokenPair, TablesTyped, RowsStay
  <2>3. HistoryTyped'
    <3>1. req[q].epoch \in Nat
      BY DEF Locals
    <3>2. escaped' \subseteq TokenIds /\ born' \in [TokenIds -> Nat]
      BY <1>6, <3>1 DEF IssueTokenPair, HistoryTyped
    <3> QED BY <1>6, <3>2 DEF IssueTokenPair, HistoryTyped, Finish
  <2> QED BY <2>1, <2>2, <2>3, ShapeStep
<1>7. ASSUME NEW q \in Requests, NEW t \in TokenIds, RefreshTokens(q, t)
      PROVE  Shape'
  <2>0. UNCHANGED <<tables, now>> /\ token' = token
    BY <1>7 DEF RefreshTokens, tables
  <2>1. LocalsOK(q)' /\ Alone(q)
    BY <1>7, <2>0, RefreshTokensUpdate DEF LocalsOK, Holding, Refreshing
  <2>2. HistoryTyped'
    <3>1. tokenRivals' \in [TokenIds -> Nat]
      BY <1>7 DEF RefreshTokens, HistoryTyped
    <3> QED BY <1>7, <3>1 DEF RefreshTokens, HistoryTyped
  <2> QED BY <2>0, <2>1, <2>2, ShapeMove
<1>8. ASSUME NEW q \in Requests, NEW o \in OtpIds, CreateOtp(q, o)
      PROVE  Shape'
  <2>1. LocalsOK(q)' /\ Alone(q)
    BY <1>8, DoneUpdate, DoneLocals DEF CreateOtp
  <2>2. TablesTyped' /\ RowsStay
    BY <1>8, CreateOtpRow, NullAssumption DEF CreateOtp, TablesTyped, RowsStay
  <2>3. HistoryTyped'
    BY <1>8, HistoryStays DEF CreateOtp
  <2> QED BY <2>1, <2>2, <2>3, ShapeStep
<1>9. ASSUME NEW q \in Requests, NEW right \in BOOLEAN, VerifyOtp(q, right)
      PROVE  Shape'
  <2>0. /\ UNCHANGED <<tables, now, epoch, born, accepted, lost, rotated, tokenRivals,
                       escaped, kept, broken>>
        /\ req[q].pc = "verify"
    BY <1>9 DEF VerifyOtp
  <2>1. CASE Finish(q) /\ UNCHANGED <<codeRivals, tried>>
    BY <2>0, <2>1, ShapeFinish DEF HistoryTyped
  <2>2. ASSUME NEW o \in OtpIds, Newest(o, req[q].phone, req[q].purpose),
               ReadCode(q, o, right)
        PROVE  Shape'
    <3>1. req[q].phone \in Phones /\ req[q].purpose \in Purposes
      BY <2>0 DEF Shape, LocalsOK, Holding
    <3>2. otp[o].phone # NoPhone /\ otp' = otp
      BY <2>0, <2>2, <3>1, NullAssumption DEF Newest, tables
    <3>3. Alone(q) /\ LocalsOK(q)'
      BY <2>2, <3>1, <3>2, ReadCodeUpdate DEF LocalsOK, Holding, Refreshing
    <3>4. codeRivals' \in [OtpIds -> Nat] /\ tried' \in [OtpIds -> Nat] /\ overtaken' = overtaken
      BY <2>2 DEF ReadCode, HistoryTyped
    <3>5. HistoryTyped'
      BY <2>0, <3>4 DEF HistoryTyped
    <3> QED BY <2>0, <3>3, <3>5, ShapeMove
  <2> QED BY <1>9, <2>1, <2>2 DEF VerifyOtp
<1>10. ASSUME NEW q \in Requests, CheckCooldown(q)
       PROVE  Shape'
  <2>0. UNCHANGED <<tables, now, history>> /\ req[q].pc = "recent" /\ "send" \in PCs
    BY <1>10 DEF CheckCooldown, PCs
  <2>1. LocalsOK(q)
    BY DEF Shape
  <2>2. CASE req' = [req EXCEPT ![q] = Done]
    BY <2>0, <2>2, DoneUpdate, DoneLocals, ShapeMove, HistoryStays
  <2>3. CASE Goto(q, "send")
    <3>1. Alone(q) /\ LocalsOK(q)'
      BY <2>0, <2>1, <2>3, GotoUpdate DEF LocalsOK, Holding, Refreshing
    <3> QED BY <2>0, <3>1, ShapeMove, HistoryStays
  <2> QED BY <1>10, <2>2, <2>3 DEF CheckCooldown
<1>11. ASSUME NEW q \in Requests, WrongCode(q)
       PROVE  Shape'
  <2>1. LocalsOK(q)' /\ Alone(q)
    BY <1>11, DoneUpdate, DoneLocals DEF WrongCode, Finish
  <2>2. TablesTyped' /\ RowsStay
    BY <1>11, WrongCodeRow DEF WrongCode, TablesTyped, RowsStay
  <2>3. HistoryTyped'
    BY <1>11 DEF WrongCode, Finish, HistoryTyped
  <2> QED BY <2>1, <2>2, <2>3, ShapeStep
<1>12. ASSUME NEW q \in Requests, ConsumeOtp(q)
       PROVE  Shape'
  <2>0. LocalsOK(q) /\ req[q].pc = "consume"
    BY <1>12 DEF Shape, ConsumeOtp
  <2>1. LocalsOK(q)' /\ Alone(q)
    BY <1>12, <2>0, ConsumeOtpUpdate DEF LocalsOK, Holding, Refreshing
  <2>2. TablesTyped' /\ RowsStay
    BY <1>12, ConsumeOtpRow DEF ConsumeOtp, TablesTyped, RowsStay
  <2>3. HistoryTyped'
    <3>0. req[q].otp \in OtpIds
      BY <1>12, ConsumeOtpRow
    <3>1. accepted' \in [OtpIds -> Nat]
      BY <1>12, <3>0 DEF ConsumeOtp, HistoryTyped
    <3> QED BY <1>12, <3>1 DEF ConsumeOtp, HistoryTyped
  <2> QED BY <2>1, <2>2, <2>3, ShapeStep
<1>13. ASSUME NEW q \in Requests, CheckNew(q)
       PROVE  Shape'
  <2>0. /\ UNCHANGED <<tables, now, epoch, born, tried, accepted, lost, rotated, codeRivals, tokenRivals,
                       escaped, kept, broken>>
        /\ req[q].pc = "exists" /\ "create" \in PCs /\ LocalsOK(q)
    BY <1>13 DEF CheckNew, PCs, Shape
  <2>1. CASE Finish(q)
    BY <2>0, <2>1, ShapeFinish DEF HistoryTyped
  <2>2. CASE Goto(q, "create") /\ UNCHANGED overtaken
    <3>1. Alone(q) /\ LocalsOK(q)'
      BY <2>0, <2>2, GotoUpdate DEF LocalsOK, Holding, Refreshing
    <3>2. HistoryTyped'
      BY <2>0, <2>2 DEF HistoryTyped
    <3> QED BY <2>0, <3>1, <3>2, ShapeMove
  <2> QED BY <1>13, <2>1, <2>2 DEF CheckNew
<1>14. ASSUME NEW q \in Requests, CreateUser(q)
       PROVE  Shape'
  <2>0. /\ UNCHANGED <<email, wallets, loyalty, otp, token, now, epoch, born, tried, accepted, lost, rotated,
                       codeRivals, tokenRivals, escaped, kept, broken>>
        /\ req[q].pc = "create" /\ "wallet" \in PCs /\ LocalsOK(q)
    BY <1>14 DEF CreateUser, PCs, Shape
  <2>1. CASE Finish(q) /\ UNCHANGED <<user, named>>
    BY <2>0, <2>1, ShapeFinish DEF HistoryTyped, tables
  <2>2. CASE /\ user' = [user EXCEPT ![req[q].phone] = "ACTIVE"]
             /\ named' = named \cup {req[q].phone}
             /\ Goto(q, "wallet") /\ UNCHANGED overtaken
    <3>1. Alone(q) /\ LocalsOK(q)'
      BY <2>0, <2>2, GotoUpdate DEF LocalsOK, Holding, Refreshing
    <3>2. HistoryTyped'
      BY <2>0, <2>2 DEF HistoryTyped
    <3>3. TablesTyped' /\ RowsStay
      BY <2>0, <2>2 DEF TablesTyped, RowsStay, LocalsOK
    <3> QED BY <3>1, <3>2, <3>3, ShapeStep
  <2> QED BY <1>14, <2>1, <2>2 DEF CreateUser
<1>15. ASSUME NEW q \in Requests, CreateWallet(q)
       PROVE  Shape'
  <2>0. /\ UNCHANGED <<user, email, named, loyalty, otp, token, now, history>> /\ req[q].pc = "wallet"
        /\ Goto(q, "loyalty") /\ wallets' = wallets \cup {req[q].phone}
        /\ "loyalty" \in PCs /\ LocalsOK(q)
    BY <1>15 DEF CreateWallet, PCs, Shape
  <2>1. Alone(q) /\ LocalsOK(q)'
    BY <2>0, GotoUpdate DEF LocalsOK, Holding, Refreshing
  <2>2. TablesTyped' /\ RowsStay
    BY <2>0 DEF TablesTyped, RowsStay, LocalsOK
  <2> QED BY <2>0, <2>1, <2>2, ShapeStep, HistoryStays
<1>16. ASSUME NEW q \in Requests, CreateLoyalty(q)
       PROVE  Shape'
  <2>0. /\ UNCHANGED <<user, email, named, wallets, otp, token, now, history>> /\ req[q].pc = "loyalty"
        /\ Goto(q, "issue") /\ loyalty' = loyalty \cup {req[q].phone}
        /\ "issue" \in PCs /\ LocalsOK(q)
    BY <1>16 DEF CreateLoyalty, PCs, Shape
  <2>1. Alone(q) /\ LocalsOK(q)'
    BY <2>0, GotoUpdate DEF LocalsOK, Holding, Refreshing
  <2>2. TablesTyped' /\ RowsStay
    BY <2>0 DEF TablesTyped, RowsStay, LocalsOK
  <2> QED BY <2>0, <2>1, <2>2, ShapeStep, HistoryStays
<1>17. ASSUME NEW q \in Requests, ReadOwner(q)
       PROVE  Shape'
  <2>0. /\ UNCHANGED <<tables, now, epoch, born, tried, accepted, lost, rotated, codeRivals, tokenRivals,
                       escaped, kept, broken>>
        /\ req[q].pc = "owner" /\ "rotate" \in PCs /\ LocalsOK(q) /\ token' = token
    BY <1>17 DEF ReadOwner, PCs, Shape, tables
  <2>1. CASE Finish(q)
    BY <2>0, <2>1, ShapeFinish DEF HistoryTyped
  <2>2. CASE Goto(q, "rotate") /\ UNCHANGED overtaken
    <3>1. Alone(q) /\ LocalsOK(q)'
      BY <2>0, <2>2, GotoUpdate DEF LocalsOK, Holding, Refreshing
    <3>2. HistoryTyped'
      BY <2>0, <2>2 DEF HistoryTyped
    <3> QED BY <2>0, <3>1, <3>2, ShapeMove
  <2> QED BY <1>17, <2>1, <2>2 DEF ReadOwner
<1>18. ASSUME NEW q \in Requests, Rotate(q)
       PROVE  Shape'
  <2>0. req[q].pc = "rotate" /\ Goto(q, "issue") /\ "issue" \in PCs /\ LocalsOK(q)
    BY <1>18 DEF Rotate, PCs, Shape
  <2>1. Alone(q) /\ LocalsOK(q)'
    BY <2>0, GotoUpdate DEF LocalsOK, Holding, Refreshing
  <2>2. TablesTyped' /\ RowsStay
    BY <1>18, RotateRow DEF Rotate, TablesTyped, RowsStay, Revokes
  <2>3. HistoryTyped'
    <3>0. req[q].tok \in TokenIds
      BY <1>18, RotateRow
    <3>1. rotated' \in [TokenIds -> Nat]
      BY <1>18, <3>0 DEF Rotate, HistoryTyped
    <3> QED BY <1>18, <3>1 DEF Rotate, HistoryTyped
  <2> QED BY <2>1, <2>2, <2>3, ShapeStep
<1>19. ASSUME NEW q \in Requests, SetPassword(q)
       PROVE  Shape'
  <2>0. /\ UNCHANGED <<tables, now>> /\ req[q].pc = "password" /\ Goto(q, "revoke")
        /\ "revoke" \in PCs /\ LocalsOK(q)
    BY <1>19 DEF SetPassword, PCs, Shape
  <2>1. Alone(q) /\ LocalsOK(q)'
    BY <2>0, GotoUpdate DEF LocalsOK, Holding, Refreshing
  <2>2. HistoryTyped'
    <3>1. epoch' \in [Phones -> Nat]
      BY <1>19, <2>0 DEF SetPassword, HistoryTyped, LocalsOK
    <3> QED BY <1>19, <3>1 DEF SetPassword, HistoryTyped
  <2> QED BY <2>0, <2>1, <2>2, ShapeMove
<1>20. ASSUME NEW q \in Requests, RevokeAll(q)
       PROVE  Shape'
  <2>1. LocalsOK(q)' /\ Alone(q)
    BY <1>20, DoneUpdate, DoneLocals DEF RevokeAll
  <2>2. TablesTyped' /\ RowsStay
    BY <1>20, RevokeAllRows DEF RevokeAll, TablesTyped, RowsStay, Revokes
  <2>3. HistoryTyped'
    BY <1>20 DEF RevokeAll, HistoryTyped
  <2> QED BY <2>1, <2>2, <2>3, ShapeStep
<1>21. ASSUME NEW q \in Requests, DeleteAccount(q)
       PROVE  Shape'
  <2>0. req[q].pc = "delete" /\ Goto(q, "revoke") /\ "revoke" \in PCs /\ LocalsOK(q)
    BY <1>21 DEF DeleteAccount, PCs, Shape
  <2>1. Alone(q) /\ LocalsOK(q)'
    BY <2>0, GotoUpdate DEF LocalsOK, Holding, Refreshing
  <2>2. TablesTyped' /\ RowsStay
    BY <1>21 DEF DeleteAccount, TablesTyped, RowsStay
  <2>3. HistoryTyped'
    <3>1. epoch' \in [Phones -> Nat] /\ overtaken' \subseteq Requests
      BY <1>21, <2>0 DEF DeleteAccount, HistoryTyped, LocalsOK
    <3> QED BY <1>21, <3>1 DEF DeleteAccount, HistoryTyped
  <2> QED BY <2>1, <2>2, <2>3, ShapeStep
<1>22. ASSUME NEW q \in Requests, WriteProfile(q)
       PROVE  Shape'
  <2>0. req[q].phone \in Phones /\ req[q].email \in Emails \cup {NoEmail}
    BY <1>22 DEF WriteProfile, Shape, LocalsOK, Locals
  <2>1. LocalsOK(q)' /\ Alone(q)
    BY <1>22, DoneUpdate, DoneLocals DEF WriteProfile, Finish
  <2>2. TablesTyped' /\ RowsStay
    <3>1. email' \in [Phones -> Emails \cup {NoEmail}] /\ named' \subseteq Phones
      BY <1>22, <2>0 DEF WriteProfile, TablesTyped
    <3> QED BY <1>22, <3>1 DEF WriteProfile, TablesTyped, RowsStay
  <2>3. HistoryTyped'
    BY <1>22, <2>0 DEF WriteProfile, Finish, HistoryTyped
  <2> QED BY <2>1, <2>2, <2>3, ShapeStep
<1>23. ASSUME NEW q \in Requests, Fail(q)
       PROVE  Shape'
  <2>1. req[q].phone \in Phones
    BY <1>23 DEF Fail, Shape, LocalsOK
  <2>2. broken' \subseteq Phones /\ lost' \in [OtpIds -> Nat]
    BY <1>23, <2>1 DEF Fail, HistoryTyped
  <2> QED BY <1>23, <2>2, ShapeFinish DEF Fail
<1>24. ASSUME NEW t \in TokenIds, Logout(t) \/ RevokeSession(t)
       PROVE  Shape'
  <2>1. TablesTyped' /\ RowsStay
    BY <1>24, RevokeOne DEF Logout, RevokeSession, TablesTyped, RowsStay, Revokes
  <2> QED BY <1>24, <2>1, ShapeTables DEF Logout, RevokeSession
<1>25. ASSUME Tick PROVE Shape'
  <2>1. now' \in 0..Horizon
    BY <1>25, ClockAssumption DEF Tick, TablesTyped
  <2>2. TablesTyped' /\ RowsStay
    BY <1>25, <2>1 DEF Tick, TablesTyped, RowsStay, tables
  <2> QED BY <1>25, <2>2, ShapeTables DEF Tick
<1>26. ASSUME UNCHANGED vars PROVE Shape'
  <2>1. UNCHANGED <<tables, now, req, history>>
    BY <1>26 DEF vars
  <2>2. TablesTyped' /\ RowsStay
    BY <2>1 DEF TablesTyped, RowsStay, tables
  <2> QED BY <2>1, <2>2, ShapeTables
<1> QED BY <1>1, <1>2, <1>3, <1>4, <1>5, <1>6, <1>7, <1>8, <1>9, <1>10, <1>11, <1>12, <1>13,
           <1>14, <1>15, <1>16, <1>17, <1>18, <1>19, <1>20, <1>21, <1>22, <1>23, <1>24, <1>25,
           <1>26 DEF Next

---------------------------------------------------------------------------
(* Codes: how often one is accepted and tried *)

LEMMA ReadersFinite ==
  ASSUME NEW o \in OtpIds
  PROVE  IsFiniteSet(Readers(o)) /\ Cardinality(Readers(o)) \in Nat
<1>1. Readers(o) \subseteq Requests
  BY DEF Readers
<1> QED BY <1>1, ClockAssumption, FS_Subset, FS_CardinalityType

\* What CodeOK counts are natural numbers.
LEMMA CountsTyped ==
  ASSUME Shape, NEW o \in OtpIds
  PROVE  /\ tried[o] \in Nat /\ accepted[o] \in Nat /\ lost[o] \in Nat
         /\ codeRivals[o] \in Nat /\ otp[o].attempts \in Nat
  BY DEF Shape, TypeOK, OtpRows

\* Nobody reads a code in this step, and nobody is done with one.
ReadersStay == \A s \in Requests : req'[s].otp = req[s].otp

LEMMA CodesFrame ==
  ASSUME Shape, Codes, ReadersStay, UNCHANGED <<otp, tried, accepted, lost, codeRivals>>
  PROVE  Codes'
<1>1. ASSUME NEW o \in OtpIds
      PROVE  CodeOK(o)'
  <2>1. Readers(o)' = Readers(o)
    BY DEF Readers, ReadersStay
  <2> QED BY <2>1 DEF Codes, CodeOK
<1> QED BY <1>1 DEF Codes

\* Those who have read a code, after q, which may have, is done.
LEMMA ReadersLeave ==
  ASSUME NEW q \in Requests, Alone(q), req'[q].otp = NoOtp, NEW o \in OtpIds
  PROVE  Cardinality(Readers(o)') = IF req[q].otp = o THEN Cardinality(Readers(o)) - 1
                                                      ELSE Cardinality(Readers(o))
<1>1. CASE req[q].otp = o
  <2>1. q \in Readers(o) /\ Readers(o)' = Readers(o) \ {q}
    BY <1>1, ClockAssumption DEF Readers, Alone
  <2> QED BY <1>1, <2>1, ReadersFinite, FS_RemoveElement
<1>2. CASE req[q].otp # o
  <2>1. Readers(o)' = Readers(o)
    BY <1>2, ClockAssumption DEF Readers, Alone
  <2> QED BY <1>2, <2>1
<1> QED BY <1>1, <1>2

\* A code that was not sent yet has no readers.
LEMMA UnsentUnread ==
  ASSUME Shape, NEW o \in OtpIds, otp[o].phone = NoPhone
  PROVE  Readers(o) = {}
<1>1. ASSUME NEW q \in Requests, req[q].otp = o
      PROVE  FALSE
  <2>1. LocalsOK(q) /\ o # NoOtp
    BY ClockAssumption DEF Shape
  <2> QED BY <1>1, <2>1 DEF LocalsOK
<1> QED BY <1>1 DEF Readers

LEMMA CodesCreate ==
  ASSUME Shape, Shape', Codes, NEW q \in Requests, NEW o \in OtpIds, CreateOtp(q, o)
  PROVE  Codes'
<1>1. Alone(q) /\ req'[q].otp = NoOtp /\ req[q].otp = NoOtp
  <2>1. LocalsOK(q) /\ req[q].pc = "send"
    BY DEF CreateOtp, Shape
  <2> QED BY <2>1, DoneUpdate DEF CreateOtp, Shape, LocalsOK, Holding
<1>2. UNCHANGED <<tried, accepted, lost, codeRivals>>
  BY DEF CreateOtp, history
<1>3. ASSUME NEW i \in OtpIds
      PROVE  CodeOK(i)'
  <2>1. CodeOK(i) /\ Readers(i)' = Readers(i)
    BY <1>1 DEF Codes, Readers, Alone
  <2>2. CASE i = o
    <3>1. otp[o].phone = NoPhone /\ otp'[o].phone \in Phones /\ otp'[o].attempts = 0
      BY CreateOtpRow
    <3>2. accepted[o] = 0 /\ otp[o].attempts = 0 /\ Cardinality(Readers(o)) = 0
      BY <2>1, <2>2, <3>1, UnsentUnread, FS_EmptySet DEF CodeOK
    <3> QED BY <1>2, <2>1, <2>2, <3>1, <3>2, CountsTyped, NullAssumption DEF CodeOK
  <2>3. CASE i # o
    <3>1. otp'[i] = otp[i]
      BY <2>3, CreateOtpRow
    <3> QED BY <1>2, <2>1, <3>1 DEF CodeOK
  <2> QED BY <2>2, <2>3
<1> QED BY <1>3 DEF Codes

LEMMA CodesRead ==
  ASSUME Shape, Shape', Codes, NEW q \in Requests, req[q].pc = "verify", NEW o \in OtpIds,
         NEW right \in BOOLEAN, Newest(o, req[q].phone, req[q].purpose),
         otp[o].attempts < MaxAttempts, ReadCode(q, o, right), UNCHANGED <<otp, accepted, lost>>
  PROVE  Codes'
<1>1. req[q].otp = NoOtp /\ Alone(q) /\ req'[q].otp = o
  <2>1. LocalsOK(q) /\ TypeOK
    BY DEF Shape
  <2> QED BY <2>1, ReadCodeUpdate DEF LocalsOK, Holding
<1>2. ASSUME NEW i \in OtpIds
      PROVE  CodeOK(i)'
  <2>1. CodeOK(i) /\ Cardinality(Readers(i)) \in Nat
    BY ReadersFinite DEF Codes
  <2>2. tried'[i] = IF i = o THEN tried[i] + 1 ELSE tried[i]
    BY DEF ReadCode, Shape, TypeOK
  <2>3. /\ tried[i] \in Nat /\ accepted[i] \in Nat /\ lost[i] \in Nat
        /\ codeRivals[i] \in Nat /\ otp[i].attempts \in Nat
    BY CountsTyped
  <2>4. CASE i = o
    <3>1. q \notin Readers(i) /\ Readers(i)' = Readers(i) \cup {q}
      BY <1>1, <2>4, ClockAssumption DEF Readers, Alone
    <3>2. Cardinality(Readers(i)') = Cardinality(Readers(i)) + 1
      BY <3>1, ReadersFinite, FS_AddElement
    <3>3. accepted[i] = 0
      BY <2>1, <2>4 DEF Newest, CodeOK
    <3>4. CASE \E s \in Requests : req[s].otp = o
      <4>1. codeRivals'[i] = codeRivals[i] + 1
        BY <2>4, <3>4 DEF ReadCode, Shape, TypeOK
      <4>2. otp[i].phone # NoPhone
        BY <2>4, <3>4, UnsentUnread DEF Readers
      <4> QED BY <2>1, <2>2, <2>3, <2>4, <3>2, <3>3, <4>1, <4>2, ClockAssumption DEF CodeOK
    <3>5. CASE ~\E s \in Requests : req[s].otp = o
      <4>1. codeRivals'[i] = codeRivals[i] /\ Readers(i) = {}
        BY <2>4, <3>5 DEF ReadCode, Readers
      <4>2. Cardinality(Readers(i)) = 0 /\ Cardinality(Readers(i)') = 1
        BY <3>2, <4>1, FS_EmptySet
      <4> QED BY <2>1, <2>2, <2>3, <2>4, <3>3, <4>1, <4>2, ClockAssumption DEF CodeOK
    <3> QED BY <3>4, <3>5
  <2>5. CASE i # o
    <3>1. Readers(i)' = Readers(i)
      BY <1>1, <2>5, ClockAssumption DEF Readers, Alone
    <3>2. codeRivals'[i] = codeRivals[i]
      BY <2>5 DEF ReadCode, Shape, TypeOK
    <3> QED BY <2>1, <2>2, <2>5, <3>1, <3>2 DEF CodeOK
  <2> QED BY <2>4, <2>5
<1> QED BY <1>2 DEF Codes

LEMMA CodesWrong ==
  ASSUME Shape, Shape', Codes, NEW q \in Requests, WrongCode(q)
  PROVE  Codes'
<1>1. Alone(q) /\ req'[q].otp = NoOtp
  BY DoneUpdate DEF WrongCode, Finish, Shape
<1>2. UNCHANGED <<tried, accepted, lost, codeRivals>>
  BY DEF WrongCode
<1>3. ASSUME NEW i \in OtpIds
      PROVE  CodeOK(i)'
  <2>1. CodeOK(i) /\ Cardinality(Readers(i)) \in Nat
    BY ReadersFinite DEF Codes
  <2>2. Cardinality(Readers(i)') = IF req[q].otp = i THEN Cardinality(Readers(i)) - 1
                                                     ELSE Cardinality(Readers(i))
    BY <1>1, ReadersLeave
  <2>3. /\ tried[i] \in Nat /\ accepted[i] \in Nat /\ lost[i] \in Nat
        /\ codeRivals[i] \in Nat /\ otp[i].attempts \in Nat
    BY CountsTyped
  <2>4. /\ otp'[i].phone = otp[i].phone /\ otp'[i].used = otp[i].used
        /\ otp'[i].attempts = IF i = req[q].otp THEN otp[i].attempts + 1 ELSE otp[i].attempts
    BY WrongCodeRow
  <2>5. otp[i].phone = NoPhone => i # req[q].otp
    <3>1. req[q].pc \in Holding /\ LocalsOK(q)
      BY DEF Shape, WrongCode, Holding
    <3> QED BY <3>1 DEF LocalsOK
  <2> QED BY <1>2, <2>1, <2>2, <2>3, <2>4, <2>5, ClockAssumption DEF CodeOK
<1> QED BY <1>3 DEF Codes

LEMMA CodesConsume ==
  ASSUME Shape, Shape', Codes, NEW q \in Requests, ConsumeOtp(q)
  PROVE  Codes'
<1>1. Alone(q) /\ req'[q].otp = NoOtp
  BY ConsumeOtpUpdate
<1>2. /\ UNCHANGED <<tried, lost, codeRivals>> /\ req[q].otp \in OtpIds
      /\ accepted' = [accepted EXCEPT ![req[q].otp] = @ + 1]
  BY ConsumeOtpRow DEF ConsumeOtp
<1>3. ASSUME NEW i \in OtpIds
      PROVE  CodeOK(i)'
  <2>1. CodeOK(i) /\ Cardinality(Readers(i)) \in Nat
    BY ReadersFinite DEF Codes
  <2>2. Cardinality(Readers(i)') = IF req[q].otp = i THEN Cardinality(Readers(i)) - 1
                                                     ELSE Cardinality(Readers(i))
    BY <1>1, ReadersLeave
  <2>3. /\ tried[i] \in Nat /\ accepted[i] \in Nat /\ lost[i] \in Nat
        /\ codeRivals[i] \in Nat /\ otp[i].attempts \in Nat
    BY CountsTyped
  <2>4. /\ otp'[i].phone = otp[i].phone /\ otp'[i].attempts = otp[i].attempts
        /\ i # req[q].otp => otp'[i].used = otp[i].used
        /\ i = req[q].otp => otp'[i].used
    BY ConsumeOtpRow
  <2>5. accepted'[i] = IF i = req[q].otp THEN accepted[i] + 1 ELSE accepted[i]
    BY <1>2 DEF Shape, TypeOK
  <2>6. otp[i].phone = NoPhone => i # req[q].otp
    <3>1. req[q].pc \in Holding /\ LocalsOK(q)
      BY DEF Shape, ConsumeOtp, Holding
    <3> QED BY <3>1 DEF LocalsOK
  <2> QED BY <1>2, <2>1, <2>2, <2>3, <2>4, <2>5, <2>6, ClockAssumption DEF CodeOK
<1> QED BY <1>3 DEF Codes

\* The handler fails, and what it compared is not written.
LEMMA CodesFail ==
  ASSUME Shape, Shape', Codes, NEW q \in Requests, Fail(q)
  PROVE  Codes'
<1>1. Alone(q) /\ req'[q].otp = NoOtp
  BY DoneUpdate DEF Fail, Finish, Shape
<1>2. UNCHANGED <<otp, tried, accepted, codeRivals>>
  BY DEF Fail, tables
<1>3. ASSUME NEW i \in OtpIds
      PROVE  CodeOK(i)'
  <2>1. CodeOK(i) /\ Cardinality(Readers(i)) \in Nat
    BY ReadersFinite DEF Codes
  <2>2. Cardinality(Readers(i)') = IF req[q].otp = i THEN Cardinality(Readers(i)) - 1
                                                     ELSE Cardinality(Readers(i))
    BY <1>1, ReadersLeave
  <2>3. /\ tried[i] \in Nat /\ accepted[i] \in Nat /\ lost[i] \in Nat
        /\ codeRivals[i] \in Nat /\ otp[i].attempts \in Nat
    BY CountsTyped
  <2>4. lost'[i] = IF req[q].otp = i THEN lost[i] + 1 ELSE lost[i]
    BY DEF Fail
  <2> QED BY <1>2, <2>1, <2>2, <2>3, <2>4, ClockAssumption DEF CodeOK
<1> QED BY <1>3 DEF Codes

\* A step of q that leaves the codes alone, and neither reads one nor is done
\* with one.
LEMMA CodesMove ==
  ASSUME Shape, Codes, NEW q \in Requests, Alone(q), req[q].pc \notin Holding,
         req'[q].otp \in {req[q].otp, NoOtp},
         UNCHANGED <<otp, tried, accepted, lost, codeRivals>>
  PROVE  Codes'
<1>1. req[q].otp = NoOtp
  BY DEF Shape, LocalsOK
<1>2. ReadersStay
  BY <1>1 DEF Alone, ReadersStay
<1> QED BY <1>2, CodesFrame

LEMMA CodesInit == Init => Codes
<1> SUFFICES ASSUME Init, NEW o \in OtpIds PROVE CodeOK(o)
  BY DEF Codes
<1>1. Readers(o) = {}
  BY IdleFields, ClockAssumption DEF Init, Readers
<1>2. otp[o].attempts = 0
  <2>1. otp[o] \in SentCodes \/ otp[o] = NoOtpRow
    BY DEF Init
  <2>2. CASE otp[o] \in SentCodes
    <3>1. otp[o] \in [phone : Phones, purpose : Purposes, at : {0}, attempts : {0},
                      used : {FALSE}]
      BY <2>2 DEF SentCodes
    <3> QED BY <3>1
  <2> QED BY <2>1, <2>2 DEF NoOtpRow
<1>3. tried[o] = 0 /\ accepted[o] = 0 /\ lost[o] = 0 /\ codeRivals[o] = 0
  BY DEF Init
<1> QED BY <1>1, <1>2, <1>3, ClockAssumption, FS_EmptySet DEF CodeOK

LEMMA CodesNext ==
  ASSUME Shape, Codes, [Next]_vars
  PROVE  Codes'
<1> USE ShapeTyped, ShapeNext
<1> DEFINE Same == UNCHANGED <<otp, tried, accepted, lost, codeRivals>>
<1>1. ASSUME NEW q \in Requests, NEW p \in Phones, NEW purpose \in Purposes,
             RequestOtp(q, p, purpose)
      PROVE  Codes'
  <2>1. Same
    BY <1>1 DEF RequestOtp, tables, history
  <2> QED BY <1>1, <2>1, RequestOtpUpdate, CodesMove DEF Holding
<1>2. ASSUME NEW q \in Requests, NEW p \in Phones, NEW purpose \in Purposes,
             BeginVerify(q, p, purpose)
      PROVE  Codes'
  <2>1. Same
    BY <1>2 DEF BeginVerify, tables, history
  <2> QED BY <1>2, <2>1, BeginVerifyUpdate, CodesMove DEF Holding
<1>3. ASSUME NEW q \in Requests, NEW p \in Phones,
             LoginWithPassword(q, p) \/ RequestAccountDeletion(q, p)
      PROVE  Codes'
  <2>1. Same
    BY <1>3 DEF LoginWithPassword, RequestAccountDeletion, tables, history
  <2>2. \E pc \in PCs : Begin(q, pc, p)
    BY <1>3 DEF LoginWithPassword, RequestAccountDeletion, PCs
  <2> QED BY <2>1, <2>2, BeginUpdate, CodesMove DEF Holding
<1>5. ASSUME NEW q \in Requests, NEW p \in Phones, NEW e \in Emails \cup {NoEmail},
             UpdateProfile(q, p, e)
      PROVE  Codes'
  <2>1. Same
    BY <1>5 DEF UpdateProfile, tables, history
  <2> QED BY <1>5, <2>1, UpdateProfileUpdate, CodesMove DEF Holding
<1>6. ASSUME NEW q \in Requests, NEW t \in TokenIds, IssueTokenPair(q, t)
      PROVE  Codes'
  <2>1. Same /\ req' = [req EXCEPT ![q] = Done] /\ req[q].pc \notin Holding
    BY <1>6 DEF IssueTokenPair, Finish, Holding
  <2> QED BY <2>1, DoneUpdate, CodesMove
<1>7. ASSUME NEW q \in Requests, NEW t \in TokenIds, RefreshTokens(q, t)
      PROVE  Codes'
  <2>1. Same
    BY <1>7 DEF RefreshTokens, tables
  <2> QED BY <1>7, <2>1, RefreshTokensUpdate, CodesMove DEF Holding
<1>8. ASSUME NEW q \in Requests, NEW o \in OtpIds, CreateOtp(q, o)
      PROVE  Codes'
  BY <1>8, CodesCreate
<1>9. ASSUME NEW q \in Requests, NEW right \in BOOLEAN, VerifyOtp(q, right)
      PROVE  Codes'
  <2>0. UNCHANGED <<otp, accepted, lost>> /\ req[q].pc = "verify" /\ req[q].pc \notin Holding
    BY <1>9 DEF VerifyOtp, tables, Holding
  <2>1. CASE Finish(q) /\ UNCHANGED <<codeRivals, tried>>
    BY <2>0, <2>1, DoneUpdate, CodesMove DEF Finish
  <2>2. ASSUME NEW o \in OtpIds, Newest(o, req[q].phone, req[q].purpose),
               otp[o].attempts < MaxAttempts, ReadCode(q, o, right)
        PROVE  Codes'
    BY <2>0, <2>2, CodesRead
  <2> QED BY <1>9, <2>1, <2>2 DEF VerifyOtp
<1>10. ASSUME NEW q \in Requests, CheckCooldown(q)
       PROVE  Codes'
  <2>0. Same /\ "send" \in PCs /\ req[q].pc \notin Holding
    BY <1>10 DEF CheckCooldown, tables, history, PCs, Holding
  <2> QED BY <1>10, <2>0, DoneUpdate, GotoUpdate, CodesMove DEF CheckCooldown
<1>11. ASSUME NEW q \in Requests, WrongCode(q)
       PROVE  Codes'
  BY <1>11, CodesWrong
<1>12. ASSUME NEW q \in Requests, ConsumeOtp(q)
       PROVE  Codes'
  BY <1>12, CodesConsume
<1>13. ASSUME NEW q \in Requests, CheckNew(q) \/ CreateUser(q) \/ ReadOwner(q)
       PROVE  Codes'
  <2>0. Same /\ req[q].pc \notin Holding
    BY <1>13 DEF CheckNew, CreateUser, ReadOwner, tables, Holding
  <2>1. Finish(q) \/ \E pc \in PCs : Goto(q, pc)
    BY <1>13 DEF CheckNew, CreateUser, ReadOwner, PCs
  <2> QED BY <2>0, <2>1, DoneUpdate, GotoUpdate, CodesMove DEF Finish
<1>14. ASSUME NEW q \in Requests, CreateWallet(q) \/ CreateLoyalty(q) \/ Rotate(q)
                                    \/ SetPassword(q) \/ DeleteAccount(q)
       PROVE  Codes'
  <2>0. Same /\ req[q].pc \notin Holding
    BY <1>14 DEF CreateWallet, CreateLoyalty, Rotate, SetPassword, DeleteAccount, tables,
                 history, Holding
  <2>1. \E pc \in PCs : Goto(q, pc)
    BY <1>14 DEF CreateWallet, CreateLoyalty, Rotate, SetPassword, DeleteAccount, PCs
  <2> QED BY <2>0, <2>1, GotoUpdate, CodesMove
<1>15. ASSUME NEW q \in Requests, RevokeAll(q) \/ WriteProfile(q)
       PROVE  Codes'
  <2>0. Same /\ req[q].pc \notin Holding
    BY <1>15 DEF RevokeAll, WriteProfile, tables, Holding
  <2>1. req' = [req EXCEPT ![q] = Done]
    BY <1>15 DEF RevokeAll, WriteProfile, Finish
  <2> QED BY <2>0, <2>1, DoneUpdate, CodesMove
<1>16. ASSUME NEW q \in Requests, Fail(q)
       PROVE  Codes'
  BY <1>16, CodesFail
<1>17. ASSUME Same, UNCHANGED req PROVE Codes'
  <2>1. ReadersStay
    BY <1>17 DEF ReadersStay
  <2> QED BY <1>17, <2>1, CodesFrame
<1>18. ASSUME NEW t \in TokenIds, Logout(t) \/ RevokeSession(t)
       PROVE  Codes'
  BY <1>17, <1>18 DEF Logout, RevokeSession, history
<1>19. ASSUME Tick \/ UNCHANGED vars PROVE Codes'
  BY <1>17, <1>19 DEF Tick, vars, tables, history
<1> QED BY <1>1, <1>2, <1>3, <1>5, <1>6, <1>7, <1>8, <1>9, <1>10, <1>11, <1>12, <1>13,
           <1>14, <1>15, <1>16, <1>18, <1>19 DEF Next

---------------------------------------------------------------------------
(* Refreshes: how often a token is exchanged *)

LEMMA RotatorsFinite ==
  ASSUME NEW t \in TokenIds
  PROVE  IsFiniteSet(Rotators(t)) /\ Cardinality(Rotators(t)) \in Nat
<1>1. Rotators(t) \subseteq Requests
  BY DEF Rotators
<1> QED BY <1>1, ClockAssumption, FS_Subset, FS_CardinalityType

\* Nobody reads a token in this step.
NobodyRefreshes ==
    \A s \in Requests : req'[s].pc \in Refreshing =>
      req[s].pc \in Refreshing /\ req'[s].tok = req[s].tok

LEMMA RotatorsShrink ==
  ASSUME NobodyRefreshes, NEW t \in TokenIds
  PROVE  Cardinality(Rotators(t)') \in Nat /\ Cardinality(Rotators(t)') <= Cardinality(Rotators(t))
<1>1. Rotators(t)' \subseteq Rotators(t)
  BY DEF Rotators, NobodyRefreshes
<1> QED BY <1>1, RotatorsFinite, FS_Subset, FS_CardinalityType

LEMMA RotatorsLeave ==
  ASSUME NobodyRefreshes, NEW t \in TokenIds, NEW q \in Requests, req[q].pc \in Refreshing,
         req[q].tok = t, req'[q].pc \notin Refreshing
  PROVE  Cardinality(Rotators(t)') \in Nat /\ Cardinality(Rotators(t)') + 1 <= Cardinality(Rotators(t))
<1>1. q \in Rotators(t) /\ Rotators(t)' \subseteq Rotators(t) \ {q}
  BY DEF Rotators, NobodyRefreshes
<1>2. /\ IsFiniteSet(Rotators(t) \ {q})
      /\ Cardinality(Rotators(t) \ {q}) = Cardinality(Rotators(t)) - 1
  BY <1>1, RotatorsFinite, FS_RemoveElement
<1>3. /\ Cardinality(Rotators(t)') \in Nat /\ Cardinality(Rotators(t)) \in Nat
      /\ Cardinality(Rotators(t)') <= Cardinality(Rotators(t) \ {q})
  BY <1>1, <1>2, RotatorsFinite, FS_Subset, FS_CardinalityType
<1> QED BY <1>2, <1>3

\* Tokens are revoked, not read, exchanged or issued.
LEMMA RefreshesFrame ==
  ASSUME Shape, Shape', Refreshes, NobodyRefreshes, Revokes, UNCHANGED <<rotated, tokenRivals>>
  PROVE  Refreshes'
<1>1. ASSUME NEW t \in TokenIds
      PROVE  RefreshOK(t)'
  <2>1. RefreshOK(t) /\ Cardinality(Rotators(t)) \in Nat
    BY RotatorsFinite DEF Refreshes
  <2>2. Cardinality(Rotators(t)') \in Nat /\ Cardinality(Rotators(t)') <= Cardinality(Rotators(t))
    BY RotatorsShrink
  <2>3. rotated[t] \in Nat /\ tokenRivals[t] \in Nat
    BY DEF Shape, TypeOK
  <2>4. token'[t].phone = token[t].phone /\ (token[t].revoked => token'[t].revoked)
    BY DEF Revokes
  <2> QED BY <2>1, <2>2, <2>3, <2>4 DEF RefreshOK
<1> QED BY <1>1 DEF Refreshes

LEMMA RefreshesMove ==
  ASSUME Shape, Shape', Refreshes, NEW q \in Requests, Alone(q),
         req'[q].pc \in Refreshing => req[q].pc \in Refreshing /\ req'[q].tok = req[q].tok,
         Revokes, UNCHANGED <<rotated, tokenRivals>>
  PROVE  Refreshes'
<1>1. NobodyRefreshes
  BY DEF Alone, NobodyRefreshes
<1> QED BY <1>1, RefreshesFrame

LEMMA TokensStay ==
  ASSUME Shape, UNCHANGED token
  PROVE  Revokes
  BY DEF Shape, TypeOK, Revokes

LEMMA RefreshesRead ==
  ASSUME Shape, Shape', Refreshes, NEW q \in Requests, NEW t \in TokenIds, RefreshTokens(q, t)
  PROVE  Refreshes'
<1>0. token' = token /\ rotated' = rotated /\ ~token[t].revoked
  BY DEF RefreshTokens, tables
<1>1. Alone(q) /\ req[q].pc \notin Refreshing /\ req'[q].pc \in Refreshing /\ req'[q].tok = t
  BY ShapeTyped, RefreshTokensUpdate DEF Refreshing
<1>2. ASSUME NEW i \in TokenIds
      PROVE  RefreshOK(i)'
  <2>1. RefreshOK(i) /\ Cardinality(Rotators(i)) \in Nat
    BY RotatorsFinite DEF Refreshes
  <2>3. rotated[i] \in Nat /\ tokenRivals[i] \in Nat
    BY DEF Shape, TypeOK
  <2>4. CASE i = t
    <3>1. q \notin Rotators(i) /\ Rotators(i)' = Rotators(i) \cup {q}
      BY <1>1, <2>4 DEF Rotators, Alone
    <3>2. Cardinality(Rotators(i)') = Cardinality(Rotators(i)) + 1
      BY <3>1, RotatorsFinite, FS_AddElement
    <3>3. rotated[i] = 0
      BY <1>0, <2>1, <2>4 DEF RefreshOK
    <3>4. CASE \E s \in Requests : req[s].pc \in {"owner", "rotate"} /\ req[s].tok = t
      <4>1. tokenRivals'[i] = tokenRivals[i] + 1
        BY <2>4, <3>4 DEF RefreshTokens, Shape, TypeOK
      <4> QED BY <1>0, <2>1, <2>3, <3>2, <3>3, <4>1 DEF RefreshOK
    <3>5. CASE ~\E s \in Requests : req[s].pc \in {"owner", "rotate"} /\ req[s].tok = t
      <4>1. tokenRivals'[i] = tokenRivals[i] /\ Rotators(i) = {}
        BY <2>4, <3>5 DEF RefreshTokens, Rotators, Refreshing
      <4>2. Cardinality(Rotators(i)') = 1
        BY <3>2, <4>1, FS_EmptySet
      <4> QED BY <1>0, <2>1, <2>3, <3>3, <4>1, <4>2 DEF RefreshOK
    <3> QED BY <3>4, <3>5
  <2>5. CASE i # t
    <3>1. Rotators(i)' = Rotators(i)
      BY <1>1, <2>5 DEF Rotators, Alone
    <3>2. tokenRivals'[i] = tokenRivals[i]
      BY <2>5 DEF RefreshTokens, Shape, TypeOK
    <3> QED BY <1>0, <2>1, <3>1, <3>2 DEF RefreshOK
  <2> QED BY <2>4, <2>5
<1> QED BY <1>2 DEF Refreshes

LEMMA RefreshesRotate ==
  ASSUME Shape, Shape', Refreshes, NEW q \in Requests, Rotate(q)
  PROVE  Refreshes'
<1>1. /\ Alone(q) /\ req[q].pc \in Refreshing /\ req'[q].pc \notin Refreshing
      /\ tokenRivals' = tokenRivals /\ rotated' = [rotated EXCEPT ![req[q].tok] = @ + 1]
  <2>1. Goto(q, "issue") /\ "issue" \in PCs /\ TypeOK
    BY DEF Rotate, PCs, Shape
  <2>2. Alone(q) /\ req'[q].pc = "issue"
    BY <2>1, GotoUpdate
  <2> QED BY <2>2 DEF Rotate, Refreshing
<1>2. NobodyRefreshes
  BY <1>1 DEF Alone, NobodyRefreshes
<1>3. req[q].tok \in TokenIds /\ Revokes /\ token'[req[q].tok].revoked
  BY RotateRow
<1>4. token[req[q].tok].phone # NoPhone
  <2>1. LocalsOK(q)
    BY DEF Shape
  <2> QED BY <1>1, <2>1, NullAssumption DEF LocalsOK, Refreshing
<1>5. ASSUME NEW i \in TokenIds
      PROVE  RefreshOK(i)'
  <2>1. RefreshOK(i) /\ Cardinality(Rotators(i)) \in Nat
    BY RotatorsFinite DEF Refreshes
  <2>2. Cardinality(Rotators(i)') \in Nat /\ Cardinality(Rotators(i)') <= Cardinality(Rotators(i))
    BY <1>2, RotatorsShrink
  <2>3. rotated[i] \in Nat /\ tokenRivals[i] \in Nat
    BY DEF Shape, TypeOK
  <2>4. i = req[q].tok => Cardinality(Rotators(i)') + 1 <= Cardinality(Rotators(i))
    BY <1>1, <1>2, RotatorsLeave
  <2>5. rotated'[i] = IF i = req[q].tok THEN rotated[i] + 1 ELSE rotated[i]
    BY <1>1, <1>3 DEF Shape, TypeOK
  <2>6. token'[i].phone = token[i].phone /\ (token[i].revoked => token'[i].revoked)
    BY <1>3 DEF Revokes
  <2> QED BY <1>1, <1>3, <1>4, <2>1, <2>2, <2>3, <2>4, <2>5, <2>6 DEF RefreshOK
<1> QED BY <1>5 DEF Refreshes

LEMMA RefreshesIssue ==
  ASSUME Shape, Shape', Refreshes, NEW q \in Requests, NEW t \in TokenIds, IssueTokenPair(q, t)
  PROVE  Refreshes'
<1>1. Alone(q) /\ req'[q].pc \notin Refreshing /\ rotated' = rotated /\ tokenRivals' = tokenRivals
  BY ShapeTyped, DoneUpdate DEF IssueTokenPair, Finish, Refreshing
<1>2. NobodyRefreshes
  BY <1>1 DEF Alone, NobodyRefreshes
<1>3. ASSUME NEW i \in TokenIds
      PROVE  RefreshOK(i)'
  <2>1. RefreshOK(i) /\ Cardinality(Rotators(i)) \in Nat
    BY RotatorsFinite DEF Refreshes
  <2>2. Cardinality(Rotators(i)') \in Nat /\ Cardinality(Rotators(i)') <= Cardinality(Rotators(i))
    BY <1>2, RotatorsShrink
  <2>3. rotated[i] \in Nat /\ tokenRivals[i] \in Nat
    BY DEF Shape, TypeOK
  <2>4. CASE i = t
    <3>1. rotated[i] = 0
      BY <2>1, <2>4, IssueTokenPairRow DEF RefreshOK
    <3> QED BY <1>1, <2>1, <2>2, <2>3, <3>1 DEF RefreshOK
  <2>5. CASE i # t
    <3>1. token'[i] = token[i]
      BY <2>5, IssueTokenPairRow
    <3> QED BY <1>1, <2>1, <2>2, <2>3, <3>1 DEF RefreshOK
  <2> QED BY <2>4, <2>5
<1> QED BY <1>3 DEF Refreshes

LEMMA RefreshesInit == Init => Refreshes
<1> SUFFICES ASSUME Init, NEW t \in TokenIds PROVE RefreshOK(t)
  BY DEF Refreshes
<1>1. Rotators(t) = {}
  BY IdleFields DEF Init, Rotators, Refreshing
<1>2. rotated[t] = 0 /\ tokenRivals[t] = 0
  BY DEF Init
<1> QED BY <1>1, <1>2, FS_EmptySet DEF RefreshOK

LEMMA RefreshesNext ==
  ASSUME Shape, Refreshes, [Next]_vars
  PROVE  Refreshes'
<1> USE ShapeTyped, ShapeNext
<1>0. Refreshing = {"owner", "rotate"}
  BY DEF Refreshing
<1>1. ASSUME NEW q \in Requests, NEW p \in Phones, NEW purpose \in Purposes,
             RequestOtp(q, p, purpose)
      PROVE  Refreshes'
  <2>1. UNCHANGED <<token, rotated, tokenRivals>>
    BY <1>1 DEF RequestOtp, tables, history
  <2> QED BY <1>0, <1>1, <2>1, TokensStay, RequestOtpUpdate, RefreshesMove
<1>2. ASSUME NEW q \in Requests, NEW p \in Phones, NEW purpose \in Purposes,
             BeginVerify(q, p, purpose)
      PROVE  Refreshes'
  <2>1. UNCHANGED <<token, rotated, tokenRivals>>
    BY <1>2 DEF BeginVerify, tables, history
  <2> QED BY <1>0, <1>2, <2>1, TokensStay, BeginVerifyUpdate, RefreshesMove
<1>3. ASSUME NEW q \in Requests, NEW p \in Phones,
             LoginWithPassword(q, p) \/ RequestAccountDeletion(q, p)
      PROVE  Refreshes'
  <2>1. UNCHANGED <<token, rotated, tokenRivals>>
    BY <1>3 DEF LoginWithPassword, RequestAccountDeletion, tables, history
  <2>2. PICK pc \in PCs : pc \notin Refreshing /\ Begin(q, pc, p)
    BY <1>0, <1>3 DEF LoginWithPassword, RequestAccountDeletion, PCs
  <2> QED BY <2>1, <2>2, TokensStay, BeginUpdate, RefreshesMove
<1>5. ASSUME NEW q \in Requests, NEW p \in Phones, NEW e \in Emails \cup {NoEmail},
             UpdateProfile(q, p, e)
      PROVE  Refreshes'
  <2>1. UNCHANGED <<token, rotated, tokenRivals>>
    BY <1>5 DEF UpdateProfile, tables, history
  <2> QED BY <1>0, <1>5, <2>1, TokensStay, UpdateProfileUpdate, RefreshesMove
<1>6. ASSUME NEW q \in Requests, NEW t \in TokenIds, IssueTokenPair(q, t)
      PROVE  Refreshes'
  BY <1>6, RefreshesIssue
<1>7. ASSUME NEW q \in Requests, NEW t \in TokenIds, RefreshTokens(q, t)
      PROVE  Refreshes'
  BY <1>7, RefreshesRead
<1>8. ASSUME NEW q \in Requests, req' = [req EXCEPT ![q] = Done], Revokes,
             UNCHANGED <<rotated, tokenRivals>>
      PROVE  Refreshes'
  BY <1>0, <1>8, DoneUpdate, RefreshesMove
<1>9. ASSUME NEW q \in Requests, NEW right \in BOOLEAN, VerifyOtp(q, right)
      PROVE  Refreshes'
  <2>0. UNCHANGED <<token, rotated, tokenRivals>>
    BY <1>9 DEF VerifyOtp, tables
  <2>1. CASE Finish(q)
    BY <1>8, <2>0, <2>1, TokensStay DEF Finish
  <2>2. ASSUME NEW o \in OtpIds, ReadCode(q, o, right)
        PROVE  Refreshes'
    <3>1. Alone(q) /\ req'[q].pc \notin Refreshing
      BY <2>2, ReadCodeUpdate DEF Holding, Refreshing
    <3> QED BY <2>0, <3>1, TokensStay, RefreshesMove
  <2> QED BY <1>9, <2>1, <2>2 DEF VerifyOtp
<1>10. ASSUME NEW q \in Requests, NEW pc \in PCs, Goto(q, pc),
              pc \in Refreshing => req[q].pc \in Refreshing, Revokes,
              UNCHANGED <<rotated, tokenRivals>>
       PROVE  Refreshes'
  BY <1>10, GotoUpdate, RefreshesMove
<1>11. ASSUME NEW q \in Requests, CheckCooldown(q)
       PROVE  Refreshes'
  <2>0. UNCHANGED <<token, rotated, tokenRivals>> /\ "send" \in PCs /\ "send" \notin Refreshing
    BY <1>0, <1>11 DEF CheckCooldown, tables, history, PCs
  <2> QED BY <1>8, <1>10, <1>11, <2>0, TokensStay DEF CheckCooldown
<1>12. ASSUME NEW q \in Requests, ConsumeOtp(q)
       PROVE  Refreshes'
  <2>0. UNCHANGED <<token, rotated, tokenRivals>>
    BY <1>12 DEF ConsumeOtp
  <2> QED BY <1>0, <1>12, <2>0, ConsumeOtpUpdate, TokensStay, RefreshesMove
<1>13. ASSUME NEW q \in Requests, CheckNew(q) \/ CreateUser(q) \/ ReadOwner(q)
       PROVE  Refreshes'
  <2>0. UNCHANGED <<token, rotated, tokenRivals>>
    BY <1>13 DEF CheckNew, CreateUser, ReadOwner, tables
  <2>1. \/ req' = [req EXCEPT ![q] = Done]
        \/ \E pc \in PCs : Goto(q, pc) /\ (pc \in Refreshing => req[q].pc \in Refreshing)
    BY <1>0, <1>13 DEF CheckNew, CreateUser, ReadOwner, PCs, Finish
  <2> QED BY <1>8, <1>10, <2>0, <2>1, TokensStay
<1>14. ASSUME NEW q \in Requests, CreateWallet(q) \/ CreateLoyalty(q)
                                    \/ SetPassword(q) \/ DeleteAccount(q)
       PROVE  Refreshes'
  <2>0. UNCHANGED <<token, rotated, tokenRivals>>
    BY <1>14 DEF CreateWallet, CreateLoyalty, SetPassword, DeleteAccount, tables, history
  <2>1. \E pc \in PCs : Goto(q, pc) /\ pc \notin Refreshing
    BY <1>0, <1>14 DEF CreateWallet, CreateLoyalty, SetPassword, DeleteAccount, PCs
  <2> QED BY <1>10, <2>0, <2>1, TokensStay
<1>15. ASSUME NEW q \in Requests, WrongCode(q) \/ WriteProfile(q) \/ Fail(q)
       PROVE  Refreshes'
  <2>0. UNCHANGED <<token, rotated, tokenRivals>>
    BY <1>15 DEF WrongCode, WriteProfile, Fail, tables
  <2>1. req' = [req EXCEPT ![q] = Done]
    BY <1>15 DEF WrongCode, WriteProfile, Fail, Finish
  <2> QED BY <1>8, <2>0, <2>1, TokensStay
<1>16. ASSUME NEW q \in Requests, NEW o \in OtpIds, CreateOtp(q, o)
       PROVE  Refreshes'
  <2>0. UNCHANGED <<token, rotated, tokenRivals>> /\ req' = [req EXCEPT ![q] = Done]
    BY <1>16 DEF CreateOtp, history
  <2> QED BY <1>8, <2>0, TokensStay
<1>17. ASSUME NEW q \in Requests, RevokeAll(q)
       PROVE  Refreshes'
  <2>0. UNCHANGED <<rotated, tokenRivals>> /\ req' = [req EXCEPT ![q] = Done]
    BY <1>17 DEF RevokeAll
  <2> QED BY <1>8, <1>17, <2>0, RevokeAllRows
<1>18. ASSUME NEW q \in Requests, Rotate(q)
       PROVE  Refreshes'
  BY <1>18, RefreshesRotate
<1>19. ASSUME Revokes, UNCHANGED <<rotated, tokenRivals, req>> PROVE Refreshes'
  <2>1. NobodyRefreshes
    BY <1>19 DEF NobodyRefreshes
  <2> QED BY <1>19, <2>1, RefreshesFrame
<1>20. ASSUME NEW t \in TokenIds, Logout(t) \/ RevokeSession(t)
       PROVE  Refreshes'
  <2>1. token' = [token EXCEPT ![t].revoked = TRUE] /\ UNCHANGED <<rotated, tokenRivals, req>>
    BY <1>20 DEF Logout, RevokeSession, history
  <2> QED BY <1>19, <2>1, RevokeOne
<1>21. ASSUME Tick \/ UNCHANGED vars PROVE Refreshes'
  <2>1. UNCHANGED <<token, rotated, tokenRivals, req>>
    BY <1>21 DEF Tick, vars, tables, history
  <2> QED BY <1>19, <2>1, TokensStay
<1> QED BY <1>1, <1>2, <1>3, <1>5, <1>6, <1>7, <1>9, <1>11, <1>12, <1>13,
           <1>14, <1>15, <1>16, <1>17, <1>18, <1>20, <1>21 DEF Next

---------------------------------------------------------------------------
(* Survivors: sessions that go back to credentials called off *)

ExcusesStay == \A p \in Phones : Excused(p) => Excused(p)'

LEMMA ExcusesMove ==
  ASSUME NEW q \in Requests, Alone(q), broken \subseteq broken',
         req[q].pc = "revoke" => req[q].phone \in broken'
  PROVE  ExcusesStay
<1> SUFFICES ASSUME NEW p \in Phones, Excused(p) PROVE Excused(p)'
  BY DEF ExcusesStay
<1>1. CASE p \in broken
  BY <1>1 DEF Excused
<1>2. ASSUME NEW s \in Requests, req[s].pc = "revoke", req[s].phone = p
      PROVE  Excused(p)'
  <2>1. CASE s = q
    BY <1>2, <2>1 DEF Excused
  <2>2. CASE s # q
    <3>1. req'[s] = req[s]
      BY <2>2 DEF Alone
    <3> QED BY <1>2, <3>1 DEF Excused
  <2> QED BY <2>1, <2>2
<1> QED BY <1>1, <1>2 DEF Excused

\* A handler that stays on its way to the tokens stays in order.
LEMMA HandlerStays ==
  ASSUME Shape, Survivors, NEW s \in Requests, ExcusesStay, UNCHANGED epoch,
         escaped \subseteq escaped',
         req'[s].pc \in Issuing =>
           /\ req[s].pc \in Issuing /\ req'[s].phone = req[s].phone
           /\ req'[s].tok = req[s].tok /\ req'[s].epoch = req[s].epoch
           /\ s \in overtaken => s \in overtaken'
  PROVE  HandlerOK(s)'
<1> SUFFICES ASSUME req'[s].pc \in Issuing, req'[s].epoch < epoch'[req'[s].phone]
             PROVE  s \in overtaken' \/ req'[s].tok \in escaped' \/ Excused(req[s].phone)'
  BY DEF HandlerOK, Excused
<1>1. req[s].phone \in Phones
  BY DEF Shape, LocalsOK, Issuing, Refreshing
<1>2. s \in overtaken \/ req[s].tok \in escaped \/ Excused(req[s].phone)
  BY DEF Survivors, HandlerOK
<1>3. Excused(req[s].phone) => Excused(req[s].phone)'
  <2>1. PICK p \in Phones : p = req[s].phone
    BY <1>1
  <2>2. Excused(p) => Excused(p)'
    BY DEF ExcusesStay
  <2> QED BY <2>1, <2>2 DEF Excused
<1> QED BY <1>2, <1>3

\* A token of an account, open since credentials called off, is accounted for.
SessionOK(t, p) ==
    token[t].phone = p /\ ~token[t].revoked /\ born[t] < epoch[p] => t \in escaped \/ Excused(p)

LEMMA SessionsAccounted ==
  ASSUME NoSurvivors, NEW t \in TokenIds, NEW p \in Phones
  PROVE  SessionOK(t, p)
  BY NullAssumption DEF NoSurvivors, SessionOK, Excused

LEMMA SessionsAccountedNext ==
  ASSUME Shape', \A t \in TokenIds, p \in Phones : SessionOK(t, p)'
  PROVE  NoSurvivors'
<1> SUFFICES ASSUME NEW t \in TokenIds, token'[t].phone # NoPhone, ~token'[t].revoked,
                    born'[t] < epoch'[token'[t].phone]
             PROVE  \/ t \in escaped' \/ token'[t].phone \in broken'
                    \/ \E q \in Requests : req'[q].pc = "revoke" /\ req'[q].phone = token'[t].phone
  BY DEF NoSurvivors
<1>1. PICK p \in Phones : p = token'[t].phone
  BY DEF Shape, TypeOK, TokenRows
<1>2. SessionOK(t, p)'
  OBVIOUS
<1> QED BY <1>1, <1>2 DEF SessionOK, Excused

\* A step of q that calls no credentials off and issues no token.
LEMMA SurvivorsMove ==
  ASSUME Shape, Shape', Survivors, NEW q \in Requests, Alone(q), ExcusesStay, Revokes,
         UNCHANGED <<epoch, born>>, escaped \subseteq escaped',
         overtaken \subseteq overtaken' \cup {q}, HandlerOK(q)'
  PROVE  Survivors'
<1>1. ASSUME NEW s \in Requests
      PROVE  HandlerOK(s)'
  <2>1. CASE s = q
    BY <2>1
  <2>2. CASE s # q
    BY <2>2, HandlerStays DEF Alone
  <2> QED BY <2>1, <2>2
<1>2. ASSUME NEW t \in TokenIds, NEW p \in Phones
      PROVE  SessionOK(t, p)'
  <2>1. SessionOK(t, p) /\ (Excused(p) => Excused(p)')
    BY SessionsAccounted DEF Survivors, ExcusesStay
  <2>2. token'[t].phone = token[t].phone /\ (token[t].revoked => token'[t].revoked)
    BY DEF Revokes
  <2> QED BY <2>1, <2>2 DEF SessionOK
<1>3. NoSurvivors'
  BY <1>2, SessionsAccountedNext
<1> QED BY <1>1, <1>3 DEF Survivors

\* A handler with the credentials of the day.
LEMMA FreshHandler ==
  ASSUME Shape, NEW q \in Requests, NEW p \in Phones, req'[q].phone = p, req'[q].epoch = epoch[p],
         UNCHANGED epoch
  PROVE  HandlerOK(q)'
<1>1. epoch[p] \in Nat
  BY DEF Shape, TypeOK
<1> QED BY <1>1 DEF HandlerOK

\* A handler that issues no tokens from where it is.
LEMMA OtherHandler ==
  ASSUME NEW q \in Requests, req'[q].pc \notin Issuing
  PROVE  HandlerOK(q)'
  BY DEF HandlerOK

LEMMA SurvivorsIssue ==
  ASSUME Shape, Shape', Survivors, NEW q \in Requests, NEW t \in TokenIds, IssueTokenPair(q, t)
  PROVE  Survivors'
<1>1. /\ req[q].pc = "issue" /\ req' = [req EXCEPT ![q] = Done] /\ overtaken' = overtaken \ {q}
      /\ epoch' = epoch /\ broken' = broken /\ born' = [born EXCEPT ![t] = req[q].epoch]
      /\ escaped' = IF q \in overtaken \/ req[q].tok \in escaped THEN escaped \cup {t}
                                                                 ELSE escaped
  BY DEF IssueTokenPair, Finish
<1>2. Alone(q) /\ HandlerOK(q)'
  BY <1>1, ShapeTyped, DoneUpdate DEF HandlerOK, Issuing, Refreshing
<1>3. ExcusesStay
  BY <1>1, <1>2, ExcusesMove
<1>4. ASSUME NEW s \in Requests
      PROVE  HandlerOK(s)'
  <2>1. CASE s = q
    BY <1>2, <2>1
  <2>2. CASE s # q
    BY <1>1, <1>2, <1>3, <2>2, HandlerStays DEF Alone
  <2> QED BY <2>1, <2>2
<1>5. ASSUME NEW i \in TokenIds, NEW p \in Phones
      PROVE  SessionOK(i, p)'
  <2>1. SessionOK(i, p) /\ (Excused(p) => Excused(p)')
    BY <1>3, SessionsAccounted DEF Survivors, ExcusesStay
  <2>2. CASE i = t
    <3>1. token'[t].phone = req[q].phone /\ born'[t] = req[q].epoch
      BY <1>1, IssueTokenPairRow DEF Shape, TypeOK
    <3>2. HandlerOK(q) /\ req[q].pc \in Issuing
      BY <1>1 DEF Survivors, Issuing
    <3>3. p = req[q].phone /\ req[q].epoch < epoch[p] =>
             q \in overtaken \/ req[q].tok \in escaped \/ Excused(p)
      BY <3>2 DEF HandlerOK
    <3> QED BY <1>1, <2>1, <2>2, <3>1, <3>3 DEF SessionOK
  <2>3. CASE i # t
    <3>1. token'[i] = token[i] /\ born'[i] = born[i]
      BY <1>1, <2>3, IssueTokenPairRow DEF Shape, TypeOK
    <3> QED BY <1>1, <2>1, <3>1 DEF SessionOK
  <2> QED BY <2>2, <2>3
<1>6. NoSurvivors'
  BY <1>5, SessionsAccountedNext
<1> QED BY <1>4, <1>6 DEF Survivors

\* The credentials of an account are called off (the first write of resetPassword
\* and of requestAccountDeletion): its sessions are about to be revoked.
LEMMA SurvivorsCallOff ==
  ASSUME Shape, Shape', Survivors, NEW q \in Requests, Goto(q, "revoke"), req[q].phone \in Phones,
         req[q].pc \in {"password", "delete"},
         epoch' = [epoch EXCEPT ![req[q].phone] = @ + 1],
         overtaken \subseteq overtaken' \cup {q}, UNCHANGED <<token, born, escaped, broken>>
  PROVE  Survivors'
<1>1. /\ Alone(q) /\ req'[q].pc = "revoke" /\ req'[q].phone = req[q].phone
  <2>1. "revoke" \in PCs /\ TypeOK
    BY DEF PCs, Shape
  <2> QED BY <2>1, GotoUpdate
<1>2. ExcusesStay
  BY <1>1, ExcusesMove
<1>3. PICK c \in Phones : c = req[q].phone
  OBVIOUS
<1>4. Excused(c)' /\ c = req[q].phone
  BY <1>1, <1>3 DEF Excused
<1>5. \A p \in Phones \ {c} : epoch'[p] = epoch[p]
  BY <1>3 DEF Shape, TypeOK
<1>6. ASSUME NEW s \in Requests
      PROVE  HandlerOK(s)'
  <2>1. CASE s = q
    BY <1>1, <2>1 DEF HandlerOK, Issuing, Refreshing
  <2>2. CASE s # q
    <3>1. req'[s] = req[s]
      BY <1>1, <2>2 DEF Alone
    <3>2. CASE req[s].phone = c
      BY <1>4, <3>1, <3>2 DEF HandlerOK
    <3>3. CASE req[s].phone # c /\ req[s].pc \in Issuing
      <4>1. PICK p \in Phones \ {c} : p = req[s].phone
        BY <3>3 DEF Shape, LocalsOK, Issuing, Refreshing
      <4>2. epoch'[p] = epoch[p] /\ (Excused(p) => Excused(p)')
        BY <1>2, <1>5 DEF ExcusesStay
      <4>3. req[s].epoch < epoch[p] => s \in overtaken \/ req[s].tok \in escaped \/ Excused(p)
        BY <3>3, <4>1 DEF Survivors, HandlerOK
      <4>4. req'[s].epoch < epoch'[p] => s \in overtaken' \/ req'[s].tok \in escaped' \/ Excused(p)'
        BY <2>2, <3>1, <4>2, <4>3
      <4>5. req'[s].phone = p
        BY <3>1, <4>1
      <4> QED BY <4>4, <4>5 DEF HandlerOK
    <3>4. CASE req[s].pc \notin Issuing
      BY <3>1, <3>4 DEF HandlerOK
    <3> QED BY <3>2, <3>3, <3>4
  <2> QED BY <2>1, <2>2
<1>7. ASSUME NEW t \in TokenIds, NEW p \in Phones
      PROVE  SessionOK(t, p)'
  <2>1. SessionOK(t, p) /\ (Excused(p) => Excused(p)')
    BY <1>2, SessionsAccounted DEF Survivors, ExcusesStay
  <2>2. CASE p = c
    BY <1>4, <2>2 DEF SessionOK
  <2>3. CASE p # c
    BY <1>5, <2>1, <2>3 DEF SessionOK
  <2> QED BY <2>2, <2>3
<1>8. NoSurvivors'
  BY <1>7, SessionsAccountedNext
<1> QED BY <1>6, <1>8 DEF Survivors

LEMMA SurvivorsRevoke ==
  ASSUME Shape, Shape', Survivors, NEW q \in Requests, RevokeAll(q)
  PROVE  Survivors'
<1>1. /\ req[q].pc = "revoke" /\ req' = [req EXCEPT ![q] = Done]
      /\ overtaken' = (overtaken \cup {s \in Requests : req[s].phone = req[q].phone}) \ {q}
      /\ UNCHANGED <<epoch, born, escaped, broken>>
  BY DEF RevokeAll
<1>2. Alone(q) /\ HandlerOK(q)'
  BY <1>1, ShapeTyped, DoneUpdate DEF HandlerOK, Issuing, Refreshing
<1>3. ASSUME NEW p \in Phones, p # req[q].phone, Excused(p)
      PROVE  Excused(p)'
  <2>1. CASE p \in broken
    BY <1>1, <2>1 DEF Excused
  <2>2. ASSUME NEW s \in Requests, req[s].pc = "revoke", req[s].phone = p
        PROVE  Excused(p)'
    <3>1. s # q
      BY <1>3, <2>2
    <3>2. req'[s] = req[s]
      BY <1>2, <3>1 DEF Alone
    <3> QED BY <2>2, <3>2 DEF Excused
  <2> QED BY <1>3, <2>1, <2>2 DEF Excused
<1>4. ASSUME NEW s \in Requests
      PROVE  HandlerOK(s)'
  <2>1. CASE s = q
    BY <1>2, <2>1
  <2>2. CASE s # q
    <3>1. req'[s] = req[s]
      BY <1>2, <2>2 DEF Alone
    <3>2. CASE req[s].phone = req[q].phone
      <4>1. s \in overtaken'
        BY <1>1, <2>2, <3>2
      <4> QED BY <4>1 DEF HandlerOK
    <3>3. CASE req[s].phone # req[q].phone /\ req[s].pc \in Issuing
      <4>1. PICK p \in Phones : p = req[s].phone
        BY <3>3 DEF Shape, LocalsOK, Issuing, Refreshing
      <4>2. Excused(p) => Excused(p)'
        BY <1>3, <3>3, <4>1
      <4>3. req[s].epoch < epoch[p] => s \in overtaken \/ req[s].tok \in escaped \/ Excused(p)
        BY <3>3, <4>1 DEF Survivors, HandlerOK
      <4>4. req'[s].epoch < epoch'[p] => s \in overtaken' \/ req'[s].tok \in escaped' \/ Excused(p)'
        BY <1>1, <2>2, <3>1, <4>2, <4>3
      <4>5. req'[s].phone = p
        BY <3>1, <4>1
      <4> QED BY <4>4, <4>5 DEF HandlerOK
    <3>4. CASE req[s].pc \notin Issuing
      BY <3>1, <3>4 DEF HandlerOK
    <3> QED BY <3>2, <3>3, <3>4
  <2> QED BY <2>1, <2>2
<1>5. ASSUME NEW t \in TokenIds, NEW p \in Phones
      PROVE  SessionOK(t, p)'
  <2>1. SessionOK(t, p)
    BY SessionsAccounted DEF Survivors
  <2>2. /\ token'[t].phone = token[t].phone /\ (token[t].revoked => token'[t].revoked)
        /\ token[t].phone = req[q].phone => token'[t].revoked
    BY RevokeAllRows DEF Revokes
  <2>3. CASE p = req[q].phone
    BY <2>2, <2>3 DEF SessionOK
  <2>4. CASE p # req[q].phone
    BY <1>1, <1>3, <2>1, <2>2, <2>4 DEF SessionOK
  <2> QED BY <2>3, <2>4
<1>6. NoSurvivors'
  BY <1>5, SessionsAccountedNext
<1> QED BY <1>4, <1>6 DEF Survivors

LEMMA SurvivorsInit == Init => Survivors
<1> SUFFICES ASSUME Init PROVE Survivors
  OBVIOUS
<1>1. \A q \in Requests : HandlerOK(q)
  BY IdleFields DEF Init, HandlerOK, Issuing, Refreshing
<1>2. Shape
  BY ShapeInit
<1>3. NoSurvivors
  <2> SUFFICES ASSUME NEW t \in TokenIds, token[t].phone # NoPhone
               PROVE  ~(born[t] < epoch[token[t].phone])
    BY DEF NoSurvivors
  <2>1. token[t].phone \in Phones
    BY <1>2 DEF Shape, TypeOK, TokenRows
  <2>2. born[t] = 0 /\ epoch[token[t].phone] = 0
    BY <2>1 DEF Init
  <2> QED BY <2>2
<1> QED BY <1>1, <1>3 DEF Survivors

LEMMA SurvivorsNext ==
  ASSUME Shape, Survivors, [Next]_vars
  PROVE  Survivors'
<1> USE ShapeTyped, ShapeNext
<1> DEFINE Same == UNCHANGED <<token, epoch, born, escaped, broken>>
<1>0. /\ "idle" # "revoke" /\ "recent" \notin Issuing /\ "profile" \notin Issuing
      /\ "delete" \notin Issuing /\ "done" \notin Issuing /\ "send" \notin Issuing
      /\ "password" \notin Issuing /\ "wrong" \notin Issuing
      /\ \A pc \in {"verify", "consume", "exists", "create", "wallet", "loyalty", "issue",
                    "owner", "rotate"} : pc \in Issuing
  BY DEF Issuing, Refreshing
<1>1. ASSUME NEW q \in Requests, Alone(q), req[q].pc # "revoke", Same,
             overtaken \subseteq overtaken' \cup {q}, HandlerOK(q)'
      PROVE  Survivors'
  <2>1. ExcusesStay /\ Revokes
    BY <1>1, ExcusesMove, TokensStay
  <2> QED BY <1>1, <2>1, SurvivorsMove
<1>2. ASSUME NEW q \in Requests, req' = [req EXCEPT ![q] = Done], req[q].pc # "revoke", Same,
             overtaken \subseteq overtaken' \cup {q}
      PROVE  Survivors'
  <2>1. Alone(q) /\ HandlerOK(q)'
    BY <1>0, <1>2, DoneUpdate, OtherHandler
  <2> QED BY <1>1, <1>2, <2>1
<1>3. ASSUME NEW q \in Requests, NEW pc \in PCs, Goto(q, pc), req[q].pc # "revoke", Same,
             overtaken \subseteq overtaken', pc \in Issuing => req[q].pc \in Issuing
      PROVE  Survivors'
  <2>1. /\ Alone(q) /\ req'[q].pc = pc /\ req'[q].phone = req[q].phone
        /\ req'[q].tok = req[q].tok /\ req'[q].epoch = req[q].epoch
    BY <1>3, GotoUpdate
  <2>2. ExcusesStay
    BY <1>3, <2>1, ExcusesMove
  <2>3. HandlerOK(q)'
    BY <1>3, <2>1, <2>2, HandlerStays
  <2> QED BY <1>1, <1>3, <2>1, <2>3
<1>4. ASSUME NEW q \in Requests, NEW p \in Phones, NEW purpose \in Purposes,
             RequestOtp(q, p, purpose)
      PROVE  Survivors'
  <2>1. Same /\ overtaken' = overtaken
    BY <1>4 DEF RequestOtp, tables, history
  <2>2. Alone(q) /\ HandlerOK(q)' /\ req[q].pc # "revoke"
    BY <1>0, <1>4, RequestOtpUpdate, OtherHandler
  <2> QED BY <1>1, <2>1, <2>2
<1>5. ASSUME NEW q \in Requests, NEW p \in Phones, NEW purpose \in Purposes,
             BeginVerify(q, p, purpose)
      PROVE  Survivors'
  <2>1. Same /\ overtaken' = overtaken
    BY <1>5 DEF BeginVerify, tables, history
  <2>2. Alone(q) /\ HandlerOK(q)' /\ req[q].pc # "revoke"
    BY <1>0, <1>5, <2>1, BeginVerifyUpdate, FreshHandler
  <2> QED BY <1>1, <2>1, <2>2
<1>6. ASSUME NEW q \in Requests, NEW p \in Phones,
             LoginWithPassword(q, p) \/ RequestAccountDeletion(q, p)
      PROVE  Survivors'
  <2>1. Same /\ overtaken' = overtaken
    BY <1>6 DEF LoginWithPassword, RequestAccountDeletion, tables, history
  <2>2. PICK pc \in PCs : Begin(q, pc, p)
    BY <1>6 DEF LoginWithPassword, RequestAccountDeletion, PCs
  <2>3. Alone(q) /\ HandlerOK(q)' /\ req[q].pc # "revoke"
    BY <1>0, <2>1, <2>2, BeginUpdate, FreshHandler
  <2> QED BY <1>1, <2>1, <2>3
<1>7. ASSUME NEW q \in Requests, NEW p \in Phones, NEW e \in Emails \cup {NoEmail},
             UpdateProfile(q, p, e)
      PROVE  Survivors'
  <2>1. Same /\ overtaken' = overtaken
    BY <1>7 DEF UpdateProfile, tables, history
  <2>2. Alone(q) /\ HandlerOK(q)' /\ req[q].pc # "revoke"
    BY <1>0, <1>7, UpdateProfileUpdate, OtherHandler
  <2> QED BY <1>1, <2>1, <2>2
<1>8. ASSUME NEW q \in Requests, NEW t \in TokenIds, IssueTokenPair(q, t)
      PROVE  Survivors'
  BY <1>8, SurvivorsIssue
<1>9. ASSUME NEW q \in Requests, NEW t \in TokenIds, RefreshTokens(q, t)
      PROVE  Survivors'
  <2>1. Same /\ overtaken' = overtaken /\ ~token[t].revoked
    BY <1>9 DEF RefreshTokens, tables
  <2>2. /\ Alone(q) /\ req[q].pc # "revoke" /\ token[t].phone \in Phones
        /\ req'[q].phone = token[t].phone /\ req'[q].tok = t /\ req'[q].epoch = born[t]
    BY <1>9, RefreshTokensUpdate
  <2>3. PICK p \in Phones : p = token[t].phone
    BY <2>2
  <2>4. SessionOK(t, p) /\ (Excused(p) => Excused(p)')
    BY <2>1, <2>2, ExcusesMove, SessionsAccounted DEF Survivors, ExcusesStay
  <2>5. born[t] < epoch'[p] => t \in escaped' \/ Excused(p)'
    BY <2>1, <2>3, <2>4 DEF SessionOK
  <2>6. req'[q].phone = p /\ req'[q].tok = t /\ req'[q].epoch = born[t]
    BY <2>2, <2>3
  <2>7. HandlerOK(q)'
    BY <2>5, <2>6 DEF HandlerOK
  <2> QED BY <1>1, <2>1, <2>2, <2>7
<1>10. ASSUME NEW q \in Requests, NEW o \in OtpIds, CreateOtp(q, o)
       PROVE  Survivors'
  <2>1. /\ Same /\ overtaken' = overtaken /\ req' = [req EXCEPT ![q] = Done]
        /\ req[q].pc # "revoke"
    BY <1>10 DEF CreateOtp, history
  <2> QED BY <1>2, <2>1
<1>11. ASSUME NEW q \in Requests, NEW right \in BOOLEAN, VerifyOtp(q, right)
       PROVE  Survivors'
  <2>0. Same /\ req[q].pc = "verify"
    BY <1>11 DEF VerifyOtp, tables
  <2>1. CASE Finish(q)
    BY <1>2, <2>0, <2>1 DEF Finish
  <2>2. ASSUME NEW o \in OtpIds, ReadCode(q, o, right)
        PROVE  Survivors'
    <3>1. /\ Alone(q) /\ req'[q].phone = req[q].phone /\ req'[q].tok = req[q].tok
          /\ req'[q].epoch = req[q].epoch /\ overtaken' = overtaken
      BY <2>2, ReadCodeUpdate DEF ReadCode
    <3>2. ExcusesStay
      BY <2>0, <3>1, ExcusesMove
    <3>3. HandlerOK(q)'
      BY <1>0, <2>0, <3>1, <3>2, HandlerStays
    <3> QED BY <1>1, <2>0, <3>1, <3>3
  <2> QED BY <1>11, <2>1, <2>2 DEF VerifyOtp
<1>12. ASSUME NEW q \in Requests, CheckCooldown(q)
       PROVE  Survivors'
  <2>0. Same /\ overtaken' = overtaken /\ req[q].pc = "recent" /\ "send" \in PCs
    BY <1>12 DEF CheckCooldown, tables, history, PCs
  <2> QED BY <1>0, <1>2, <1>3, <1>12, <2>0 DEF CheckCooldown
<1>13. ASSUME NEW q \in Requests, ConsumeOtp(q)
       PROVE  Survivors'
  <2>0. Same /\ overtaken' = overtaken
    BY <1>13 DEF ConsumeOtp
  <2>1. /\ Alone(q) /\ req[q].pc = "consume" /\ req'[q].phone = req[q].phone
        /\ req'[q].tok = req[q].tok /\ req'[q].epoch = req[q].epoch
    BY <1>13, ConsumeOtpUpdate
  <2>2. ExcusesStay
    BY <2>0, <2>1, ExcusesMove
  <2>3. HandlerOK(q)'
    BY <1>0, <2>0, <2>1, <2>2, HandlerStays
  <2> QED BY <1>1, <2>0, <2>1, <2>3
<1>14. ASSUME NEW q \in Requests, CheckNew(q) \/ CreateUser(q) \/ ReadOwner(q)
       PROVE  Survivors'
  <2>0. Same /\ req[q].pc \in {"exists", "create", "owner"}
    BY <1>14 DEF CheckNew, CreateUser, ReadOwner, tables
  <2>1. \/ Finish(q)
        \/ overtaken' = overtaken /\ \E pc \in PCs : Goto(q, pc)
    BY <1>14 DEF CheckNew, CreateUser, ReadOwner, PCs
  <2> QED BY <1>0, <1>2, <1>3, <2>0, <2>1 DEF Finish
<1>15. ASSUME NEW q \in Requests, CreateWallet(q) \/ CreateLoyalty(q)
       PROVE  Survivors'
  <2>0. Same /\ req[q].pc \in {"wallet", "loyalty"} /\ overtaken' = overtaken
    BY <1>15 DEF CreateWallet, CreateLoyalty, history
  <2>1. \E pc \in PCs : Goto(q, pc)
    BY <1>15 DEF CreateWallet, CreateLoyalty, PCs
  <2> QED BY <1>0, <1>3, <2>0, <2>1
<1>16. ASSUME NEW q \in Requests, WrongCode(q) \/ WriteProfile(q)
       PROVE  Survivors'
  <2>0. Same /\ req[q].pc \in {"wrong", "profile"} /\ Finish(q)
    BY <1>16 DEF WrongCode, WriteProfile
  <2> QED BY <1>2, <2>0 DEF Finish
<1>17. ASSUME NEW q \in Requests, Rotate(q)
       PROVE  Survivors'
  <2>0. /\ UNCHANGED <<epoch, born, escaped, broken, overtaken>> /\ req[q].pc = "rotate"
        /\ Goto(q, "issue") /\ "issue" \in PCs
    BY <1>17 DEF Rotate, PCs
  <2>1. /\ Alone(q) /\ req'[q].pc = "issue" /\ req'[q].phone = req[q].phone
        /\ req'[q].tok = req[q].tok /\ req'[q].epoch = req[q].epoch
    BY <2>0, GotoUpdate
  <2>2. ExcusesStay
    BY <2>0, <2>1, ExcusesMove
  <2>3. HandlerOK(q)'
    BY <1>0, <2>0, <2>1, <2>2, HandlerStays
  <2> QED BY <1>17, <2>0, <2>1, <2>2, <2>3, RotateRow, SurvivorsMove
<1>18. ASSUME NEW q \in Requests, SetPassword(q) \/ DeleteAccount(q)
       PROVE  Survivors'
  <2>1. /\ Goto(q, "revoke") /\ req[q].pc \in {"password", "delete"}
        /\ epoch' = [epoch EXCEPT ![req[q].phone] = @ + 1]
        /\ overtaken \subseteq overtaken' \cup {q} /\ UNCHANGED <<token, born, escaped, broken>>
    BY <1>18 DEF SetPassword, DeleteAccount, tables
  <2>2. req[q].phone \in Phones
    BY <2>1 DEF Shape, LocalsOK
  <2> QED BY <2>1, <2>2, SurvivorsCallOff
<1>19. ASSUME NEW q \in Requests, RevokeAll(q)
       PROVE  Survivors'
  BY <1>19, SurvivorsRevoke
<1>20. ASSUME NEW q \in Requests, Fail(q)
       PROVE  Survivors'
  <2>1. /\ UNCHANGED <<token, epoch, born, escaped>> /\ req' = [req EXCEPT ![q] = Done]
        /\ overtaken' = overtaken \ {q} /\ broken \subseteq broken'
        /\ req[q].pc = "revoke" => req[q].phone \in broken'
    BY <1>20 DEF Fail, Finish, tables
  <2>2. Alone(q) /\ HandlerOK(q)'
    BY <1>0, <2>1, DoneUpdate, OtherHandler
  <2>3. ExcusesStay /\ Revokes
    BY <2>1, <2>2, ExcusesMove, TokensStay
  <2> QED BY <2>1, <2>2, <2>3, SurvivorsMove
<1>21. ASSUME Revokes, UNCHANGED <<req, epoch, born, escaped, broken, overtaken>>
       PROVE  Survivors'
  <2>1. ExcusesStay
    BY <1>21 DEF ExcusesStay, Excused
  <2>2. \A s \in Requests : HandlerOK(s)'
    BY <1>21, <2>1, HandlerStays
  <2>3. ASSUME NEW t \in TokenIds, NEW p \in Phones
        PROVE  SessionOK(t, p)'
    <3>1. SessionOK(t, p) /\ (Excused(p) => Excused(p)')
      BY <2>1, SessionsAccounted DEF Survivors, ExcusesStay
    <3> QED BY <1>21, <3>1 DEF SessionOK, Revokes
  <2> QED BY <2>2, <2>3, SessionsAccountedNext DEF Survivors
<1>22. ASSUME NEW t \in TokenIds, Logout(t) \/ RevokeSession(t)
       PROVE  Survivors'
  <2>1. /\ token' = [token EXCEPT ![t].revoked = TRUE]
        /\ UNCHANGED <<req, epoch, born, escaped, broken, overtaken>>
    BY <1>22 DEF Logout, RevokeSession, history
  <2> QED BY <1>21, <2>1, RevokeOne
<1>23. ASSUME Tick \/ UNCHANGED vars PROVE Survivors'
  <2>1. UNCHANGED <<token, req, epoch, born, escaped, broken, overtaken>>
    BY <1>23 DEF Tick, vars, tables, history
  <2> QED BY <1>21, <2>1, TokensStay
<1> QED BY <1>4, <1>5, <1>6, <1>7, <1>8, <1>9, <1>10, <1>11, <1>12, <1>13, <1>14, <1>15,
           <1>16, <1>17, <1>18, <1>19, <1>20, <1>22, <1>23 DEF Next

---------------------------------------------------------------------------
(* Erased and RegistrationComplete: accounts *)

\* A step of q that does not write accounts or profiles.
LEMMA ErasedMove ==
  ASSUME Shape, Erased, NEW q \in Requests, Alone(q), UNCHANGED <<user, email, kept>>,
         overtaken \subseteq overtaken' \cup {q},
         req'[q].pc = "profile" => user[req'[q].phone] = "ACTIVE"
  PROVE  Erased'
<1>1. EmailStaysErased'
  BY DEF Erased, EmailStaysErased
<1>2. ASSUME NEW s \in Requests, s \notin overtaken', req'[s].pc = "profile"
      PROVE  user'[req'[s].phone] = "ACTIVE"
  <2>1. CASE s = q
    BY <1>2, <2>1
  <2>2. CASE s # q
    <3>1. req'[s] = req[s] /\ s \notin overtaken
      BY <1>2, <2>2 DEF Alone
    <3> QED BY <1>2, <3>1 DEF Erased
  <2> QED BY <2>1, <2>2
<1> QED BY <1>1, <1>2 DEF Erased

LEMMA ErasedCreate ==
  ASSUME Shape, Erased, NEW q \in Requests, Alone(q), req'[q].pc = "wallet",
         NEW p \in Phones, user[p] = "NONE", user' = [user EXCEPT ![p] = "ACTIVE"],
         UNCHANGED <<email, kept, overtaken>>
  PROVE  Erased'
<1>0. user \in [Phones -> {"NONE", "ACTIVE", "DELETED"}]
  BY DEF Shape, TypeOK
<1>1. EmailStaysErased'
  BY <1>0 DEF Erased, EmailStaysErased
<1>2. ASSUME NEW s \in Requests, s \notin overtaken', req'[s].pc = "profile"
      PROVE  user'[req'[s].phone] = "ACTIVE"
  <2>1. s # q
    BY <1>2
  <2>2. req'[s] = req[s]
    BY <2>1 DEF Alone
  <2>3. req[s].phone \in Phones /\ user[req[s].phone] = "ACTIVE"
    BY <1>2, <2>2 DEF Erased, Shape, LocalsOK
  <2> QED BY <1>0, <2>2, <2>3
<1> QED BY <1>1, <1>2 DEF Erased

LEMMA ErasedDelete ==
  ASSUME Shape, Erased, NEW q \in Requests, DeleteAccount(q)
  PROVE  Erased'
<1>0. /\ user \in [Phones -> {"NONE", "ACTIVE", "DELETED"}] /\ TypeOK
      /\ email \in [Phones -> Emails \cup {NoEmail}] /\ "revoke" \in PCs
  BY DEF Shape, TypeOK, PCs
<1>1. /\ user' = [user EXCEPT ![req[q].phone] = "DELETED"] /\ Goto(q, "revoke")
      /\ email' = [email EXCEPT ![req[q].phone] = NoEmail] /\ kept' = kept
      /\ overtaken' = (overtaken \cup {s \in Requests : req[s].phone = req[q].phone}) \ {q}
  BY DEF DeleteAccount
<1>2. EmailStaysErased'
  BY <1>0, <1>1 DEF Erased, EmailStaysErased
<1>3. Alone(q) /\ req'[q].pc = "revoke"
  BY <1>0, <1>1, GotoUpdate
<1>4. ASSUME NEW s \in Requests, s \notin overtaken', req'[s].pc = "profile"
      PROVE  user'[req'[s].phone] = "ACTIVE"
  <2>1. s # q
    BY <1>3, <1>4
  <2>2. req'[s] = req[s] /\ s \notin overtaken /\ req[s].phone # req[q].phone
    BY <1>1, <1>3, <1>4, <2>1 DEF Alone
  <2>3. req[s].phone \in Phones /\ user[req[s].phone] = "ACTIVE"
    BY <1>4, <2>2 DEF Erased, Shape, LocalsOK
  <2> QED BY <1>0, <1>1, <2>2, <2>3
<1> QED BY <1>2, <1>4 DEF Erased

LEMMA ErasedWrite ==
  ASSUME Shape, Erased, NEW q \in Requests, WriteProfile(q)
  PROVE  Erased'
<1>0. /\ email \in [Phones -> Emails \cup {NoEmail}] /\ TypeOK
      /\ req[q].phone \in Phones /\ req[q].pc = "profile"
  BY DEF Shape, TypeOK, LocalsOK, WriteProfile
<1>1. /\ user' = user /\ req' = [req EXCEPT ![q] = Done] /\ overtaken' = overtaken \ {q}
      /\ kept' = IF q \in overtaken THEN kept \cup {req[q].phone} ELSE kept
      /\ email' = [email EXCEPT ![req[q].phone] = req[q].email] \/ email' = email
  BY DEF WriteProfile, Finish
<1>2. Alone(q) /\ req'[q].pc = "done"
  BY <1>0, <1>1, DoneUpdate
<1>3. ASSUME NEW p \in Phones \ kept', user'[p] = "DELETED"
      PROVE  email'[p] = NoEmail
  <2>1. p \notin kept /\ email[p] = NoEmail
    BY <1>1, <1>3 DEF Erased, EmailStaysErased
  <2>2. p # req[q].phone
    <3>1. CASE q \in overtaken
      BY <1>1, <1>3, <3>1
    <3>2. CASE q \notin overtaken
      BY <1>0, <1>1, <1>3, <3>2 DEF Erased
    <3> QED BY <3>1, <3>2
  <2> QED BY <1>0, <1>1, <2>1, <2>2
<1>4. ASSUME NEW s \in Requests, s \notin overtaken', req'[s].pc = "profile"
      PROVE  user'[req'[s].phone] = "ACTIVE"
  <2>1. s # q
    BY <1>2, <1>4
  <2>2. req'[s] = req[s] /\ s \notin overtaken
    BY <1>1, <1>2, <1>4, <2>1 DEF Alone
  <2> QED BY <1>1, <1>4, <2>2 DEF Erased
<1> QED BY <1>3, <1>4 DEF Erased, EmailStaysErased

LEMMA ErasedInit == Init => Erased
  BY IdleFields DEF Init, Erased, EmailStaysErased

\* A handler is at work on the wallet and the loyalty account of p.
Registering(p) == \E q \in Requests : req[q].phone = p /\ req[q].pc \in {"wallet", "loyalty"}

LEMMA RegisteringMove ==
  ASSUME NEW q \in Requests, Alone(q), NEW p \in Phones, Registering(p),
         req[q].pc \in {"wallet", "loyalty"} => req[q].phone # p
  PROVE  Registering(p)'
<1>1. PICK s \in Requests : req[s].phone = p /\ req[s].pc \in {"wallet", "loyalty"}
  BY DEF Registering
<1>2. s # q /\ req'[s] = req[s]
  BY <1>1 DEF Alone
<1> QED BY <1>1, <1>2 DEF Registering

\* A step of q, which is not at work on a registration, or fails.
LEMMA RegistrationMove ==
  ASSUME Shape, RegistrationComplete, NEW q \in Requests, Alone(q), UNCHANGED <<wallets, loyalty>>,
         \A p \in Phones : user'[p] # "NONE" => user[p] # "NONE", broken \subseteq broken',
         req[q].pc \in {"wallet", "loyalty"} => req[q].phone \in broken'
  PROVE  RegistrationComplete'
<1> SUFFICES ASSUME NEW p \in Phones \ broken', user'[p] # "NONE", p \notin wallets' \cap loyalty'
             PROVE  Registering(p)'
  BY DEF RegistrationComplete, Registering
<1>1. Registering(p)
  BY DEF RegistrationComplete, Registering
<1> QED BY <1>1, RegisteringMove

LEMMA RegistrationCreate ==
  ASSUME Shape, RegistrationComplete, NEW q \in Requests, Goto(q, "wallet"), req[q].pc = "create",
         user' = [user EXCEPT ![req[q].phone] = "ACTIVE"], UNCHANGED <<wallets, loyalty, broken>>
  PROVE  RegistrationComplete'
<1>0. "wallet" \in PCs /\ TypeOK
  BY DEF PCs, Shape
<1>1. Alone(q) /\ req'[q].pc = "wallet" /\ req'[q].phone = req[q].phone
  BY <1>0, GotoUpdate
<1> SUFFICES ASSUME NEW p \in Phones \ broken', user'[p] # "NONE", p \notin wallets' \cap loyalty'
             PROVE  Registering(p)'
  BY DEF RegistrationComplete, Registering
<1>2. CASE p = req[q].phone
  BY <1>1, <1>2 DEF Registering
<1>3. CASE p # req[q].phone
  <2>1. user[p] # "NONE"
    BY <1>3 DEF Shape, TypeOK
  <2>2. Registering(p)
    BY <2>1 DEF RegistrationComplete, Registering
  <2> QED BY <1>1, <2>2, RegisteringMove
<1> QED BY <1>2, <1>3

LEMMA RegistrationWallet ==
  ASSUME Shape, RegistrationComplete, NEW q \in Requests, CreateWallet(q)
  PROVE  RegistrationComplete'
<1>0. /\ Goto(q, "loyalty") /\ "loyalty" \in PCs /\ TypeOK /\ wallets' = wallets \cup {req[q].phone}
      /\ UNCHANGED <<user, loyalty, broken>>
  BY DEF CreateWallet, PCs, Shape, history
<1>1. Alone(q) /\ req'[q].pc = "loyalty" /\ req'[q].phone = req[q].phone
  BY <1>0, GotoUpdate
<1> SUFFICES ASSUME NEW p \in Phones \ broken', user'[p] # "NONE", p \notin wallets' \cap loyalty'
             PROVE  Registering(p)'
  BY DEF RegistrationComplete, Registering
<1>2. Registering(p)
  BY <1>0 DEF RegistrationComplete, Registering
<1>3. CASE p = req[q].phone
  BY <1>1, <1>3 DEF Registering
<1>4. CASE p # req[q].phone
  BY <1>1, <1>2, <1>4, RegisteringMove
<1> QED BY <1>3, <1>4

LEMMA RegistrationLoyalty ==
  ASSUME Shape, RegistrationComplete, NEW q \in Requests, CreateLoyalty(q)
  PROVE  RegistrationComplete'
<1>0. /\ Goto(q, "issue") /\ "issue" \in PCs /\ TypeOK /\ loyalty' = loyalty \cup {req[q].phone}
      /\ UNCHANGED <<user, wallets, broken>> /\ req[q].phone \in wallets
  BY DEF CreateLoyalty, PCs, Shape, history, LocalsOK
<1>1. Alone(q)
  BY <1>0, GotoUpdate
<1> SUFFICES ASSUME NEW p \in Phones \ broken', user'[p] # "NONE", p \notin wallets' \cap loyalty'
             PROVE  Registering(p)'
  BY DEF RegistrationComplete, Registering
<1>2. Registering(p) /\ p # req[q].phone
  BY <1>0 DEF RegistrationComplete, Registering
<1> QED BY <1>1, <1>2, RegisteringMove

LEMMA RegistrationInit == Init => RegistrationComplete
  BY DEF Init, RegistrationComplete

\* Accounts: what is deleted stays erased, what is registered gets its rows.
LEMMA AccountsNext ==
  ASSUME Shape, Erased, RegistrationComplete, [Next]_vars
  PROVE  Erased' /\ RegistrationComplete'
<1> USE ShapeTyped
<1> DEFINE Same == UNCHANGED <<user, email, wallets, loyalty, kept, broken>>
<1>1. ASSUME NEW q \in Requests, Alone(q), Same, overtaken \subseteq overtaken' \cup {q},
             req'[q].pc = "profile" => user[req'[q].phone] = "ACTIVE",
             req[q].pc \notin {"wallet", "loyalty"}
      PROVE  Erased' /\ RegistrationComplete'
  BY <1>1, ErasedMove, RegistrationMove
<1>2. ASSUME NEW q \in Requests, req' = [req EXCEPT ![q] = Done], Same,
             overtaken \subseteq overtaken' \cup {q}, req[q].pc \notin {"wallet", "loyalty"}
      PROVE  Erased' /\ RegistrationComplete'
  BY <1>1, <1>2, DoneUpdate
<1>3. ASSUME NEW q \in Requests, NEW pc \in PCs \ {"profile"}, Goto(q, pc), Same,
             overtaken \subseteq overtaken', req[q].pc \notin {"wallet", "loyalty"}
      PROVE  Erased' /\ RegistrationComplete'
  BY <1>1, <1>3, GotoUpdate
<1>4. ASSUME NEW q \in Requests, NEW p \in Phones, NEW purpose \in Purposes,
             RequestOtp(q, p, purpose)
      PROVE  Erased' /\ RegistrationComplete'
  <2>1. Same /\ overtaken' = overtaken
    BY <1>4 DEF RequestOtp, tables, history
  <2> QED BY <1>1, <1>4, <2>1, RequestOtpUpdate
<1>5. ASSUME NEW q \in Requests, NEW p \in Phones, NEW purpose \in Purposes,
             BeginVerify(q, p, purpose)
      PROVE  Erased' /\ RegistrationComplete'
  <2>1. Same /\ overtaken' = overtaken
    BY <1>5 DEF BeginVerify, tables, history
  <2> QED BY <1>1, <1>5, <2>1, BeginVerifyUpdate
<1>6. ASSUME NEW q \in Requests, NEW p \in Phones,
             LoginWithPassword(q, p) \/ RequestAccountDeletion(q, p)
      PROVE  Erased' /\ RegistrationComplete'
  <2>1. Same /\ overtaken' = overtaken
    BY <1>6 DEF LoginWithPassword, RequestAccountDeletion, tables, history
  <2>2. PICK pc \in PCs \ {"profile"} : Begin(q, pc, p)
    BY <1>6 DEF LoginWithPassword, RequestAccountDeletion, PCs
  <2> QED BY <1>1, <2>1, <2>2, BeginUpdate
<1>7. ASSUME NEW q \in Requests, NEW p \in Phones, NEW e \in Emails \cup {NoEmail},
             UpdateProfile(q, p, e)
      PROVE  Erased' /\ RegistrationComplete'
  <2>1. Same /\ overtaken' = overtaken /\ user[p] = "ACTIVE"
    BY <1>7 DEF UpdateProfile, tables, history
  <2> QED BY <1>1, <1>7, <2>1, UpdateProfileUpdate
<1>8. ASSUME NEW q \in Requests, NEW t \in TokenIds, IssueTokenPair(q, t)
      PROVE  Erased' /\ RegistrationComplete'
  <2>1. Same /\ Finish(q) /\ req[q].pc = "issue"
    BY <1>8 DEF IssueTokenPair
  <2> QED BY <1>2, <2>1 DEF Finish
<1>9. ASSUME NEW q \in Requests, NEW t \in TokenIds, RefreshTokens(q, t)
      PROVE  Erased' /\ RegistrationComplete'
  <2>1. Same /\ overtaken' = overtaken
    BY <1>9 DEF RefreshTokens, tables
  <2> QED BY <1>1, <1>9, <2>1, RefreshTokensUpdate
<1>10. ASSUME NEW q \in Requests, NEW o \in OtpIds, CreateOtp(q, o)
       PROVE  Erased' /\ RegistrationComplete'
  <2>1. /\ Same /\ overtaken' = overtaken /\ req' = [req EXCEPT ![q] = Done]
        /\ req[q].pc = "send"
    BY <1>10 DEF CreateOtp, history
  <2> QED BY <1>2, <2>1
<1>11. ASSUME NEW q \in Requests, NEW right \in BOOLEAN, VerifyOtp(q, right)
       PROVE  Erased' /\ RegistrationComplete'
  <2>0. Same /\ req[q].pc = "verify"
    BY <1>11 DEF VerifyOtp, tables
  <2>1. CASE Finish(q)
    BY <1>2, <2>0, <2>1 DEF Finish
  <2>2. ASSUME NEW o \in OtpIds, ReadCode(q, o, right)
        PROVE  Erased' /\ RegistrationComplete'
    <3>1. Alone(q) /\ req'[q].pc # "profile" /\ overtaken' = overtaken
      BY <2>2, ReadCodeUpdate DEF ReadCode, Holding
    <3> QED BY <1>1, <2>0, <3>1
  <2> QED BY <1>11, <2>1, <2>2 DEF VerifyOtp
<1>12. ASSUME NEW q \in Requests, CheckCooldown(q)
       PROVE  Erased' /\ RegistrationComplete'
  <2>0. /\ Same /\ overtaken' = overtaken /\ req[q].pc = "recent"
        /\ "send" \in PCs \ {"profile"}
    BY <1>12 DEF CheckCooldown, tables, history, PCs
  <2> QED BY <1>2, <1>3, <1>12, <2>0 DEF CheckCooldown
<1>13. ASSUME NEW q \in Requests, ConsumeOtp(q)
       PROVE  Erased' /\ RegistrationComplete'
  <2>0. Same /\ overtaken' = overtaken
    BY <1>13 DEF ConsumeOtp
  <2> QED BY <1>1, <1>13, <2>0, ConsumeOtpUpdate
<1>14. ASSUME NEW q \in Requests, CheckNew(q) \/ ReadOwner(q)
       PROVE  Erased' /\ RegistrationComplete'
  <2>0. Same /\ req[q].pc \in {"exists", "owner"}
    BY <1>14 DEF CheckNew, ReadOwner, tables
  <2>1. \/ Finish(q)
        \/ overtaken' = overtaken /\ \E pc \in PCs \ {"profile"} : Goto(q, pc)
    BY <1>14 DEF CheckNew, ReadOwner, PCs
  <2> QED BY <1>2, <1>3, <2>0, <2>1 DEF Finish
<1>15. ASSUME NEW q \in Requests, CreateUser(q)
       PROVE  Erased' /\ RegistrationComplete'
  <2>0. /\ UNCHANGED <<email, wallets, loyalty, kept, broken>> /\ req[q].pc = "create"
        /\ req[q].phone \in Phones
    BY <1>15 DEF CreateUser, Shape, LocalsOK
  <2>1. CASE Finish(q) /\ UNCHANGED user
    BY <1>2, <2>0, <2>1 DEF Finish
  <2>2. CASE /\ user[req[q].phone] = "NONE" /\ user' = [user EXCEPT ![req[q].phone] = "ACTIVE"]
             /\ Goto(q, "wallet") /\ UNCHANGED overtaken
    <3>1. "wallet" \in PCs
      BY DEF PCs
    <3>2. Alone(q) /\ req'[q].pc = "wallet"
      BY <2>2, <3>1, GotoUpdate
    <3>3. Erased'
      BY <2>0, <2>2, <3>2, ErasedCreate
    <3>4. RegistrationComplete'
      BY <2>0, <2>2, RegistrationCreate
    <3> QED BY <3>3, <3>4
  <2> QED BY <1>15, <2>1, <2>2 DEF CreateUser
<1>16. ASSUME NEW q \in Requests, CreateWallet(q) \/ CreateLoyalty(q)
       PROVE  Erased' /\ RegistrationComplete'
  <2>1. PICK pc \in PCs \ {"profile"} : Goto(q, pc)
    BY <1>16 DEF CreateWallet, CreateLoyalty, PCs
  <2>2. UNCHANGED <<user, email, kept, overtaken>>
    BY <1>16 DEF CreateWallet, CreateLoyalty, history
  <2>3. Erased'
    BY <2>1, <2>2, GotoUpdate, ErasedMove
  <2> QED BY <1>16, <2>3, RegistrationWallet, RegistrationLoyalty
<1>17. ASSUME NEW q \in Requests, WrongCode(q) \/ RevokeAll(q)
       PROVE  Erased' /\ RegistrationComplete'
  <2>0. /\ Same /\ req[q].pc \in {"wrong", "revoke"} /\ req' = [req EXCEPT ![q] = Done]
        /\ overtaken \subseteq overtaken' \cup {q}
    BY <1>17 DEF WrongCode, RevokeAll, Finish
  <2> QED BY <1>2, <2>0
<1>18. ASSUME NEW q \in Requests, Rotate(q) \/ SetPassword(q)
       PROVE  Erased' /\ RegistrationComplete'
  <2>0. Same /\ overtaken' = overtaken /\ req[q].pc \in {"rotate", "password"}
    BY <1>18 DEF Rotate, SetPassword, tables
  <2>1. \E pc \in PCs \ {"profile"} : Goto(q, pc)
    BY <1>18 DEF Rotate, SetPassword, PCs
  <2> QED BY <1>3, <2>0, <2>1
<1>19. ASSUME NEW q \in Requests, DeleteAccount(q)
       PROVE  Erased' /\ RegistrationComplete'
  <2>0. /\ UNCHANGED <<wallets, loyalty, broken>> /\ req[q].pc = "delete" /\ Goto(q, "revoke")
        /\ "revoke" \in PCs /\ user' = [user EXCEPT ![req[q].phone] = "DELETED"]
        /\ user[req[q].phone] # "NONE"
    BY <1>19 DEF DeleteAccount, PCs, Shape, LocalsOK
  <2>1. Alone(q)
    BY <2>0, GotoUpdate
  <2>2. \A p \in Phones : user'[p] # "NONE" => user[p] # "NONE"
    BY <2>0 DEF TablesTyped
  <2> QED BY <1>19, <2>0, <2>1, <2>2, ErasedDelete, RegistrationMove
<1>20. ASSUME NEW q \in Requests, WriteProfile(q)
       PROVE  Erased' /\ RegistrationComplete'
  <2>0. /\ UNCHANGED <<user, wallets, loyalty, broken>> /\ req[q].pc = "profile"
        /\ req' = [req EXCEPT ![q] = Done]
    BY <1>20 DEF WriteProfile, Finish
  <2> QED BY <1>20, <2>0, DoneUpdate, ErasedWrite, RegistrationMove
<1>21. ASSUME NEW q \in Requests, Fail(q)
       PROVE  Erased' /\ RegistrationComplete'
  <2>0. /\ UNCHANGED <<user, email, wallets, loyalty, kept>> /\ req' = [req EXCEPT ![q] = Done]
        /\ overtaken' = overtaken \ {q} /\ broken \subseteq broken'
        /\ req[q].pc \in {"wallet", "loyalty"} => req[q].phone \in broken'
    BY <1>21 DEF Fail, Finish, tables
  <2>1. Alone(q) /\ req'[q].pc = "done"
    BY <2>0, DoneUpdate
  <2> QED BY <2>0, <2>1, ErasedMove, RegistrationMove
<1>22. ASSUME UNCHANGED <<user, email, wallets, loyalty, kept, broken, overtaken, req>>
       PROVE  Erased' /\ RegistrationComplete'
  BY <1>22 DEF Erased, EmailStaysErased, RegistrationComplete
<1>23. ASSUME NEW t \in TokenIds, Logout(t) \/ RevokeSession(t)
       PROVE  Erased' /\ RegistrationComplete'
  BY <1>22, <1>23 DEF Logout, RevokeSession, history
<1>24. ASSUME Tick \/ UNCHANGED vars
       PROVE  Erased' /\ RegistrationComplete'
  BY <1>22, <1>24 DEF Tick, vars, tables, history
<1> QED BY <1>4, <1>5, <1>6, <1>7, <1>8, <1>9, <1>10, <1>11, <1>12, <1>13, <1>14, <1>15,
           <1>16, <1>17, <1>18, <1>19, <1>20, <1>21, <1>23, <1>24 DEF Next

---------------------------------------------------------------------------
(* The theorems *)

LEMMA IInvInit == Init => IInv
  BY ShapeInit, CodesInit, RefreshesInit, SurvivorsInit, ErasedInit, RegistrationInit DEF IInv

LEMMA IInvNext == IInv /\ [Next]_vars => IInv'
<1> SUFFICES ASSUME IInv, [Next]_vars PROVE IInv'
  OBVIOUS
<1>1. Shape /\ Codes /\ Refreshes /\ Survivors /\ Erased /\ RegistrationComplete
  BY DEF IInv
<1>2. Shape' /\ Codes' /\ Refreshes' /\ Survivors'
  BY <1>1, ShapeNext, CodesNext, RefreshesNext, SurvivorsNext
<1>3. Erased' /\ RegistrationComplete'
  BY <1>1, AccountsNext
<1> QED BY <1>2, <1>3 DEF IInv

LEMMA Invariance == Spec => []IInv
  BY IInvInit, IInvNext, PTL DEF Spec

\* The tables keep their types, and a handler that is about to write a code has
\* found one (verifyOtp).
THEOREM SessionTypes == Spec => []TypeOK
<1>1. IInv => TypeOK
  BY DEF IInv, Shape
<1> QED BY <1>1, Invariance, PTL

\* A code is accepted once, and once more for every verification that read it
\* while another was about to write it (verifyOtp).
THEOREM CodesAcceptedOnce == Spec => []CodeUsedOnce
<1>1. IInv => CodeUsedOnce
  <2> SUFFICES ASSUME IInv, NEW o \in OtpIds PROVE accepted[o] <= 1 + codeRivals[o]
    BY DEF CodeUsedOnce
  <2>1. CodeOK(o) /\ Cardinality(Readers(o)) \in Nat
    BY ReadersFinite DEF IInv, Codes
  <2>2. accepted[o] \in Nat /\ codeRivals[o] \in Nat
    BY DEF IInv, Shape, TypeOK
  <2> QED BY <2>1, <2>2 DEF CodeOK
<1> QED BY <1>1, Invariance, PTL

\* What is sent in is compared with a code MAX_VERIFY_ATTEMPTS times at most,
\* whatever the number is, and once more for every verification that read it while
\* another was about to write it and for every one that failed before its write
\* (verifyOtp).
THEOREM AttemptsLimited == Spec => []AttemptsBounded
<1>1. IInv => AttemptsBounded
  <2> SUFFICES ASSUME IInv, NEW o \in OtpIds
               PROVE  tried[o] <= MaxAttempts + codeRivals[o] + lost[o]
    BY DEF AttemptsBounded
  <2>1. CodeOK(o) /\ Cardinality(Readers(o)) \in Nat
    BY ReadersFinite DEF IInv, Codes
  <2>2. /\ tried[o] \in Nat /\ accepted[o] \in Nat /\ lost[o] \in Nat
        /\ codeRivals[o] \in Nat /\ otp[o].attempts \in Nat
    BY CountsTyped DEF IInv
  <2> QED BY <2>1, <2>2, ClockAssumption DEF CodeOK
<1> QED BY <1>1, Invariance, PTL

\* A refresh token is exchanged once, and once more for every refresh that read it
\* while another was about to revoke it (refreshTokens).
THEOREM TokensRotatedOnce == Spec => []RotatedOnce
<1>1. IInv => RotatedOnce
  <2> SUFFICES ASSUME IInv, NEW t \in TokenIds PROVE rotated[t] <= 1 + tokenRivals[t]
    BY DEF RotatedOnce
  <2>1. RefreshOK(t) /\ Cardinality(Rotators(t)) \in Nat
    BY RotatorsFinite DEF IInv, Refreshes
  <2>2. rotated[t] \in Nat /\ tokenRivals[t] \in Nat
    BY DEF IInv, Shape, TypeOK
  <2> QED BY <2>1, <2>2 DEF RefreshOK
<1> QED BY <1>1, Invariance, PTL

\* Sessions that go back to credentials called off are closed, but for those of
\* handlers under way at the time (resetPassword, requestAccountDeletion).
THEOREM SessionsCalledOff == Spec => []NoSurvivors
<1>1. IInv => NoSurvivors
  BY DEF IInv, Survivors
<1> QED BY <1>1, Invariance, PTL

\* The address, which is what requestAccountDeletion erases of the personal data,
\* stays erased, unless an updateProfile was under way at the time.
THEOREM EmailErased == Spec => []EmailStaysErased
<1>1. IInv => EmailStaysErased
  BY DEF IInv, Erased
<1> QED BY <1>1, Invariance, PTL

\* An account gets its wallet and its loyalty account, unless its registration is
\* under way or failed half way (verifyRegisterAndCreateUser).
THEOREM RegistrationCompletes == Spec => []RegistrationComplete
<1>1. IInv => RegistrationComplete
  BY DEF IInv
<1> QED BY <1>1, Invariance, PTL

===========================================================================
