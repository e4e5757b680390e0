----------------------------- MODULE Sessions -----------------------------
(***************************************************************************)
(* AuthService, OtpService and UsersService (modules/auth, modules/otp,    *)
(* modules/users): registration, login, one-time codes, refresh tokens,    *)
(* password reset, profile and deletion of the account.                    *)
(*                                                                         *)
(* Requests are processes, as in Bookings: an action is the code between   *)
(* two awaits, none of them inside a transaction.  A phone number stands   *)
(* for the account registered under it (User.phone is unique).  Hashes,    *)
(* passwords and codes appear as "right" or "wrong"; requests that end     *)
(* with an error and no write are left out where the error is the first    *)
(* thing that happens.  registerReferral, the last step of a registration  *)
(* before the tokens, is in Rewards.                                       *)
(***************************************************************************)
EXTENDS Integers, FiniteSets

CONSTANTS
    Requests, Phones, Emails, TokenIds,
    OtpIds,         \* codes, numbered in the order of createdAt
    OtpTtl,         \* OTP_TTL_MINUTES
    Cooldown,       \* RESEND_COOLDOWN_SECONDS
    MaxAttempts,    \* MAX_VERIFY_ATTEMPTS
    RefreshTtl,     \* JWT_REFRESH_EXPIRES_IN
    Horizon,        \* the clock stops here
    NoPhone, NoEmail, NoOtp, NoToken

ASSUME ClockAssumption ==
    /\ OtpIds \subseteq Nat \ {0} /\ IsFiniteSet(OtpIds) /\ NoOtp = 0
    /\ OtpTtl \in Nat /\ Cooldown \in Nat /\ RefreshTtl \in Nat /\ Horizon \in Nat
    /\ MaxAttempts \in Nat \ {0}
    /\ IsFiniteSet(Requests)

ASSUME NullAssumption ==
    NoPhone \notin Phones /\ NoEmail \notin Emails /\ NoToken \notin TokenIds

VARIABLES
    user,       \* status of the account; "NONE" before it is registered
    email,      \* its address
    named,      \* accounts whose row holds a name, and perhaps a picture
    wallets,    \* accounts that have a wallet,
    loyalty,    \* and a loyalty account
    otp,        \* the OtpCode table
    token,      \* the RefreshToken table
    now,
    req,        \* every request's place in its handler, and its locals
    \* History, read by no action:
    epoch,      \* how often the sessions of an account were called off
    born,       \* the epoch of the credentials that a token descends from
    tried,      \* how often a code was compared with one that was sent in,
    accepted,   \* how often it was accepted,
    lost,       \* and how often its handler failed before it wrote the outcome
    rotated,    \* how often a token was exchanged
    codeRivals, \* how often a code was read while another handler had read it
    tokenRivals,\* and not written it yet, and the same of a token
    overtaken,  \* handlers under way when their account was deleted or its
                \* sessions revoked,
    escaped,    \* the tokens that they issued, and the descendants of those,
    kept,       \* and the accounts whose profile they wrote
    broken      \* accounts whose handler failed half way

tables  == <<user, email, named, wallets, loyalty, otp, token>>
history == <<epoch, born, tried, accepted, lost, rotated, codeRivals, tokenRivals, overtaken, escaped, kept, broken>>
vars    == <<tables, now, req, history>>

Purposes == {"REGISTER", "LOGIN", "RESET_PASSWORD"}

NoOtpRow   == [phone |-> NoPhone, purpose |-> "NONE", at |-> 0, attempts |-> 0, used |-> FALSE]
NoTokenRow == [phone |-> NoPhone, at |-> 0, revoked |-> FALSE]

Idle == [pc |-> "idle", phone |-> NoPhone, purpose |-> "NONE", otp |-> NoOtp,
         tok |-> NoToken, email |-> NoEmail, epoch |-> 0]
Done == [Idle EXCEPT !.pc = "done"]

\* requestRegisterOtp, requestLoginOtp and forgotPassword look at the account.
MayRequest(p, purpose) ==
    CASE purpose = "REGISTER"       -> user[p] = "NONE"
      [] purpose = "LOGIN"          -> user[p] = "ACTIVE"
      [] purpose = "RESET_PASSWORD" -> user[p] # "NONE"

\* Accounts may have open sessions already, and phones a code sent to them.
OpenSessions == [phone : {p \in Phones : user[p] = "ACTIVE"}, at : {0}, revoked : {FALSE}]
SentCodes    == {row \in [phone : Phones, purpose : Purposes, at : {0}, attempts : {0},
                          used : {FALSE}] : MayRequest(row.phone, row.purpose)}

Init ==
    /\ user \in [Phones -> {"NONE", "ACTIVE"}]
    /\ email = [p \in Phones |-> NoEmail]
    /\ named = {p \in Phones : user[p] = "ACTIVE"}
    /\ wallets = {p \in Phones : user[p] = "ACTIVE"}
    /\ loyalty = {p \in Phones : user[p] = "ACTIVE"}
    /\ otp \in [OtpIds -> SentCodes \cup {NoOtpRow}]
    /\ \A o \in OtpIds \ {1} : otp[o] = NoOtpRow
    /\ token \in [TokenIds -> OpenSessions \cup {NoTokenRow}]
    /\ now = 0
    /\ req = [q \in Requests |-> Idle]
    /\ epoch = [p \in Phones |-> 0]
    /\ born = [t \in TokenIds |-> 0]
    /\ tried = [o \in OtpIds |-> 0]
    /\ accepted = [o \in OtpIds |-> 0]
    /\ lost = [o \in OtpIds |-> 0]
    /\ rotated = [t \in TokenIds |-> 0]
    /\ codeRivals = [o \in OtpIds |-> 0]
    /\ tokenRivals = [t \in TokenIds |-> 0]
    /\ overtaken = {} /\ escaped = {} /\ kept = {} /\ broken = {}

\* A request for account p starts its handler.
Begin(q, pc, p) ==
    /\ req[q].pc = "idle"
    /\ req' = [req EXCEPT ![q] = [Idle EXCEPT !.pc = pc, !.phone = p, !.epoch = epoch[p]]]

Goto(q, pc) == req' = [req EXCEPT ![q].pc = pc]

Finish(q) ==
    /\ req' = [req EXCEPT ![q] = Done]
    /\ overtaken' = overtaken \ {q}

---------------------------------------------------------------------------
(* OtpService.requestOtp, behind the three endpoints that ask for a code *)

\* The newest code for p and purpose that has not been consumed.
Newest(o, p, purpose) ==
    LET Open(i) == otp[i].phone = p /\ otp[i].purpose = purpose /\ ~otp[i].used
    IN  Open(o) /\ \A i \in OtpIds : Open(i) => i <= o

RequestOtp(q, p, purpose) ==
    /\ MayRequest(p, purpose)
    /\ req[q].pc = "idle"
    /\ req' = [req EXCEPT ![q] = [Idle EXCEPT !.pc = "recent", !.phone = p,
                                              !.purpose = purpose]]
    /\ UNCHANGED <<tables, now, history>>

CheckCooldown(q) ==
    LET r == req[q] IN
    /\ r.pc = "recent"
    /\ IF \E o \in OtpIds : Newest(o, r.phone, r.purpose) /\ now - otp[o].at < Cooldown
       THEN req' = [req EXCEPT ![q] = Done]
       ELSE Goto(q, "send")
    /\ UNCHANGED <<tables, now, history>>

CreateOtp(q, o) ==
    /\ req[q].pc = "send"
    /\ \A i \in OtpIds : otp[i].phone = NoPhone <=> i >= o
    /\ otp' = [otp EXCEPT ![o] = [phone |-> req[q].phone, purpose |-> req[q].purpose,
                                  at |-> now, attempts |-> 0, used |-> FALSE]]
    /\ req' = [req EXCEPT ![q] = Done]
    /\ UNCHANGED <<user, email, named, wallets, loyalty, token, now, history>>

---------------------------------------------------------------------------
(* OtpService.verifyOtp, and what follows a code that was right *)

\* verifyRegisterAndCreateUser verifies at once, verifyLoginOtp and
\* resetPassword read the account first.
BeginVerify(q, p, purpose) ==
    /\ purpose = "LOGIN" => user[p] = "ACTIVE"
    /\ purpose = "RESET_PASSWORD" => user[p] # "NONE"
    /\ req[q].pc = "idle"
    /\ req' = [req EXCEPT ![q] = [Idle EXCEPT !.pc = "verify", !.phone = p,
                                    !.purpose = purpose, !.epoch = epoch[p]]]
    /\ UNCHANGED <<tables, now, history>>

\* The code that was read is compared with the one that was sent in.
ReadCode(q, o, right) ==
    /\ req' = [req EXCEPT ![q].pc = IF right THEN "consume" ELSE "wrong", ![q].otp = o]
    /\ codeRivals' = IF \E s \in Requests : req[s].otp = o
                     THEN [codeRivals EXCEPT ![o] = @ + 1] ELSE codeRivals
    /\ tried' = [tried EXCEPT ![o] = @ + 1]
    /\ UNCHANGED overtaken

VerifyOtpMissing(q, right) ==       \* mutant: no look whether a code was found
    LET r == req[q]
        usable == {o \in OtpIds : /\ Newest(o, r.phone, r.purpose)
                                  /\ now <= otp[o].at + OtpTtl
                                  /\ otp[o].attempts < MaxAttempts}
    IN
    /\ r.pc = "verify"
    /\ \E o \in IF usable = {} THEN {NoOtp} ELSE usable : ReadCode(q, o, right)
    /\ UNCHANGED <<tables, now, epoch, born, accepted, lost, rotated, tokenRivals,
                   escaped, kept, broken>>

\* The code is read: none, expired or tried too often ends the request.
VerifyOtp(q, right) ==
    LET r == req[q]
        usable == {o \in OtpIds : /\ Newest(o, r.phone, r.purpose)
                                  /\ now <= otp[o].at + OtpTtl
                                  /\ otp[o].attempts < MaxAttempts}
    IN
    /\ r.pc = "verify"
    /\ \/ usable = {} /\ Finish(q) /\ UNCHANGED <<codeRivals, tried>>
       \/ \E o \in usable : ReadCode(q, o, right)
    /\ UNCHANGED <<tables, now, epoch, born, accepted, lost, rotated, tokenRivals,
                   escaped, kept, broken>>

WrongCodeUncounted(q) ==            \* mutant: the attempt is not counted
    /\ req[q].pc = "wrong"
    /\ Finish(q)
    /\ UNCHANGED <<tables, now, epoch, born, tried, accepted, lost, rotated,
                   codeRivals, tokenRivals, escaped, kept, broken>>

WrongCode(q) ==
    /\ req[q].pc = "wrong"
    /\ otp' = [otp EXCEPT ![req[q].otp].attempts = @ + 1]
    /\ Finish(q)
    /\ UNCHANGED <<user, email, named, wallets, loyalty, token, now,
                   epoch, born, tried, accepted, lost, rotated, codeRivals, tokenRivals, escaped, kept, broken>>

AfterCode == [REGISTER |-> "exists", LOGIN |-> "issue", RESET_PASSWORD |-> "password"]

ConsumeOtpLater(q) ==               \* mutant: consumedAt is not written
    /\ req[q].pc = "consume"
    /\ accepted[req[q].otp] < 2
    /\ accepted' = [accepted EXCEPT ![req[q].otp] = @ + 1]
    /\ req' = [req EXCEPT ![q].pc = AfterCode[req[q].purpose], ![q].otp = NoOtp]
    /\ UNCHANGED <<tables, now, epoch, born, tried, lost, rotated, codeRivals, tokenRivals, overtaken, escaped, kept, broken>>

ConsumeOtp(q) ==
    /\ req[q].pc = "consume"
    /\ otp' = [otp EXCEPT ![req[q].otp].used = TRUE]
    /\ accepted' = [accepted EXCEPT ![req[q].otp] = @ + 1]
    /\ req' = [req EXCEPT ![q].pc = AfterCode[req[q].purpose], ![q].otp = NoOtp]
    /\ UNCHANGED <<user, email, named, wallets, loyalty, token, now,
                   epoch, born, tried, lost, rotated, codeRivals, tokenRivals, overtaken, escaped, kept, broken>>

---------------------------------------------------------------------------
(* verifyRegisterAndCreateUser, after its code *)

\* The second look at the account ...
CheckNew(q) ==
    /\ req[q].pc = "exists"
    /\ IF user[req[q].phone] = "NONE" THEN Goto(q, "create") /\ UNCHANGED overtaken
                                      ELSE Finish(q)
    /\ UNCHANGED <<tables, now, epoch, born, tried, accepted, lost, rotated, codeRivals, tokenRivals, escaped, kept, broken>>

\* ... and the create, which the unique index on phone refuses to the second.
CreateUser(q) ==
    LET p == req[q].phone IN
    /\ req[q].pc = "create"
    /\ IF user[p] = "NONE"
       THEN /\ user' = [user EXCEPT ![p] = "ACTIVE"]
            /\ named' = named \cup {p}
            /\ Goto(q, "wallet") /\ UNCHANGED overtaken
       ELSE Finish(q) /\ UNCHANGED <<user, named>>
    /\ UNCHANGED <<email, wallets, loyalty, otp, token, now,
                   epoch, born, tried, accepted, lost, rotated, codeRivals, tokenRivals, escaped, kept, broken>>

CreateWallet(q) ==
    /\ req[q].pc = "wallet"
    /\ wallets' = wallets \cup {req[q].phone}
    /\ Goto(q, "loyalty")
    /\ UNCHANGED <<user, email, named, loyalty, otp, token, now, history>>

CreateLoyaltyLater(q) ==            \* mutant: the step is skipped
    /\ req[q].pc = "loyalty"
    /\ Goto(q, "issue")
    /\ UNCHANGED <<tables, now, history>>

CreateLoyalty(q) ==
    /\ req[q].pc = "loyalty"
    /\ loyalty' = loyalty \cup {req[q].phone}
    /\ Goto(q, "issue")
    /\ UNCHANGED <<user, email, named, wallets, otp, token, now, history>>

---------------------------------------------------------------------------
(* Tokens *)

\* The password given is the one of the account that was read.
LoginWithPassword(q, p) ==
    /\ user[p] = "ACTIVE"
    /\ Begin(q, "issue", p)
    /\ UNCHANGED <<tables, now, history>>

IssueTokenPair(q, t) ==
    LET r == req[q] IN
    /\ r.pc = "issue"
    /\ token[t].phone = NoPhone
    /\ token' = [token EXCEPT ![t] = [phone |-> r.phone, at |-> now, revoked |-> FALSE]]
    /\ born' = [born EXCEPT ![t] = r.epoch]
    /\ escaped' = IF q \in overtaken \/ r.tok \in escaped THEN escaped \cup {t} ELSE escaped
    /\ Finish(q)
    /\ UNCHANGED <<user, email, named, wallets, loyalty, otp, now,
                   epoch, tried, accepted, lost, rotated, codeRivals, tokenRivals, kept, broken>>

RefreshTokensUnchecked(q, t) ==     \* mutant: revokedAt is not looked at
    /\ req[q].pc = "idle"
    /\ token[t].phone # NoPhone /\ rotated[t] < 2
    /\ now <= token[t].at + RefreshTtl
    /\ req' = [req EXCEPT ![q] = [Idle EXCEPT !.pc = "owner", !.phone = token[t].phone,
                                              !.tok = t, !.epoch = born[t]]]
    /\ tokenRivals' = IF \E s \in Requests : req[s].pc \in {"owner", "rotate"} /\ req[s].tok = t
                      THEN [tokenRivals EXCEPT ![t] = @ + 1] ELSE tokenRivals
    /\ UNCHANGED <<tables, now, epoch, born, tried, accepted, lost, rotated, codeRivals,
                   overtaken, escaped, kept, broken>>

\* refreshTokens reads the token, which is neither revoked nor expired,
RefreshTokens(q, t) ==
    /\ req[q].pc = "idle"
    /\ token[t].phone # NoPhone /\ ~token[t].revoked
    /\ now <= token[t].at + RefreshTtl
    /\ req' = [req EXCEPT ![q] = [Idle EXCEPT !.pc = "owner", !.phone = token[t].phone,
                                              !.tok = t, !.epoch = born[t]]]
    /\ tokenRivals' = IF \E s \in Requests : req[s].pc \in {"owner", "rotate"} /\ req[s].tok = t
                      THEN [tokenRivals EXCEPT ![t] = @ + 1] ELSE tokenRivals
    /\ UNCHANGED <<tables, now, epoch, born, tried, accepted, lost, rotated, codeRivals,
                   overtaken, escaped, kept, broken>>

\* then its account,
ReadOwner(q) ==
    /\ req[q].pc = "owner"
    /\ IF user[req[q].phone] = "ACTIVE" THEN Goto(q, "rotate") /\ UNCHANGED overtaken
                                        ELSE Finish(q)
    /\ UNCHANGED <<tables, now, epoch, born, tried, accepted, lost, rotated, codeRivals, tokenRivals, escaped, kept, broken>>

\* and revokes it, whatever has become of it meanwhile.
Rotate(q) ==
    /\ req[q].pc = "rotate"
    /\ token' = [token EXCEPT ![req[q].tok].revoked = TRUE]
    /\ rotated' = [rotated EXCEPT ![req[q].tok] = @ + 1]
    /\ Goto(q, "issue")
    /\ UNCHANGED <<user, email, named, wallets, loyalty, otp, now,
                   epoch, born, tried, accepted, lost, codeRivals, tokenRivals, overtaken, escaped, kept, broken>>

\* logout with a refresh token.
Logout(t) ==
    /\ token[t].phone # NoPhone /\ ~token[t].revoked
    /\ token' = [token EXCEPT ![t].revoked = TRUE]
    /\ UNCHANGED <<user, email, named, wallets, loyalty, otp, now, req, history>>

\* revokeSession by the owner of a token, whose account is ACTIVE.
RevokeSession(t) ==
    /\ token[t].phone # NoPhone /\ user[token[t].phone] = "ACTIVE"
    /\ token' = [token EXCEPT ![t].revoked = TRUE]
    /\ UNCHANGED <<user, email, named, wallets, loyalty, otp, now, req, history>>

---------------------------------------------------------------------------
(* resetPassword, after its code; requests behind JwtStrategy.validate *)

SetPassword(q) ==
    /\ req[q].pc = "password"
    /\ epoch' = [epoch EXCEPT ![req[q].phone] = @ + 1]
    /\ Goto(q, "revoke")
    /\ UNCHANGED <<tables, now, born, tried, accepted, lost, rotated, codeRivals, tokenRivals, overtaken, escaped, kept, broken>>

RevokeExpired(q) ==                 \* mutant: only tokens that have expired
    LET p == req[q].phone IN
    /\ req[q].pc = "revoke"
    /\ token' = [t \in TokenIds |->
                   IF token[t].phone = p /\ now > token[t].at + RefreshTtl
                   THEN [token[t] EXCEPT !.revoked = TRUE] ELSE token[t]]
    /\ req' = [req EXCEPT ![q] = Done]
    /\ overtaken' = (overtaken \cup {s \in Requests : req[s].phone = p}) \ {q}
    /\ UNCHANGED <<user, email, named, wallets, loyalty, otp, now,
                   epoch, born, tried, accepted, lost, rotated, codeRivals, tokenRivals, escaped, kept, broken>>

\* All sessions of the account are revoked: the second write of resetPassword
\* and of requestAccountDeletion.
RevokeAll(q) ==
    LET p == req[q].phone IN
    /\ req[q].pc = "revoke"
    /\ token' = [t \in TokenIds |-> IF token[t].phone = p THEN [token[t] EXCEPT !.revoked = TRUE]
                                                          ELSE token[t]]
    /\ req' = [req EXCEPT ![q] = Done]
    /\ overtaken' = (overtaken \cup {s \in Requests : req[s].phone = p}) \ {q}
    /\ UNCHANGED <<user, email, named, wallets, loyalty, otp, now,
                   epoch, born, tried, accepted, lost, rotated, codeRivals, tokenRivals, escaped, kept, broken>>

\* JwtStrategy.validate: the account behind the access token is ACTIVE.
RequestAccountDeletion(q, p) ==
    /\ user[p] = "ACTIVE"
    /\ Begin(q, "delete", p)
    /\ UNCHANGED <<tables, now, history>>

\* Of the row, the status and the address are written; name and picture are not.
DeleteAccount(q) ==
    LET p == req[q].phone IN
    /\ req[q].pc = "delete"
    /\ user' = [user EXCEPT ![p] = "DELETED"]
    /\ email' = [email EXCEPT ![p] = NoEmail]
    /\ epoch' = [epoch EXCEPT ![p] = @ + 1]
    /\ overtaken' = (overtaken \cup {s \in Requests : req[s].phone = p}) \ {q}
    /\ Goto(q, "revoke")
    /\ UNCHANGED <<named, wallets, loyalty, otp, token, now,
                   born, tried, accepted, lost, rotated, codeRivals, tokenRivals, escaped, kept, broken>>

\* Nobody else has the address; one that is not given is not looked for.
AddressFree(p, e) == e = NoEmail \/ \A x \in Phones \ {p} : email[x] # e

UpdateProfileUnguarded(q, p, e) ==  \* mutant: the account's status is not looked at
    /\ AddressFree(p, e)
    /\ req[q].pc = "idle"
    /\ req' = [req EXCEPT ![q] = [Idle EXCEPT !.pc = "profile", !.phone = p, !.email = e]]
    /\ UNCHANGED <<tables, now, history>>

\* updateProfile looks for the address, if one is given, ...
UpdateProfile(q, p, e) ==
    /\ user[p] = "ACTIVE"
    /\ AddressFree(p, e)
    /\ req[q].pc = "idle"
    /\ req' = [req EXCEPT ![q] = [Idle EXCEPT !.pc = "profile", !.phone = p, !.email = e]]
    /\ UNCHANGED <<tables, now, history>>

\* ... and writes what is given of name, address and picture, where the unique
\* index sees to it that nobody took the address meanwhile.
WriteProfile(q) ==
    LET r == req[q] IN
    /\ r.pc = "profile"
    /\ IF AddressFree(r.phone, r.email)
       THEN /\ email' = IF r.email = NoEmail THEN email ELSE [email EXCEPT ![r.phone] = r.email]
            /\ named' = named \cup {r.phone}
       ELSE UNCHANGED <<email, named>>
    /\ kept' = IF q \in overtaken THEN kept \cup {r.phone} ELSE kept
    /\ Finish(q)
    /\ UNCHANGED <<user, wallets, loyalty, otp, token, now,
                   epoch, born, tried, accepted, lost, rotated, codeRivals, tokenRivals, escaped, broken>>

\* A handler fails: nothing rolls back what it has already written.
Fail(q) ==
    /\ req[q].pc \notin {"idle", "done"}
    /\ Finish(q)
    /\ broken' = IF req[q].pc \in {"wallet", "loyalty", "revoke"}
                 THEN broken \cup {req[q].phone} ELSE broken
    /\ lost' = [o \in OtpIds |-> IF req[q].otp = o THEN lost[o] + 1 ELSE lost[o]]
    /\ UNCHANGED <<tables, now, epoch, born, tried, accepted, rotated, codeRivals, tokenRivals, escaped, kept>>

Tick ==
    /\ now < Horizon
    /\ now' = now + 1
    /\ UNCHANGED <<tables, req, history>>

Next ==
    \/ \E q \in Requests :
         \/ \E p \in Phones :
              \/ \E purpose \in Purposes : RequestOtp(q, p, purpose) \/ BeginVerify(q, p, purpose)
              \/ LoginWithPassword(q, p) \/ RequestAccountDeletion(q, p)
              \/ \E e \in Emails \cup {NoEmail} : UpdateProfile(q, p, e)
         \/ \E t \in TokenIds : IssueTokenPair(q, t) \/ RefreshTokens(q, t)
         \/ \E o \in OtpIds : CreateOtp(q, o)
         \/ \E right \in BOOLEAN : VerifyOtp(q, right)
         \/ CheckCooldown(q) \/ WrongCode(q) \/ ConsumeOtp(q)
         \/ CheckNew(q) \/ CreateUser(q) \/ CreateWallet(q) \/ CreateLoyalty(q)
         \/ ReadOwner(q) \/ Rotate(q) \/ SetPassword(q) \/ RevokeAll(q)
         \/ DeleteAccount(q) \/ WriteProfile(q)
         \/ Fail(q)
    \/ \E t \in TokenIds : Logout(t) \/ RevokeSession(t)
    \/ Tick

Spec == Init /\ [][Next]_vars

---------------------------------------------------------------------------
(* Properties *)

PCs == {"idle", "done", "recent", "send", "verify", "wrong", "consume", "exists", "create",
        "wallet", "loyalty", "issue", "owner", "rotate", "password", "revoke", "delete",
        "profile"}

OtpRows == [phone : Phones \cup {NoPhone}, purpose : Purposes \cup {"NONE"}, at : 0..Horizon,
            attempts : Nat, used : BOOLEAN]
TokenRows == [phone : Phones \cup {NoPhone}, at : 0..Horizon, revoked : BOOLEAN]
Locals == [pc : PCs, phone : Phones \cup {NoPhone}, purpose : Purposes \cup {"NONE"},
           otp : OtpIds \cup {NoOtp}, tok : TokenIds \cup {NoToken},
           email : Emails \cup {NoEmail}, epoch : Nat]

\* Types; and a handler that is about to write a code has found one.
TypeOK ==
    /\ user \in [Phones -> {"NONE", "ACTIVE", "DELETED"}]
    /\ email \in [Phones -> Emails \cup {NoEmail}]
    /\ named \subseteq Phones /\ wallets \subseteq Phones /\ loyalty \subseteq Phones
    /\ otp \in [OtpIds -> OtpRows] /\ token \in [TokenIds -> TokenRows]
    /\ now \in 0..Horizon
    /\ req \in [Requests -> Locals]
    /\ \A q \in Requests : req[q].pc \in {"wrong", "consume"} => req[q].otp \in OtpIds
    /\ epoch \in [Phones -> Nat] /\ born \in [TokenIds -> Nat]
    /\ tried \in [OtpIds -> Nat] /\ accepted \in [OtpIds -> Nat] /\ lost \in [OtpIds -> Nat]
    /\ rotated \in [TokenIds -> Nat]
    /\ codeRivals \in [OtpIds -> Nat] /\ tokenRivals \in [TokenIds -> Nat]
    /\ overtaken \subseteq Requests /\ escaped \subseteq TokenIds
    /\ kept \subseteq Phones /\ broken \subseteq Phones

\* A code is accepted once, as the comment on verifyOtp says, and once more for
\* every verification that read it while another was about to write it.
CodeUsedOnce == \A o \in OtpIds : accepted[o] <= 1 + codeRivals[o]

\* What is sent in is compared with a code MAX_VERIFY_ATTEMPTS times at most, and
\* once more for every verification that read it while another was about to write
\* it, and for every one that failed between the comparison and its write
\* (verifyOtp compares first and counts later).
AttemptsBounded ==
    \A o \in OtpIds : tried[o] <= MaxAttempts + codeRivals[o] + lost[o]

\* A refresh token is exchanged for a new pair once, and once more for every
\* refresh that read it while another was about to revoke it (refreshTokens).
RotatedOnce == \A t \in TokenIds : rotated[t] <= 1 + tokenRivals[t]

\* Once a password is reset or an account deleted, no session that goes back to
\* earlier credentials stays open (resetPassword, requestAccountDeletion), except
\* one that a handler opened which was under way at the time, until the second
\* write is made, and if it never is.
NoSurvivors ==
    \A t \in TokenIds :
      LET p == token[t].phone IN
      p # NoPhone /\ ~token[t].revoked /\ born[t] < epoch[p] =>
        \/ t \in escaped \/ p \in broken
        \/ \E q \in Requests : req[q].pc = "revoke" /\ req[q].phone = p

\* The address of a deleted account stays erased (requestAccountDeletion), unless
\* an updateProfile was under way when it was deleted.
EmailStaysErased ==
    \A p \in Phones \ kept : user[p] = "DELETED" => email[p] = NoEmail

\* What the comment on requestAccountDeletion says: of a deleted account only the
\* financial records are kept and what identifies the person is erased: name,
\* picture and address.  A profile that an overtaken updateProfile wrote is left out.
PersonalDataErased ==
    \A p \in Phones \ kept : user[p] = "DELETED" => email[p] = NoEmail /\ p \notin named

\* A registered account has its wallet and its loyalty account, or the handler
\* that registered it is still at work on them or failed in between
\* (verifyRegisterAndCreateUser).
RegistrationComplete ==
    \A p \in Phones \ broken :
      user[p] # "NONE" =>
        \/ p \in wallets \cap loyalty
        \/ \E q \in Requests : req[q].phone = p /\ req[q].pc \in {"wallet", "loyalty"}
===========================================================================
