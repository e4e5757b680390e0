----------------------------- MODULE Directory -----------------------------
(***************************************************************************)
(* Businesses and what they own: BusinessService, StaffService,            *)
(* BranchService, ServiceCatalogService and WorkingHoursService, behind    *)
(* BusinessRoleGuard, and loadAndValidateContext, with which a hold reads  *)
(* the directory while it changes.                                         *)
(*                                                                         *)
(* A request is handled once, in the steps between its awaits; a read of   *)
(* what never changes once written (who owns a branch, a service or a      *)
(* membership, its role; rows are not deleted) shares a step with the next *)
(* one.  A StaffMember is identified by its business and user, which are   *)
(* unique; a business has at most one branch and one service.  Names,      *)
(* documents and other free data are left out, and so is ServiceStaff      *)
(* (assignStaff), which a hold does not read: getFreeSlots does, for which *)
(* it is a constant of Availability (Assigned).                            *)
(***************************************************************************)
EXTENDS Integers, FiniteSets

CONSTANTS
    Requests, Users, Businesses, Policies,
    Admins,                     \* users of globalRole ADMIN, taken not to be members
    Founder,                    \* of the businesses that are there at first
    Branch,                     \* in the place of a member: the branch itself
    NoBusiness, NoUser

ASSUME DirectoryAssumption ==
    /\ NoBusiness \notin Businesses /\ NoUser \notin Users /\ Branch \notin Users
    /\ Admins \cap (Users \cup {NoUser}) = {} /\ Policies # {}
    /\ DOMAIN Founder \subseteq Businesses /\ \A b \in DOMAIN Founder : Founder[b] \in Users

VARIABLES
    business,   \* Business: status ("NONE": no row; "CLOSED": under review, rejected or
                \* suspended, which no change depends on), owner, cancellationPolicy
    member,     \* StaffMember: role ("NONE": no row) and isActive
    assets,     \* whether a business has its Branch and its Service
    hours,      \* WorkingHours: the PUTs that a target's rows come from
    holidays,   \* Holiday: the targets that have one
    booking,    \* what each hold booked
    req,        \* every request's place in its handler, and its locals
    \* History, read by no action:
    overtaken   \* requests under way when what they had read or checked changed

directory == <<business, member, assets, hours, holidays>>
vars      == <<directory, booking, req, overtaken>>

NoMember == [role |-> "NONE", isActive |-> FALSE]
Owner    == [role |-> "OWNER", isActive |-> TRUE]

NoPolicy == CHOOSE p \in Policies : TRUE
Unlisted == [status |-> "NONE", owner |-> NoUser, policy |-> NoPolicy]

\* Working hours and holidays are a member's or a branch's, and so is a booking.
Targets  == [business : Businesses, staff : Users \cup {Branch}]
NoTarget == [business |-> NoBusiness, staff |-> NoUser]

NoBooking == [target |-> NoTarget, policy |-> NoPolicy]

Idle == [pc |-> "idle", by |-> NoUser, business |-> NoBusiness, target |-> NoTarget,
         policy |-> NoPolicy, seen |-> {}]

Done == [Idle EXCEPT !.pc = "done"]

\* A directory with some approved businesses; some of the requests never come.
Init ==
    /\ business = [b \in Businesses |->
         IF b \in DOMAIN Founder
         THEN [status |-> "APPROVED", owner |-> Founder[b], policy |-> NoPolicy] ELSE Unlisted]
    /\ member = [b \in Businesses |-> [u \in Users |->
         IF b \in DOMAIN Founder /\ u = Founder[b] THEN Owner ELSE NoMember]]
    /\ assets = [b \in Businesses |->
         IF b \in DOMAIN Founder THEN {"branch", "service"} ELSE {}]
    /\ hours = [t \in Targets |-> {}] /\ holidays = {}
    /\ booking = [q \in Requests |-> NoBooking]
    /\ req \in [Requests -> {Idle, Done}]
    /\ overtaken = {}

Finish(q) == req' = [req EXCEPT ![q] = Done]

\* A check of a handler fails, and the request with it.
Reject(q) == Finish(q) /\ UNCHANGED <<directory, booking, overtaken>>

---------------------------------------------------------------------------
(* Businesses *)

\* create, with the owner's membership in the same transaction.
Create(q, u, b) ==
    /\ req[q].pc = "idle" /\ business[b].status = "NONE"
    /\ business' = [business EXCEPT ![b].status = "CLOSED", ![b].owner = u]
    /\ member' = [member EXCEPT ![b][u] = Owner]
    /\ Finish(q)
    /\ UNCHANGED <<assets, hours, holidays, booking, overtaken>>

\* Holds that have read business b.
Holding(b) == {q \in Requests : req[q].pc \in {"staff", "place"} /\ req[q].business = b}

\* approve, or reject and suspend, whatever the status was.
Review(b, status) ==
    /\ business[b].status # "NONE"
    /\ business' = [business EXCEPT ![b].status = status]
    /\ overtaken' = overtaken \cup Holding(b)
    /\ UNCHANGED <<member, assets, hours, holidays, booking, req>>

---------------------------------------------------------------------------
(* BusinessRoleGuard *)

Operations == {"policy", "asset", "invite", "deactivate", "hours", "holiday"}

\* What a request of business b names: who is invited, or what is to change,
\* which may be of another business.
Named(b, op) ==
    CASE op \in {"policy", "asset"} -> {NoTarget}
      [] op = "invite"              -> [business : {b}, staff : Users]
      [] op = "deactivate"          -> [business : Businesses, staff : Users]
      [] OTHER                      -> Targets

GuardRole(u, b, op) ==
    \/ u \in Admins
    \/ /\ u \in Users /\ member[b][u].isActive
       /\ member[b][u].role \in IF op = "policy" THEN {"OWNER"} ELSE {"OWNER", "MANAGER"}

GuardInactive(q, u, b, target, op) ==   \* mutant: isActive is not looked at
    /\ req[q].pc = "idle"
    /\ u \in Users /\ member[b][u].role \in {"OWNER", "MANAGER"}
    /\ req' = [req EXCEPT ![q] = [Idle EXCEPT !.pc = op, !.by = u, !.business = b,
                                               !.target = target]]
    /\ UNCHANGED <<directory, booking, overtaken>>

\* The caller's membership is read before the handler runs, and not again.
Guard(q, u, b, target, op) ==
    /\ req[q].pc = "idle"
    /\ GuardRole(u, b, op)
    /\ req' = [req EXCEPT ![q] = [Idle EXCEPT !.pc = op, !.by = u, !.business = b,
                                               !.target = target]]
    /\ UNCHANGED <<directory, booking, overtaken>>

---------------------------------------------------------------------------
(* Handlers behind the guard *)

UpdateCancellationPolicyPartly(q, policy) ==    \* mutant: a missing field clears it
    LET b == req[q].business IN
    /\ req[q].pc = "policy" /\ business[b].status # "NONE"
    /\ business' = [business EXCEPT ![b].policy = NoUser]
    /\ overtaken' = overtaken \cup Holding(b)
    /\ Finish(q)
    /\ UNCHANGED <<member, assets, hours, holidays, booking>>

UpdateCancellationPolicy(q, policy) ==
    LET b == req[q].business IN
    /\ req[q].pc = "policy" /\ business[b].status # "NONE"
    /\ business' = [business EXCEPT ![b].policy = policy]
    /\ overtaken' = overtaken \cup Holding(b)
    /\ Finish(q)
    /\ UNCHANGED <<member, assets, hours, holidays, booking>>

\* BranchService.create, ServiceCatalogService.create.
CreateAsset(q, asset) ==
    /\ req[q].pc = "asset" /\ business[req[q].business].status # "NONE"
    /\ assets' = [assets EXCEPT ![req[q].business] = @ \cup {asset}]
    /\ Finish(q)
    /\ UNCHANGED <<business, member, hours, holidays, booking, overtaken>>

\* The branch or member that a path and a body name is one of the business.
Belongs(q) ==
    LET b == req[q].business
        t == req[q].target
    IN
    /\ t.business = b
    /\ IF t.staff = Branch THEN "branch" \in assets[b] ELSE member[b][t.staff].role # "NONE"

\* invite: who is or was a member cannot be invited ...
CheckInvite(q) ==
    LET r == req[q] IN
    /\ r.pc = "invite"
    /\ IF member[r.business][r.target.staff].role = "NONE"
       THEN req' = [req EXCEPT ![q].pc = "add"] ELSE Finish(q)
    /\ UNCHANGED <<directory, booking, overtaken>>

\* ... and the insert fails for who has become one since.
AddMember(q, role) ==
    LET r == req[q] IN
    /\ r.pc = "add"
    /\ business[r.business].status # "NONE"
    /\ IF member[r.business][r.target.staff].role = "NONE"
       THEN member' = [member EXCEPT ![r.business][r.target.staff] =
                         [role |-> role, isActive |-> TRUE]]
       ELSE UNCHANGED member
    /\ Finish(q)
    /\ UNCHANGED <<business, assets, hours, holidays, booking, overtaken>>

Deactivate(q) ==
    LET r == req[q]
        u == r.target.staff
    IN
    /\ r.pc = "deactivate"
    /\ IF Belongs(q) /\ member[r.business][u].role # "OWNER"
       THEN /\ member' = [member EXCEPT ![r.business][u].isActive = FALSE]
            /\ overtaken' = overtaken \cup {s \in Requests :
                 /\ req[s].business = r.business
                 /\ \/ req[s].by = u
                    \/ req[s].pc = "place" /\ req[s].target.staff = u}
       ELSE UNCHANGED <<member, overtaken>>
    /\ Finish(q)
    /\ UNCHANGED <<business, assets, hours, holidays, booking>>

AddHoliday(q) ==
    /\ req[q].pc = "holiday"
    /\ holidays' = IF Belongs(q) THEN holidays \cup {req[q].target} ELSE holidays
    /\ Finish(q)
    /\ UNCHANGED <<business, member, assets, hours, booking, overtaken>>

DeleteHoursNone(q) ==                   \* mutant: no deleteMany
    /\ req[q].pc = "hours"
    /\ IF Belongs(q) THEN req' = [req EXCEPT ![q].pc = "insert"] ELSE Finish(q)
    /\ UNCHANGED <<directory, booking, overtaken>>

\* setWorkingHours: the transaction deletes the rows it sees ...
DeleteHours(q) ==
    /\ req[q].pc = "hours"
    /\ IF Belongs(q)
       THEN req' = [req EXCEPT ![q].pc = "insert", ![q].seen = hours[req[q].target]]
       ELSE Finish(q)
    /\ UNCHANGED <<directory, booking, overtaken>>

\* ... and inserts its own.  (A PUT that deletes rows another one is deleting
\* waits for it: this only orders their commits.)
InsertHours(q) ==
    LET t == req[q].target IN
    /\ req[q].pc = "insert"
    /\ hours' = [hours EXCEPT ![t] = (@ \ req[q].seen) \cup {q}]
    /\ overtaken' = overtaken \cup
         {s \in Requests \ {q} : req[s].pc = "insert" /\ req[s].target = t}
    /\ Finish(q)
    /\ UNCHANGED <<business, member, assets, holidays, booking>>

---------------------------------------------------------------------------
(* hold: loadAndValidateContext, then the booking *)

ReadContextListed(q, b, target) ==      \* mutant: the status is not looked at
    /\ req[q].pc = "idle"
    /\ business[b].status # "NONE"
    /\ {"branch", "service"} \subseteq assets[b]
    /\ target.staff = Branch => target.business = b
    /\ req' = [req EXCEPT ![q] = [Idle EXCEPT !.pc = IF target.staff = Branch THEN "place" ELSE "staff",
                 !.business = b, !.target = target, !.policy = business[b].policy]]
    /\ UNCHANGED <<directory, booking, overtaken>>

ReadContext(q, b, target) ==
    /\ req[q].pc = "idle"
    /\ business[b].status = "APPROVED"
    /\ {"branch", "service"} \subseteq assets[b]
    /\ target.staff = Branch => target.business = b
    /\ req' = [req EXCEPT ![q] = [Idle EXCEPT !.pc = IF target.staff = Branch THEN "place" ELSE "staff",
                 !.business = b, !.target = target, !.policy = business[b].policy]]
    /\ UNCHANGED <<directory, booking, overtaken>>

ReadStaff(q) ==
    LET t == req[q].target IN
    /\ req[q].pc = "staff"
    /\ IF t.business = req[q].business /\ member[t.business][t.staff].isActive
       THEN req' = [req EXCEPT ![q].pc = "place"] ELSE Finish(q)
    /\ UNCHANGED <<directory, booking, overtaken>>

\* The booking is made of what was read, with a snapshot of the policy.
Place(q) ==
    /\ req[q].pc = "place"
    /\ booking' = [booking EXCEPT ![q] = [target |-> req[q].target, policy |-> req[q].policy]]
    /\ Finish(q)
    /\ UNCHANGED <<directory, overtaken>>

Fail(q) == req[q].pc \notin {"idle", "done"} /\ Reject(q)

Next ==
    \/ \E b \in Businesses, status \in {"APPROVED", "CLOSED"} : Review(b, status)
    \/ \E q \in Requests :
         \/ \E b \in Businesses, u \in Users : Create(q, u, b)
         \/ \E b \in Businesses, u \in Users \cup Admins, op \in Operations :
              \E t \in Named(b, op) : Guard(q, u, b, t, op)
         \/ \E b \in Businesses, t \in Targets : ReadContext(q, b, t)
         \/ \E policy \in Policies : UpdateCancellationPolicy(q, policy)
         \/ \E asset \in {"branch", "service"} : CreateAsset(q, asset)
         \/ \E role \in {"MANAGER", "STAFF"} : AddMember(q, role)
         \/ CheckInvite(q) \/ Deactivate(q) \/ AddHoliday(q)
         \/ DeleteHours(q) \/ InsertHours(q)
         \/ ReadStaff(q) \/ Place(q) \/ Fail(q)

Spec == Init /\ [][Next]_vars

---------------------------------------------------------------------------
(* Properties *)

TypeOK ==
    /\ business \in [Businesses -> [status : {"NONE", "CLOSED", "APPROVED"},
                                 owner : Users \cup {NoUser}, policy : Policies]]
    /\ member \in [Businesses -> [Users -> [role : {"NONE", "OWNER", "MANAGER", "STAFF"},
                                            isActive : BOOLEAN]]]
    /\ assets \in [Businesses -> SUBSET {"branch", "service"}]
    /\ hours \in [Targets -> SUBSET Requests] /\ holidays \subseteq Targets
    /\ booking \in [Requests -> [target : Targets \cup {NoTarget}, policy : Policies]]
    /\ req \in [Requests -> [pc : Operations \cup {"idle", "done", "add", "insert", "staff", "place"},
                             by : Users \cup Admins \cup {NoUser}, business : Businesses \cup {NoBusiness},
                             target : Targets \cup {NoTarget}, policy : Policies,
                             seen : SUBSET Requests]]
    /\ overtaken \subseteq Requests

\* "PUT means complete replacement" (setWorkingHours): a target has the hours of
\* one PUT, unless another one committed between this one's delete and insert.
HoursFromOnePut ==
    \A t \in Targets : Cardinality(hours[t]) > 1 => hours[t] \cap overtaken # {}

\* Only who is an active owner or manager, or an administrator, changes a
\* business, or who has been deactivated since the guard let the request in; and
\* nobody takes a business from its owner ("so that no business is ever without
\* an active owner", create).
OnlyMembersManage ==
    [][/\ \A q \in Requests :
            req[q].by # NoUser /\ req'[q].pc = "done" /\ directory' # directory =>
              \/ q \in overtaken
              \/ GuardRole(req[q].by, req[q].business, req[q].pc)
       /\ \A b \in Businesses : business'[b].status # "NONE" =>
            member'[b][business'[b].owner] = Owner]_vars

\* What is booked is an approved business and an active member of it, under the
\* policy in force, unless, after loadAndValidateContext read the business, that
\* business was reviewed or its policy written, if only to what they were, or the
\* member was deactivated.
BookedInContext ==
    [][\A q \in Requests : booking'[q] # booking[q] /\ q \notin overtaken =>
         LET t == booking'[q].target IN
         /\ business[t.business].status = "APPROVED"
         /\ business[t.business].policy = booking'[q].policy
         /\ t.staff # Branch => member[t.business][t.staff].isActive]_vars
===========================================================================
