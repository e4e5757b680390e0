-------------------------- MODULE DirectoryProofs --------------------------
(***************************************************************************)
(* What Directory promises, for any number of requests, users, businesses  *)
(* and policies.                                                           *)
(*                                                                         *)
(* The invariant says what a request that has not been overtaken may still *)
(* rely on: its caller's role, the business and the member that it has     *)
(* read, the rows that it is replacing.  Every action that changes one of  *)
(* them adds the requests that rely on it to overtaken, and a request that *)
(* is not among them changes the directory, or books, in the state that it *)
(* has read.                                                               *)
(***************************************************************************)
EXTENDS Directory, FiniteSetTheorems, TLAPS

PCs == Operations \cup {"idle", "done", "add", "insert", "staff", "place"}

RequestRows ==
    [pc : PCs, by : Users \cup Admins \cup {NoUser}, business : Businesses \cup {NoBusiness},
     target : Targets \cup {NoTarget}, policy : Policies, seen : SUBSET Requests]

\* What a request names is there to be looked up, and only the handlers behind
\* the guard have a caller.
Fits(r) ==
    /\ r \in RequestRows
    /\ r.by # NoUser => r.pc \in Operations \cup {"add", "insert"}
    /\ r.pc \notin {"idle", "done"} => r.business \in Businesses
    /\ r.pc \in {"invite", "add", "deactivate"} =>
         r.target \in Targets /\ r.target.staff \in Users
    /\ r.pc \in {"hours", "holiday", "insert", "staff", "place"} => r.target \in Targets
    /\ r.pc = "staff" => r.target.staff # Branch

Shape == TypeOK /\ \A q \in Requests : Fits(req[q])

\* A business has an active owner.
Owned ==
    \A b \in Businesses : business[b].status # "NONE" =>
      business[b].owner \in Users /\ member[b][business[b].owner] = Owner

\* The role that the guard read is still the caller's.
Guarded ==
    \A q \in Requests : req[q].by # NoUser /\ q \notin overtaken =>
      GuardRole(req[q].by, req[q].business, req[q].pc)

\* What loadAndValidateContext has read is still so.
Current(r) ==
    /\ r.pc \in {"staff", "place"} =>
         /\ business[r.business].status = "APPROVED"
         /\ business[r.business].policy = r.policy
    /\ r.pc = "place" =>
         /\ r.target.business = r.business
         /\ r.target.staff # Branch => member[r.business][r.target.staff].isActive

InContext == \A q \in Requests : q \notin overtaken => Current(req[q])

\* The rows that a PUT has deleted are all that there were.
Replacing ==
    \A q \in Requests : req[q].pc = "insert" /\ q \notin overtaken =>
      req[q].seen = hours[req[q].target]

IInv == Shape /\ Owned /\ Guarded /\ InContext /\ Replacing /\ HoursFromOnePut

---------------------------------------------------------------------------
(* Requests *)

LEMMA PolicyThere == NoPolicy \in Policies
  BY DirectoryAssumption DEF NoPolicy

LEMMA NoTargetApart == NoTarget \notin Targets
  BY DirectoryAssumption DEF NoTarget, Targets

LEMMA IdleFits ==
    /\ Idle \in RequestRows /\ Done \in RequestRows
    /\ Fits(Idle) /\ Fits(Done)
    /\ Idle.by = NoUser /\ Done.by = NoUser /\ Idle.pc = "idle" /\ Done.pc = "done"
  <1>1. Idle \in RequestRows /\ Idle.by = NoUser /\ Idle.pc = "idle"
    BY PolicyThere DEF Idle, RequestRows, PCs
  <1>2. Done \in RequestRows /\ Done.by = NoUser /\ Done.pc = "done"
    BY <1>1, PolicyThere DEF Done, Idle, RequestRows, PCs
  <1> QED BY <1>1, <1>2 DEF Fits

\* One request takes a step, to r, and the others do not.
Moved(q, r) ==
    /\ req'[q] = r
    /\ \A s \in Requests \ {q} : req'[s] = req[s]
    /\ req' \in [Requests -> RequestRows]

LEMMA OneMoves ==
    ASSUME Shape, NEW q \in Requests, NEW r, r \in RequestRows,
           req' = [req EXCEPT ![q] = r]
    PROVE  Moved(q, r)
  <1>1. req \in [Requests -> RequestRows]
    BY DEF Shape, TypeOK, RequestRows, PCs
  <1> QED BY <1>1 DEF Moved

LEMMA FinishOne ==
    ASSUME Shape, NEW q \in Requests, Finish(q)
    PROVE  Moved(q, Done)
  BY OneMoves, IdleFits DEF Finish

LEMMA GuardMoves ==
    ASSUME Shape, NEW q \in Requests, NEW u \in Users \cup Admins, NEW b \in Businesses,
           NEW op \in Operations, NEW t \in Named(b, op), Guard(q, u, b, t, op)
    PROVE  \E r : /\ Fits(r) /\ Moved(q, r)
                  /\ r.pc = op /\ r.by = u /\ r.business = b
  <1> DEFINE r == [Idle EXCEPT !.pc = op, !.by = u, !.business = b, !.target = t]
  <1>1. t \in Targets \cup {NoTarget}
    BY DEF Named, Targets, Operations
  <1>2. Idle \in RequestRows
    BY IdleFits
  <1>3. r \in RequestRows /\ r.pc = op /\ r.by = u /\ r.business = b /\ r.target = t
    BY <1>1, <1>2 DEF RequestRows, PCs
  <1>4. req' = [req EXCEPT ![q] = r]
    BY DEF Guard
  <1> HIDE DEF r
  <1>5. op \in {"invite", "deactivate"} => t \in Targets /\ t.staff \in Users
    BY DEF Named, Targets
  <1>6. op \in {"hours", "holiday"} => t \in Targets
    BY DEF Named, Targets
  <1>7. Fits(r)
    BY <1>3, <1>5, <1>6 DEF Fits, Operations
  <1> QED BY <1>3, <1>4, <1>7, OneMoves

LEMMA CheckInviteMoves ==
    ASSUME Shape, NEW q \in Requests, CheckInvite(q)
    PROVE  \E r : /\ Fits(r) /\ Moved(q, r)
                  /\ \/ r = Done
                     \/ /\ r.pc = "add" /\ req[q].pc = "invite"
                        /\ r.by = req[q].by /\ r.business = req[q].business
  <1> DEFINE r == [req[q] EXCEPT !.pc = "add"]
  <1>1. req[q] \in RequestRows /\ Fits(req[q]) /\ req[q].pc = "invite"
    BY DEF Shape, Fits, CheckInvite
  <1>2. /\ r \in RequestRows /\ r.pc = "add" /\ r.by = req[q].by
        /\ r.business = req[q].business /\ r.target = req[q].target
    BY <1>1 DEF RequestRows, PCs
  <1>3. req' = [req EXCEPT ![q] = r] \/ Finish(q)
    BY DEF CheckInvite
  <1> HIDE DEF r
  <1>4. Fits(r)
    BY <1>1, <1>2 DEF Fits
  <1>5. CASE req' = [req EXCEPT ![q] = r]
    BY <1>1, <1>2, <1>4, <1>5, OneMoves
  <1>6. CASE Finish(q)
    BY <1>6, FinishOne, IdleFits
  <1> QED BY <1>3, <1>5, <1>6

LEMMA DeleteHoursMoves ==
    ASSUME Shape, NEW q \in Requests, DeleteHours(q)
    PROVE  \E r : /\ Fits(r) /\ Moved(q, r)
                  /\ \/ r = Done
                     \/ /\ r.pc = "insert" /\ req[q].pc = "hours"
                        /\ r.by = req[q].by /\ r.business = req[q].business
                        /\ r.target \in Targets /\ r.seen = hours[r.target]
  <1> DEFINE r == [req[q] EXCEPT !.pc = "insert", !.seen = hours[req[q].target]]
  <1>1. req[q] \in RequestRows /\ Fits(req[q]) /\ req[q].pc = "hours"
    BY DEF Shape, Fits, DeleteHours
  <1>2. req[q].target \in Targets /\ hours[req[q].target] \in SUBSET Requests
    BY <1>1 DEF Fits, Shape, TypeOK
  <1>3. /\ r \in RequestRows /\ r.pc = "insert" /\ r.by = req[q].by
        /\ r.business = req[q].business /\ r.target = req[q].target
        /\ r.seen = hours[req[q].target]
    BY <1>1, <1>2 DEF RequestRows, PCs
  <1>4. req' = [req EXCEPT ![q] = r] \/ Finish(q)
    BY DEF DeleteHours
  <1> HIDE DEF r
  <1>5. Fits(r)
    BY <1>1, <1>2, <1>3 DEF Fits
  <1>6. CASE req' = [req EXCEPT ![q] = r]
    BY <1>1, <1>2, <1>3, <1>5, <1>6, OneMoves
  <1>7. CASE Finish(q)
    BY <1>7, FinishOne, IdleFits
  <1> QED BY <1>4, <1>6, <1>7

LEMMA ReadContextMoves ==
    ASSUME Shape, NEW q \in Requests, NEW b \in Businesses, NEW t \in Targets,
           ReadContext(q, b, t)
    PROVE  \E r : /\ Fits(r) /\ Moved(q, r) /\ r.by = NoUser
                  /\ r.pc # "insert" /\ Current(r)
  <1> DEFINE pc == IF t.staff = Branch THEN "place" ELSE "staff"
             r == [Idle EXCEPT !.pc = pc, !.business = b, !.target = t,
                               !.policy = business[b].policy]
  <1>1. pc \in {"place", "staff"}
    OBVIOUS
  <1>2. business[b].policy \in Policies
    BY DEF Shape, TypeOK
  <1>3. Idle \in RequestRows /\ Idle.by = NoUser
    BY IdleFits
  <1>4. /\ r.pc = pc /\ r.by = NoUser /\ r.business = b /\ r.target = t
        /\ r.policy = business[b].policy
    BY <1>3 DEF RequestRows
  <1>5. r \in RequestRows
    BY <1>1, <1>2, <1>3 DEF RequestRows, PCs
  <1>6. req' = [req EXCEPT ![q] = r]
    BY DEF ReadContext
  <1>7. /\ business[b].status = "APPROVED"
        /\ t.staff = Branch => t.business = b
    BY DEF ReadContext
  <1>8. pc = "place" => t.staff = Branch
    OBVIOUS
  <1>9. pc = "staff" => t.staff # Branch
    OBVIOUS
  <1> HIDE DEF r, pc
  <1>10. Fits(r)
    BY <1>1, <1>4, <1>5, <1>9 DEF Fits
  <1>11. Current(r)
    BY <1>1, <1>4, <1>7, <1>8 DEF Current
  <1> QED BY <1>1, <1>4, <1>5, <1>6, <1>10, <1>11, OneMoves

LEMMA ReadStaffMoves ==
    ASSUME Shape, NEW q \in Requests, ReadStaff(q)
    PROVE  \E r : /\ Fits(r) /\ Moved(q, r)
                  /\ r.by = NoUser /\ r.pc # "insert"
                  /\ Current(req[q]) => Current(r)
  <1> DEFINE r == [req[q] EXCEPT !.pc = "place"]
  <1>1. req[q] \in RequestRows /\ Fits(req[q]) /\ req[q].pc = "staff"
    BY DEF Shape, Fits, ReadStaff
  <1>2. /\ r \in RequestRows /\ r.pc = "place" /\ r.by = req[q].by
        /\ r.business = req[q].business /\ r.target = req[q].target
        /\ r.policy = req[q].policy
    BY <1>1 DEF RequestRows, PCs
  <1>3. \/ /\ req' = [req EXCEPT ![q] = r]
           /\ req[q].target.business = req[q].business
           /\ member[req[q].business][req[q].target.staff].isActive
        \/ Finish(q)
    BY DEF ReadStaff
  <1> HIDE DEF r
  <1>4. req[q].by = NoUser
    BY <1>1 DEF Fits, Operations
  <1>5. Fits(r)
    BY <1>1, <1>2, <1>4 DEF Fits
  <1>6. CASE /\ req' = [req EXCEPT ![q] = r]
             /\ req[q].target.business = req[q].business
             /\ member[req[q].business][req[q].target.staff].isActive
    <2>1. Current(req[q]) => Current(r)
      BY <1>1, <1>2, <1>6 DEF Current
    <2> QED BY <1>2, <1>4, <1>5, <1>6, <2>1, OneMoves
  <1>7. CASE Finish(q)
    <2>1. Current(Done)
      BY IdleFits DEF Current
    <2> QED BY <1>7, <2>1, FinishOne, IdleFits
  <1> QED BY <1>3, <1>6, <1>7

---------------------------------------------------------------------------
(* What the actions do to the directory *)

BusinessRows == [status : {"NONE", "CLOSED", "APPROVED"}, owner : Users \cup {NoUser},
                 policy : Policies]

MemberRows == [role : {"NONE", "OWNER", "MANAGER", "STAFF"}, isActive : BOOLEAN]

\* The directory, the bookings and the history have their types.
Typed ==
    /\ business \in [Businesses -> BusinessRows]
    /\ member \in [Businesses -> [Users -> MemberRows]]
    /\ assets \in [Businesses -> SUBSET {"branch", "service"}]
    /\ hours \in [Targets -> SUBSET Requests] /\ holidays \subseteq Targets
    /\ booking \in [Requests -> [target : Targets \cup {NoTarget}, policy : Policies]]
    /\ overtaken \subseteq Requests

LEMMA ShapeTyped == Shape => Typed
  BY DEF Shape, TypeOK, Typed, BusinessRows, MemberRows

\* No role is lost, and who is active stays so.
RolesKept ==
    \A b \in Businesses, u \in Users :
      \/ member'[b][u] = member[b][u]
      \/ member'[b][u] = Owner
      \/ member[b][u].role = "NONE" /\ member'[b][u].isActive

\* An approved business does not change.
ApprovedKept ==
    \A b \in Businesses : business[b].status = "APPROVED" => business'[b] = business[b]

LEMMA RowTypes ==
    ASSUME Shape
    PROVE  /\ \A b \in Businesses : business[b] \in BusinessRows
           /\ \A b \in Businesses, u \in Users : member[b][u] \in MemberRows
  BY DEF Shape, TypeOK, BusinessRows, MemberRows

LEMMA OwnerRow == Owner \in MemberRows /\ Owner.role = "OWNER" /\ Owner.isActive = TRUE
  BY DEF Owner, MemberRows

LEMMA CreateRows ==
    ASSUME Shape, NEW q \in Requests, NEW u \in Users, NEW b \in Businesses, Create(q, u, b)
    PROVE  /\ Typed' /\ RolesKept /\ ApprovedKept
           /\ business[b].status = "NONE"
           /\ business'[b].owner = u /\ member'[b][u] = Owner
           /\ \A c \in Businesses \ {b} : business'[c] = business[c] /\ member'[c] = member[c]
  <1> DEFINE row == [business[b] EXCEPT !.status = "CLOSED", !.owner = u]
             staff == [member[b] EXCEPT ![u] = Owner]
  <1>1. Typed
    BY ShapeTyped
  <1>2. row \in BusinessRows /\ row.owner = u
    BY <1>1 DEF Typed, BusinessRows
  <1>3. business' = [business EXCEPT ![b] = row] /\ business[b].status = "NONE"
    BY DEF Create
  <1>4. staff \in [Users -> MemberRows] /\ staff[u] = Owner
        /\ \A v \in Users : v # u => staff[v] = member[b][v]
    BY <1>1, OwnerRow DEF Typed
  <1>5. member' = [member EXCEPT ![b] = staff]
    BY DEF Create
  <1> HIDE DEF row, staff
  <1>6. business' \in [Businesses -> BusinessRows] /\ business'[b] = row
        /\ \A c \in Businesses \ {b} : business'[c] = business[c]
    BY <1>1, <1>2, <1>3 DEF Typed
  <1>7. member' \in [Businesses -> [Users -> MemberRows]] /\ member'[b] = staff
        /\ \A c \in Businesses \ {b} : member'[c] = member[c]
    BY <1>1, <1>4, <1>5 DEF Typed
  <1>8. Typed'
    BY <1>1, <1>6, <1>7 DEF Typed, Create
  <1>9. RolesKept
    BY <1>4, <1>7 DEF RolesKept
  <1>10. ApprovedKept
    BY <1>3, <1>6 DEF ApprovedKept
  <1> QED BY <1>2, <1>3, <1>4, <1>6, <1>7, <1>8, <1>9, <1>10

LEMMA ReviewRows ==
    ASSUME Shape, NEW b \in Businesses, NEW status \in {"APPROVED", "CLOSED"}, Review(b, status)
    PROVE  /\ Typed' /\ business[b].status # "NONE"
           /\ business'[b].owner = business[b].owner
           /\ \A c \in Businesses \ {b} : business'[c] = business[c]
  <1> DEFINE row == [business[b] EXCEPT !.status = status]
  <1>1. Typed
    BY ShapeTyped
  <1>2. row \in BusinessRows /\ row.owner = business[b].owner
    BY <1>1 DEF Typed, BusinessRows
  <1>3. business' = [business EXCEPT ![b] = row] /\ business[b].status # "NONE"
    BY DEF Review
  <1> HIDE DEF row
  <1>4. business' \in [Businesses -> BusinessRows] /\ business'[b] = row
        /\ \A c \in Businesses \ {b} : business'[c] = business[c]
    BY <1>1, <1>2, <1>3 DEF Typed
  <1>5. overtaken' \subseteq Requests
    BY <1>1 DEF Typed, Review, Holding
  <1>6. Typed'
    BY <1>1, <1>4, <1>5 DEF Typed, Review
  <1> QED BY <1>2, <1>3, <1>4, <1>6

LEMMA PolicyRows ==
    ASSUME Shape, NEW q \in Requests, NEW policy \in Policies,
           UpdateCancellationPolicy(q, policy)
    PROVE  \E b \in Businesses :
             /\ req[q].business = b /\ overtaken' = overtaken \cup Holding(b)
             /\ Typed' /\ business[b].status # "NONE"
             /\ business'[b].owner = business[b].owner
             /\ \A c \in Businesses \ {b} : business'[c] = business[c]
  <1>1. PICK b \in Businesses : b = req[q].business
    BY DEF Shape, Fits, UpdateCancellationPolicy
  <1> DEFINE row == [business[b] EXCEPT !.policy = policy]
  <1>2. Typed
    BY ShapeTyped
  <1>3. row \in BusinessRows /\ row.owner = business[b].owner
    BY <1>2 DEF Typed, BusinessRows
  <1>4. /\ business' = [business EXCEPT ![b] = row] /\ business[b].status # "NONE"
        /\ overtaken' = overtaken \cup Holding(b)
    BY <1>1 DEF UpdateCancellationPolicy
  <1> HIDE DEF row
  <1>5. business' \in [Businesses -> BusinessRows] /\ business'[b] = row
        /\ \A c \in Businesses \ {b} : business'[c] = business[c]
    BY <1>2, <1>3, <1>4 DEF Typed
  <1>6. overtaken' \subseteq Requests
    BY <1>2, <1>4 DEF Typed, Holding
  <1>7. Typed'
    BY <1>2, <1>5, <1>6 DEF Typed, UpdateCancellationPolicy
  <1> QED BY <1>1, <1>3, <1>4, <1>5, <1>7

LEMMA AddMemberRows ==
    ASSUME Shape, NEW q \in Requests, NEW role \in {"MANAGER", "STAFF"}, AddMember(q, role)
    PROVE  /\ Typed' /\ RolesKept
           /\ \A b \in Businesses, u \in Users :
                member[b][u].role # "NONE" => member'[b][u] = member[b][u]
  <1>1. PICK b \in Businesses : b = req[q].business
    BY DEF Shape, Fits, AddMember
  <1>2. PICK u \in Users : u = req[q].target.staff
    BY DEF Shape, Fits, AddMember
  <1> DEFINE row == [role |-> role, isActive |-> TRUE]
             staff == [member[b] EXCEPT ![u] = row]
  <1>3. Typed
    BY ShapeTyped
  <1>4. row \in MemberRows /\ row.isActive
    BY DEF MemberRows
  <1>5. staff \in [Users -> MemberRows] /\ staff[u] = row
        /\ \A v \in Users : v # u => staff[v] = member[b][v]
    BY <1>3, <1>4 DEF Typed
  <1>6. \/ member' = [member EXCEPT ![b] = staff] /\ member[b][u].role = "NONE"
        \/ member' = member
    BY <1>1, <1>2 DEF AddMember
  <1> HIDE DEF row, staff
  <1>7. CASE member' = member
    <2>1. Typed'
      BY <1>3, <1>7 DEF Typed, AddMember
    <2> QED BY <1>7, <2>1 DEF RolesKept
  <1>8. CASE member' = [member EXCEPT ![b] = staff] /\ member[b][u].role = "NONE"
    <2>1. member' \in [Businesses -> [Users -> MemberRows]] /\ member'[b] = staff
          /\ \A c \in Businesses \ {b} : member'[c] = member[c]
      BY <1>3, <1>5, <1>8 DEF Typed
    <2>2. Typed'
      BY <1>3, <2>1 DEF Typed, AddMember
    <2>3. RolesKept
      BY <1>4, <1>5, <1>8, <2>1 DEF RolesKept
    <2> QED BY <1>5, <1>8, <2>1, <2>2, <2>3
  <1> QED BY <1>6, <1>7, <1>8

\* Nobody is deactivated, or user u of business b is, who is not its owner, and
\* whoever relies on u is overtaken.
LEMMA DeactivateRows ==
    ASSUME Shape, NEW q \in Requests, Deactivate(q)
    PROVE  /\ Typed' /\ overtaken \subseteq overtaken'
           /\ \/ member' = member
              \/ \E b \in Businesses, u \in Users :
                   /\ member[b][u].role # "OWNER"
                   /\ \A c \in Businesses, v \in Users :
                        <<c, v>> # <<b, u>> => member'[c][v] = member[c][v]
                   /\ \A s \in Requests : req[s].business = b /\ req[s].by = u => s \in overtaken'
                   /\ \A s \in Requests :
                        req[s].business = b /\ req[s].pc = "place" /\ req[s].target.staff = u =>
                          s \in overtaken'
  <1>1. PICK b \in Businesses : b = req[q].business
    BY DEF Shape, Fits, Deactivate
  <1>2. PICK u \in Users : u = req[q].target.staff
    BY DEF Shape, Fits, Deactivate
  <1> DEFINE row == [member[b][u] EXCEPT !.isActive = FALSE]
             staff == [member[b] EXCEPT ![u] = row]
             reliant == {s \in Requests : /\ req[s].business = b
                                          /\ \/ req[s].by = u
                                             \/ req[s].pc = "place" /\ req[s].target.staff = u}
  <1>3. Typed
    BY ShapeTyped
  <1>4. row \in MemberRows
    <2>1. PICK m \in MemberRows : m = member[b][u]
      BY <1>3 DEF Typed
    <2>2. [m EXCEPT !.isActive = FALSE] \in MemberRows
      BY DEF MemberRows
    <2> QED BY <2>1, <2>2
  <1>5. staff \in [Users -> MemberRows] /\ \A v \in Users : v # u => staff[v] = member[b][v]
    BY <1>3, <1>4 DEF Typed
  <1>6. \/ /\ member' = [member EXCEPT ![b] = staff] /\ member[b][u].role # "OWNER"
           /\ overtaken' = overtaken \cup reliant
        \/ member' = member /\ overtaken' = overtaken
    BY <1>1, <1>2 DEF Deactivate
  <1> HIDE DEF row, staff
  <1>7. CASE member' = member /\ overtaken' = overtaken
    <2>1. Typed'
      BY <1>3, <1>7 DEF Typed, Deactivate
    <2> QED BY <1>7, <2>1
  <1>8. CASE /\ member' = [member EXCEPT ![b] = staff] /\ member[b][u].role # "OWNER"
             /\ overtaken' = overtaken \cup reliant
    <2>1. member' \in [Businesses -> [Users -> MemberRows]] /\ member'[b] = staff
          /\ \A c \in Businesses \ {b} : member'[c] = member[c]
      BY <1>3, <1>5, <1>8 DEF Typed
    <2>2. overtaken' \subseteq Requests
      BY <1>3, <1>8 DEF Typed
    <2>3. Typed'
      BY <1>3, <2>1, <2>2 DEF Typed, Deactivate
    <2>4. \A c \in Businesses, v \in Users :
            <<c, v>> # <<b, u>> => member'[c][v] = member[c][v]
      BY <1>5, <2>1
    <2> QED BY <1>8, <2>3, <2>4
  <1> QED BY <1>6, <1>7, <1>8

LEMMA InsertHoursRows ==
    ASSUME Shape, NEW q \in Requests, InsertHours(q)
    PROVE  \E t \in Targets :
             /\ t = req[q].target /\ Typed'
             /\ hours'[t] = (hours[t] \ req[q].seen) \cup {q}
             /\ \A o \in Targets \ {t} : hours'[o] = hours[o]
             /\ overtaken \subseteq overtaken'
             /\ \A s \in Requests \ {q} :
                  req[s].pc = "insert" /\ req[s].target = t => s \in overtaken'
  <1>1. PICK t \in Targets : t = req[q].target
    BY DEF Shape, Fits, InsertHours
  <1> DEFINE rows == (hours[t] \ req[q].seen) \cup {q}
             rivals == {s \in Requests \ {q} : req[s].pc = "insert" /\ req[s].target = t}
  <1>2. Typed
    BY ShapeTyped
  <1>3. rows \in SUBSET Requests
    BY <1>2 DEF Typed
  <1>4. hours' = [hours EXCEPT ![t] = rows] /\ overtaken' = overtaken \cup rivals
    BY <1>1 DEF InsertHours
  <1>5. hours' \in [Targets -> SUBSET Requests] /\ hours'[t] = rows
        /\ \A o \in Targets \ {t} : hours'[o] = hours[o]
    BY <1>2, <1>3, <1>4 DEF Typed
  <1>6. overtaken' \subseteq Requests
    BY <1>2, <1>4 DEF Typed
  <1>7. Typed'
    BY <1>2, <1>5, <1>6 DEF Typed, InsertHours
  <1> QED BY <1>1, <1>4, <1>5, <1>7

LEMMA CreateAssetRows ==
    ASSUME Shape, NEW q \in Requests, NEW asset \in {"branch", "service"}, CreateAsset(q, asset)
    PROVE  Typed'
  <1>1. PICK b \in Businesses : b = req[q].business
    BY DEF Shape, Fits, CreateAsset
  <1>2. Typed
    BY ShapeTyped
  <1>3. assets' = [assets EXCEPT ![b] = assets[b] \cup {asset}]
    BY <1>1 DEF CreateAsset
  <1>4. assets' \in [Businesses -> SUBSET {"branch", "service"}]
    BY <1>2, <1>3 DEF Typed
  <1> QED BY <1>2, <1>4 DEF Typed, CreateAsset

LEMMA AddHolidayRows ==
    ASSUME Shape, NEW q \in Requests, AddHoliday(q)
    PROVE  Typed'
  <1>1. req[q].target \in Targets
    BY DEF Shape, Fits, AddHoliday
  <1>2. Typed
    BY ShapeTyped
  <1>3. holidays' \subseteq Targets
    BY <1>1, <1>2 DEF Typed, AddHoliday
  <1> QED BY <1>2, <1>3 DEF Typed, AddHoliday

LEMMA PlaceRows ==
    ASSUME Shape, NEW q \in Requests, Place(q)
    PROVE  /\ Typed'
           /\ booking'[q] = [target |-> req[q].target, policy |-> req[q].policy]
           /\ \A s \in Requests \ {q} : booking'[s] = booking[s]
  <1> DEFINE row == [target |-> req[q].target, policy |-> req[q].policy]
  <1>1. req[q] \in RequestRows
    BY DEF Shape, Fits
  <1>2. Typed
    BY ShapeTyped
  <1>3. row \in [target : Targets \cup {NoTarget}, policy : Policies]
    BY <1>1 DEF RequestRows
  <1>4. booking' = [booking EXCEPT ![q] = row]
    BY DEF Place
  <1> HIDE DEF row
  <1>5. /\ booking' \in [Requests -> [target : Targets \cup {NoTarget}, policy : Policies]]
        /\ booking'[q] = row /\ \A s \in Requests \ {q} : booking'[s] = booking[s]
    BY <1>2, <1>3, <1>4 DEF Typed
  <1>6. Typed'
    BY <1>2, <1>5 DEF Typed, Place, directory
  <1> USE DEF row
  <1> QED BY <1>5, <1>6

---------------------------------------------------------------------------
(* The layers of the invariant *)

LEMMA ShapeMoves ==
    ASSUME Shape, NEW q \in Requests, NEW r, Moved(q, r), Fits(r), Typed'
    PROVE  Shape'
  <1>1. \A s \in Requests : Fits(req[s])'
    BY DEF Moved, Shape, Fits
  <1>2. TypeOK'
    BY DEF Moved, Typed, TypeOK, BusinessRows, MemberRows, RequestRows, PCs
  <1> QED BY <1>1, <1>2 DEF Shape

LEMMA OwnedKept ==
    ASSUME Shape, Owned,
           \A b \in Businesses :
             \/ business'[b] = business[b]
             \/ business[b].status # "NONE" /\ business'[b].owner = business[b].owner,
           \A b \in Businesses, u \in Users :
             member[b][u] = Owner => member'[b][u] = Owner
    PROVE  Owned'
  BY DEF Owned

\* A caller of a business that the guard let in may still do so: every request
\* whose caller is deactivated is overtaken.
RoleLost(s) ==
    /\ req[s].by \in Users
    /\ member'[req[s].business][req[s].by] # member[req[s].business][req[s].by]
    /\ member'[req[s].business][req[s].by] # Owner
    /\ member[req[s].business][req[s].by].role # "NONE"

LEMMA GuardedMoves ==
    ASSUME Shape, Guarded, NEW q \in Requests, NEW r, Moved(q, r), Fits(r),
           overtaken \subseteq overtaken',
           \A s \in Requests : RoleLost(s) => s \in overtaken',
           \/ r.by = NoUser
           \/ member' = member /\ GuardRole(r.by, r.business, r.pc)
           \/ /\ r.by = req[q].by /\ r.business = req[q].business
              /\ req[q].pc # "policy" /\ r.pc # "policy"
    PROVE  Guarded'
  <1>1. ASSUME NEW s \in Requests \ {q}, (req[s].by # NoUser /\ s \notin overtaken)'
        PROVE  GuardRole(req[s].by, req[s].business, req[s].pc)'
    <2>1. req'[s] = req[s] /\ s \notin overtaken /\ ~RoleLost(s)
      BY <1>1 DEF Moved
    <2>2. GuardRole(req[s].by, req[s].business, req[s].pc)
      BY <1>1, <2>1 DEF Guarded
    <2> QED BY <2>1, <2>2, OwnerRow DEF GuardRole, RoleLost
  <1>2. ASSUME (req[q].by # NoUser /\ q \notin overtaken)'
        PROVE  GuardRole(req[q].by, req[q].business, req[q].pc)'
    <2>1. req'[q] = r /\ q \notin overtaken /\ ~RoleLost(q) /\ r.by # NoUser
      BY <1>2 DEF Moved
    <2>2. CASE member' = member /\ GuardRole(r.by, r.business, r.pc)
      BY <2>1, <2>2 DEF GuardRole
    <2>3. CASE /\ r.by = req[q].by /\ r.business = req[q].business
               /\ req[q].pc # "policy" /\ r.pc # "policy"
      <3>1. GuardRole(req[q].by, req[q].business, req[q].pc)
        BY <2>1, <2>3 DEF Guarded
      <3> QED BY <2>1, <2>3, <3>1, OwnerRow DEF GuardRole, RoleLost
    <2> QED BY <2>1, <2>2, <2>3
  <1> QED BY <1>1, <1>2 DEF Guarded

LEMMA NoRoleLost ==
    ASSUME Shape, RolesKept, NEW s \in Requests
    PROVE  ~RoleLost(s)
  <1> SUFFICES ASSUME RoleLost(s) PROVE FALSE
    OBVIOUS
  <1>1. req[s].by \in Users /\ req[s].by # NoUser
    BY DirectoryAssumption DEF RoleLost
  <1>2. req[s].business \in Businesses
    BY <1>1 DEF Shape, Fits, Operations
  <1> QED BY <1>1, <1>2 DEF RoleLost, RolesKept

\* Current, of a request as it was and of the directory after the step.
StillCurrent(r) ==
    /\ r.pc \in {"staff", "place"} =>
         /\ business'[r.business].status = "APPROVED"
         /\ business'[r.business].policy = r.policy
    /\ r.pc = "place" =>
         /\ r.target.business = r.business
         /\ r.target.staff # Branch => member'[r.business][r.target.staff].isActive

LEMMA ContextMoves ==
    ASSUME Shape, InContext, NEW q \in Requests, NEW r, Moved(q, r),
           overtaken \subseteq overtaken',
           \A s \in Requests \ {q} :
             s \in overtaken' \/ (Current(req[s]) => StillCurrent(req[s])),
           q \in overtaken' \/ StillCurrent(r)
    PROVE  InContext'
  <1>1. ASSUME NEW s \in Requests \ {q}, s \notin overtaken'
        PROVE  Current(req[s])'
    <2>1. req'[s] = req[s] /\ s \notin overtaken
      BY <1>1 DEF Moved
    <2>2. StillCurrent(req[s])
      BY <1>1, <2>1 DEF InContext
    <2> QED BY <2>1, <2>2 DEF Current, StillCurrent
  <1>2. ASSUME q \notin overtaken'
        PROVE  Current(req[q])'
    <2>1. req'[q] = r
      BY DEF Moved
    <2> QED BY <1>2, <2>1 DEF Current, StillCurrent
  <1> QED BY <1>1, <1>2 DEF InContext

LEMMA CurrentKept ==
    ASSUME Shape, NEW r, Fits(r), Current(r), RolesKept, ApprovedKept
    PROVE  StillCurrent(r)
  <1>1. r.pc \in {"staff", "place"} => r.business \in Businesses /\ r.target \in Targets
    BY DEF Fits
  <1>2. r.pc = "place" /\ r.target.staff # Branch => r.target.staff \in Users
    BY <1>1 DEF Targets
  <1>3. r.pc \in {"staff", "place"} => business'[r.business] = business[r.business]
    BY <1>1 DEF Current, ApprovedKept
  <1>4. r.pc = "place" /\ r.target.staff # Branch =>
          member'[r.business][r.target.staff].isActive
    BY <1>1, <1>2, OwnerRow DEF Current, RolesKept
  <1> QED BY <1>3, <1>4 DEF Current, StillCurrent

LEMMA DoneCurrent == StillCurrent(Done)
  BY IdleFits DEF StillCurrent

\* The directory does not change for who holds or is behind the guard.
LEMMA ContextUndisturbed ==
    ASSUME Shape, InContext, NEW q \in Requests, NEW r, Moved(q, r), Fits(r),
           overtaken' = overtaken, RolesKept, ApprovedKept,
           q \in overtaken \/ StillCurrent(r)
    PROVE  InContext'
  <1>1. \A s \in Requests : Fits(req[s])
    BY DEF Shape
  <1>2. \A s \in Requests : Current(req[s]) => StillCurrent(req[s])
    <2> TAKE s \in Requests
    <2>1. PICK c : c = req[s]
      OBVIOUS
    <2>2. Fits(c) /\ Current(c) => StillCurrent(c)
      BY CurrentKept
    <2> QED BY <1>1, <2>1, <2>2
  <1> QED BY <1>2, ContextMoves

LEMMA ReplacingMoves ==
    ASSUME Shape, Replacing, NEW q \in Requests, NEW r, Moved(q, r),
           overtaken \subseteq overtaken',
           \A s \in Requests \ {q} : req[s].pc = "insert" =>
             s \in overtaken' \/ hours'[req[s].target] = hours[req[s].target],
           r.pc = "insert" => r.seen = hours'[r.target]
    PROVE  Replacing'
  <1>1. ASSUME NEW s \in Requests \ {q}, req'[s].pc = "insert", s \notin overtaken'
        PROVE  req'[s].seen = hours'[req'[s].target]
    <2>1. req'[s] = req[s] /\ s \notin overtaken
      BY <1>1 DEF Moved
    <2>2. req[s].seen = hours[req[s].target]
      BY <1>1, <2>1 DEF Replacing
    <2> QED BY <1>1, <2>1, <2>2
  <1>2. ASSUME req'[q].pc = "insert"
        PROVE  req'[q].seen = hours'[req'[q].target]
    BY <1>2 DEF Moved
  <1> QED BY <1>1, <1>2 DEF Replacing

LEMMA OnePutKept ==
    ASSUME Shape, HoursFromOnePut, hours' = hours, overtaken \subseteq overtaken'
    PROVE  HoursFromOnePut'
  <1> SUFFICES ASSUME NEW t \in Targets, Cardinality(hours'[t]) > 1
               PROVE  hours'[t] \cap overtaken' # {}
    BY DEF HoursFromOnePut
  <1>1. hours[t] \cap overtaken # {}
    BY DEF HoursFromOnePut
  <1> QED BY <1>1

\* Most steps leave the approved businesses, the roles and the hours alone.
LEMMA Undisturbed ==
    ASSUME IInv, NEW q \in Requests, NEW r, Moved(q, r), Fits(r), Typed',
           RolesKept, ApprovedKept, hours' = hours, overtaken' = overtaken, Owned',
           \/ r.by = NoUser
           \/ member' = member /\ GuardRole(r.by, r.business, r.pc)
           \/ /\ r.by = req[q].by /\ r.business = req[q].business
              /\ req[q].pc # "policy" /\ r.pc # "policy",
           q \in overtaken \/ StillCurrent(r),
           r.pc = "insert" => r.seen = hours[r.target]
    PROVE  IInv'
  <1> USE DEF IInv
  <1>1. Shape'
    BY ShapeMoves
  <1>2. Guarded'
    BY NoRoleLost, GuardedMoves
  <1>3. InContext'
    BY ContextUndisturbed
  <1>4. Replacing'
    BY ReplacingMoves
  <1>5. HoursFromOnePut'
    BY OnePutKept
  <1> QED BY <1>1, <1>2, <1>3, <1>4, <1>5

\* The request ends, and only what nobody relies on has changed.
LEMMA QuietEnd ==
    ASSUME IInv, NEW q \in Requests, Finish(q), Typed', business' = business,
           member' = member, hours' = hours, overtaken' = overtaken
    PROVE  IInv'
  <1> USE DEF IInv
  <1>1. Moved(q, Done) /\ Fits(Done) /\ Done.by = NoUser /\ Done.pc = "done"
    BY FinishOne, IdleFits
  <1>2. RolesKept /\ ApprovedKept
    BY DEF RolesKept, ApprovedKept
  <1>3. Owned'
    BY OwnedKept
  <1> QED BY <1>1, <1>2, <1>3, DoneCurrent, Undisturbed

---------------------------------------------------------------------------
(* The steps *)

\* A step that only reads leaves the directory as it is.
LEMMA ReadOnly ==
    ASSUME IInv, UNCHANGED <<directory, booking, overtaken>>
    PROVE  /\ Typed' /\ Owned' /\ RolesKept /\ ApprovedKept
           /\ hours' = hours /\ overtaken' = overtaken /\ member' = member
           /\ business' = business
  <1> USE DEF IInv
  <1>1. /\ business' = business /\ member' = member /\ hours' = hours
        /\ overtaken' = overtaken
    BY DEF directory
  <1>2. Typed'
    BY ShapeTyped DEF Typed, directory
  <1>3. RolesKept /\ ApprovedKept
    BY <1>1 DEF RolesKept, ApprovedKept
  <1>4. Owned'
    BY <1>1, OwnedKept
  <1> QED BY <1>1, <1>2, <1>3, <1>4

LEMMA CurrentSame ==
    ASSUME business' = business, member' = member, NEW r
    PROVE  StillCurrent(r) <=> Current(r)
  BY DEF StillCurrent, Current

LEMMA CreateStep ==
    ASSUME IInv, NEW q \in Requests, NEW u \in Users, NEW b \in Businesses, Create(q, u, b)
    PROVE  IInv'
  <1> USE DEF IInv
  <1>1. Finish(q) /\ hours' = hours /\ overtaken' = overtaken
    BY DEF Create
  <1>2. Moved(q, Done) /\ Fits(Done) /\ Done.by = NoUser /\ Done.pc = "done"
    BY <1>1, FinishOne, IdleFits
  <1>3. /\ Typed' /\ RolesKept /\ ApprovedKept
        /\ business'[b].owner = u /\ member'[b][u] = Owner
        /\ \A c \in Businesses \ {b} : business'[c] = business[c] /\ member'[c] = member[c]
    BY CreateRows
  <1>4. Owned'
    BY <1>3 DEF Owned
  <1> QED BY <1>1, <1>2, <1>3, <1>4, DoneCurrent, Undisturbed

LEMMA ReviewStep ==
    ASSUME IInv, NEW b \in Businesses, NEW status \in {"APPROVED", "CLOSED"}, Review(b, status)
    PROVE  IInv'
  <1> USE DEF IInv
  <1>1. /\ member' = member /\ hours' = hours /\ req' = req
        /\ overtaken' = overtaken \cup Holding(b) /\ overtaken \subseteq overtaken'
    BY DEF Review
  <1>2. /\ Typed' /\ business[b].status # "NONE"
        /\ business'[b].owner = business[b].owner
        /\ \A c \in Businesses \ {b} : business'[c] = business[c]
    BY ReviewRows
  <1>3. Shape'
    <2>1. TypeOK'
      BY <1>1, <1>2 DEF Shape, Typed, TypeOK, BusinessRows, MemberRows
    <2>2. \A q \in Requests : Fits(req[q])'
      BY <1>1 DEF Shape, Fits
    <2> QED BY <2>1, <2>2 DEF Shape
  <1>4. Owned'
    BY <1>1, <1>2, OwnedKept
  <1>5. Guarded'
    BY <1>1 DEF Guarded, GuardRole
  <1>6. InContext'
    <2> SUFFICES ASSUME NEW q \in Requests, q \notin overtaken'
                 PROVE  Current(req[q])'
      BY DEF InContext
    <2>1. Current(req[q]) /\ q \notin Holding(b) /\ Fits(req[q])
      BY <1>1 DEF InContext, Shape
    <2>2. req[q].pc \in {"staff", "place"} =>
            req[q].business \in Businesses \ {b}
      BY <2>1 DEF Holding, Fits
    <2> QED BY <1>1, <1>2, <2>1, <2>2 DEF Current
  <1>7. Replacing'
    BY <1>1 DEF Replacing
  <1>8. HoursFromOnePut'
    BY <1>1, OnePutKept
  <1> QED BY <1>3, <1>4, <1>5, <1>6, <1>7, <1>8

LEMMA PolicyStep ==
    ASSUME IInv, NEW q \in Requests, NEW policy \in Policies,
           UpdateCancellationPolicy(q, policy)
    PROVE  IInv'
  <1> USE DEF IInv
  <1>1. PICK b \in Businesses :
          /\ overtaken' = overtaken \cup Holding(b)
          /\ Typed' /\ business[b].status # "NONE"
          /\ business'[b].owner = business[b].owner
          /\ \A c \in Businesses \ {b} : business'[c] = business[c]
    BY PolicyRows
  <1>2. Finish(q) /\ member' = member /\ hours' = hours /\ overtaken \subseteq overtaken'
    BY <1>1 DEF UpdateCancellationPolicy
  <1>3. Moved(q, Done) /\ Fits(Done) /\ Done.by = NoUser /\ Done.pc = "done"
    BY <1>2, FinishOne, IdleFits
  <1>4. Shape'
    BY <1>1, <1>3, ShapeMoves
  <1>5. Owned'
    BY <1>1, <1>2, OwnedKept
  <1>6. Guarded'
    <2>1. RolesKept
      BY <1>2 DEF RolesKept
    <2> QED BY <1>2, <1>3, <2>1, NoRoleLost, GuardedMoves
  <1>7. InContext'
    <2>1. ASSUME NEW s \in Requests, s \notin overtaken', Current(req[s])
          PROVE  StillCurrent(req[s])
      <3>1. s \notin Holding(b) /\ Fits(req[s])
        BY <1>1, <2>1 DEF Shape
      <3>2. req[s].pc \in {"staff", "place"} => req[s].business \in Businesses \ {b}
        BY <3>1 DEF Holding, Fits
      <3> QED BY <1>1, <1>2, <2>1, <3>2 DEF Current, StillCurrent
    <2> QED BY <1>2, <1>3, <2>1, DoneCurrent, ContextMoves
  <1>8. Replacing'
    BY <1>2, <1>3, ReplacingMoves
  <1>9. HoursFromOnePut'
    BY <1>2, OnePutKept
  <1> QED BY <1>4, <1>5, <1>6, <1>7, <1>8, <1>9

LEMMA GuardStep ==
    ASSUME IInv, NEW q \in Requests, NEW u \in Users \cup Admins, NEW b \in Businesses,
           NEW op \in Operations, NEW t \in Named(b, op), Guard(q, u, b, t, op)
    PROVE  IInv'
  <1> USE DEF IInv
  <1>1. UNCHANGED <<directory, booking, overtaken>> /\ GuardRole(u, b, op)
    BY DEF Guard
  <1>2. PICK r : /\ Fits(r) /\ Moved(q, r)
                 /\ r.pc = op /\ r.by = u /\ r.business = b
    BY GuardMoves
  <1>3. StillCurrent(r) /\ r.pc # "insert"
    BY <1>2 DEF StillCurrent, Operations
  <1>4. GuardRole(r.by, r.business, r.pc)
    BY <1>1, <1>2
  <1> QED BY <1>1, <1>2, <1>3, <1>4, ReadOnly, Undisturbed

LEMMA CheckInviteStep ==
    ASSUME IInv, NEW q \in Requests, CheckInvite(q)
    PROVE  IInv'
  <1> USE DEF IInv
  <1>1. UNCHANGED <<directory, booking, overtaken>>
    BY DEF CheckInvite
  <1>2. PICK r : /\ Fits(r) /\ Moved(q, r)
                 /\ \/ r = Done
                    \/ /\ r.pc = "add" /\ req[q].pc = "invite"
                       /\ r.by = req[q].by /\ r.business = req[q].business
    BY CheckInviteMoves
  <1>3. StillCurrent(r) /\ r.pc # "insert"
    BY <1>2, IdleFits DEF StillCurrent
  <1>4. r.by = NoUser \/ /\ r.by = req[q].by /\ r.business = req[q].business
                         /\ req[q].pc # "policy" /\ r.pc # "policy"
    BY <1>2, IdleFits
  <1> QED BY <1>1, <1>2, <1>3, <1>4, ReadOnly, Undisturbed

LEMMA DeleteHoursStep ==
    ASSUME IInv, NEW q \in Requests, DeleteHours(q)
    PROVE  IInv'
  <1> USE DEF IInv
  <1>1. UNCHANGED <<directory, booking, overtaken>>
    BY DEF DeleteHours
  <1>2. PICK r : /\ Fits(r) /\ Moved(q, r)
                 /\ \/ r = Done
                    \/ /\ r.pc = "insert" /\ req[q].pc = "hours"
                       /\ r.by = req[q].by /\ r.business = req[q].business
                       /\ r.target \in Targets /\ r.seen = hours[r.target]
    BY DeleteHoursMoves
  <1>3. StillCurrent(r)
    BY <1>2, IdleFits DEF StillCurrent
  <1>4. r.by = NoUser \/ /\ r.by = req[q].by /\ r.business = req[q].business
                         /\ req[q].pc # "policy" /\ r.pc # "policy"
    BY <1>2, IdleFits
  <1>5. r.pc = "insert" => r.seen = hours[r.target]
    BY <1>2, IdleFits
  <1> QED BY <1>1, <1>2, <1>3, <1>4, <1>5, ReadOnly, Undisturbed

LEMMA ReadContextStep ==
    ASSUME IInv, NEW q \in Requests, NEW b \in Businesses, NEW t \in Targets,
           ReadContext(q, b, t)
    PROVE  IInv'
  <1> USE DEF IInv
  <1>1. UNCHANGED <<directory, booking, overtaken>>
    BY DEF ReadContext
  <1>2. PICK r : /\ Fits(r) /\ Moved(q, r) /\ r.by = NoUser
                 /\ r.pc # "insert" /\ Current(r)
    BY ReadContextMoves
  <1>3. StillCurrent(r)
    BY <1>1, <1>2, ReadOnly, CurrentSame
  <1> QED BY <1>1, <1>2, <1>3, ReadOnly, Undisturbed

LEMMA ReadStaffStep ==
    ASSUME IInv, NEW q \in Requests, ReadStaff(q)
    PROVE  IInv'
  <1> USE DEF IInv
  <1>1. UNCHANGED <<directory, booking, overtaken>>
    BY DEF ReadStaff
  <1>2. PICK r : /\ Fits(r) /\ Moved(q, r)
                 /\ r.by = NoUser /\ r.pc # "insert"
                 /\ Current(req[q]) => Current(r)
    BY ReadStaffMoves
  <1>3. q \in overtaken \/ StillCurrent(r)
    BY <1>1, <1>2, ReadOnly, CurrentSame DEF InContext
  <1> QED BY <1>1, <1>2, <1>3, ReadOnly, Undisturbed

LEMMA AddMemberStep ==
    ASSUME IInv, NEW q \in Requests, NEW role \in {"MANAGER", "STAFF"}, AddMember(q, role)
    PROVE  IInv'
  <1> USE DEF IInv
  <1>1. Finish(q) /\ business' = business /\ hours' = hours /\ overtaken' = overtaken
    BY DEF AddMember
  <1>2. Moved(q, Done) /\ Fits(Done) /\ Done.by = NoUser /\ Done.pc = "done"
    BY <1>1, FinishOne, IdleFits
  <1>3. /\ Typed' /\ RolesKept
        /\ \A b \in Businesses, u \in Users :
             member[b][u].role # "NONE" => member'[b][u] = member[b][u]
    BY AddMemberRows
  <1>4. Owned'
    BY <1>1, <1>3, OwnerRow, OwnedKept
  <1>5. ApprovedKept
    BY <1>1 DEF ApprovedKept
  <1> QED BY <1>1, <1>2, <1>3, <1>4, <1>5, DoneCurrent, Undisturbed

\* Who has been deactivated, and who was to be booked, are overtaken.
LEMMA DeactivateStep ==
    ASSUME IInv, NEW q \in Requests, Deactivate(q)
    PROVE  IInv'
  <1> USE DEF IInv
  <1>1. Finish(q) /\ business' = business /\ hours' = hours
    BY DEF Deactivate
  <1>2. Moved(q, Done) /\ Fits(Done) /\ Done.by = NoUser /\ Done.pc = "done"
    BY <1>1, FinishOne, IdleFits
  <1>3. Typed' /\ overtaken \subseteq overtaken'
    BY DeactivateRows
  <1>4. Shape'
    BY <1>2, <1>3, ShapeMoves
  <1>5. Replacing'
    BY <1>1, <1>2, <1>3, ReplacingMoves
  <1>6. HoursFromOnePut'
    BY <1>1, <1>3, OnePutKept
  <1>7. CASE member' = member
    <2>1. RolesKept /\ ApprovedKept
      BY <1>1, <1>7 DEF RolesKept, ApprovedKept
    <2>2. Owned'
      BY <1>1, <1>7, OwnedKept
    <2>3. Guarded'
      BY <1>2, <1>3, <2>1, NoRoleLost, GuardedMoves
    <2>4. InContext'
      BY <1>1, <1>2, <1>3, <1>7, CurrentSame, DoneCurrent, ContextMoves
    <2> QED BY <1>4, <1>5, <1>6, <2>2, <2>3, <2>4
  <1>8. ASSUME NEW b \in Businesses, NEW u \in Users,
               member[b][u].role # "OWNER",
               \A c \in Businesses, v \in Users :
                 <<c, v>> # <<b, u>> => member'[c][v] = member[c][v],
               \A s \in Requests : req[s].business = b /\ req[s].by = u => s \in overtaken',
               \A s \in Requests :
                 req[s].business = b /\ req[s].pc = "place" /\ req[s].target.staff = u =>
                   s \in overtaken'
        PROVE  IInv'
    <2>1. Owned'
      <3>1. \A c \in Businesses, v \in Users : member[c][v] = Owner => member'[c][v] = Owner
        BY <1>8, OwnerRow
      <3> QED BY <1>1, <3>1, OwnedKept
    <2>2. ASSUME NEW s \in Requests, RoleLost(s)
          PROVE  s \in overtaken'
      <3>1. req[s].by \in Users /\ req[s].by # NoUser
        BY <2>2, DirectoryAssumption DEF RoleLost
      <3>2. req[s].business \in Businesses
        BY <3>1 DEF Shape, Fits, Operations
      <3>3. req[s].business = b /\ req[s].by = u
        BY <1>8, <2>2, <3>1, <3>2 DEF RoleLost
      <3> QED BY <1>8, <3>3
    <2>3. Guarded'
      BY <1>2, <1>3, <2>2, GuardedMoves
    <2>4. ASSUME NEW s \in Requests, s \notin overtaken', Current(req[s])
          PROVE  StillCurrent(req[s])
      <3>1. Fits(req[s])
        BY DEF Shape
      <3>2. ASSUME req[s].pc = "place", req[s].target.staff # Branch
            PROVE  member'[req[s].business][req[s].target.staff].isActive
        <4>1. req[s].business \in Businesses /\ req[s].target.staff \in Users
          BY <3>1, <3>2 DEF Fits, Targets
        <4>2. member[req[s].business][req[s].target.staff].isActive
          BY <2>4, <3>2 DEF Current
        <4>3. <<req[s].business, req[s].target.staff>> # <<b, u>>
          BY <1>8, <2>4, <3>2
        <4> QED BY <1>8, <4>1, <4>2, <4>3
      <3> QED BY <1>1, <2>4, <3>2 DEF Current, StillCurrent
    <2>5. InContext'
      BY <1>2, <1>3, <2>4, DoneCurrent, ContextMoves
    <2> QED BY <1>4, <1>5, <1>6, <2>1, <2>3, <2>5
  <1> QED BY <1>7, <1>8, DeactivateRows

\* A PUT that nobody overtook leaves its own rows alone; the others that are
\* between their delete and their insert are overtaken by it.
LEMMA InsertHoursStep ==
    ASSUME IInv, NEW q \in Requests, InsertHours(q)
    PROVE  IInv'
  <1> USE DEF IInv
  <1>1. PICK t \in Targets :
          /\ t = req[q].target /\ Typed'
          /\ hours'[t] = (hours[t] \ req[q].seen) \cup {q}
          /\ \A o \in Targets \ {t} : hours'[o] = hours[o]
          /\ overtaken \subseteq overtaken'
          /\ \A s \in Requests \ {q} :
               req[s].pc = "insert" /\ req[s].target = t => s \in overtaken'
    BY InsertHoursRows
  <1>2. Finish(q) /\ business' = business /\ member' = member /\ req[q].pc = "insert"
    BY DEF InsertHours
  <1>3. Moved(q, Done) /\ Fits(Done) /\ Done.by = NoUser /\ Done.pc = "done"
    BY <1>2, FinishOne, IdleFits
  <1>4. Shape'
    BY <1>1, <1>3, ShapeMoves
  <1>5. RolesKept
    BY <1>2 DEF RolesKept
  <1>6. Owned'
    BY <1>2, OwnedKept
  <1>7. Guarded'
    BY <1>1, <1>3, <1>5, NoRoleLost, GuardedMoves
  <1>8. InContext'
    BY <1>1, <1>2, <1>3, CurrentSame, DoneCurrent, ContextMoves
  <1>9. Replacing'
    <2>1. ASSUME NEW s \in Requests \ {q}, req[s].pc = "insert"
          PROVE  s \in overtaken' \/ hours'[req[s].target] = hours[req[s].target]
      <3>1. req[s].target \in Targets
        BY <2>1 DEF Shape, Fits
      <3> QED BY <1>1, <2>1, <3>1
    <2> QED BY <1>1, <1>3, <2>1, ReplacingMoves
  <1>10. HoursFromOnePut'
    <2> SUFFICES ASSUME NEW o \in Targets, Cardinality(hours'[o]) > 1
                 PROVE  hours'[o] \cap overtaken' # {}
      BY DEF HoursFromOnePut
    <2>1. CASE o # t
      <3>1. hours'[o] = hours[o]
        BY <1>1, <2>1
      <3>2. hours[o] \cap overtaken # {}
        BY <3>1 DEF HoursFromOnePut
      <3> QED BY <1>1, <3>1, <3>2
    <2>2. CASE o = t /\ q \in overtaken
      BY <1>1, <2>2
    <2>3. CASE o = t /\ q \notin overtaken
      <3>1. req[q].seen = hours[t]
        BY <1>1, <1>2, <2>3 DEF Replacing
      <3>2. hours'[o] = {q}
        BY <1>1, <2>3, <3>1
      <3>3. Cardinality({q}) = 1
        BY FS_Singleton
      <3> QED BY <3>2, <3>3
    <2> QED BY <2>1, <2>2, <2>3
  <1> QED BY <1>4, <1>6, <1>7, <1>8, <1>9, <1>10

LEMMA QuietStep ==
    ASSUME IInv, NEW q \in Requests,
           \/ \E asset \in {"branch", "service"} : CreateAsset(q, asset)
           \/ AddHoliday(q) \/ Place(q) \/ Fail(q)
    PROVE  IInv'
  <1> USE DEF IInv
  <1>1. ASSUME NEW asset \in {"branch", "service"}, CreateAsset(q, asset)
        PROVE  IInv'
    <2>1. Typed'
      BY <1>1, CreateAssetRows
    <2> QED BY <1>1, <2>1, QuietEnd DEF CreateAsset
  <1>2. CASE AddHoliday(q)
    <2>1. Typed'
      BY <1>2, AddHolidayRows
    <2> QED BY <1>2, <2>1, QuietEnd DEF AddHoliday
  <1>3. CASE Place(q)
    <2>1. Typed'
      BY <1>3, PlaceRows
    <2> QED BY <1>3, <2>1, QuietEnd DEF Place, directory
  <1>4. CASE Fail(q)
    <2>1. Finish(q) /\ UNCHANGED <<directory, booking, overtaken>>
      BY <1>4 DEF Fail, Reject
    <2> QED BY <2>1, ReadOnly, QuietEnd
  <1> QED BY <1>1, <1>2, <1>3, <1>4

LEMMA StutterStep ==
    ASSUME IInv, UNCHANGED vars
    PROVE  IInv'
  <1> USE DEF IInv, vars, directory
  <1>1. Shape'
    BY DEF Shape, TypeOK, Fits
  <1>2. Owned' /\ HoursFromOnePut'
    BY DEF Owned, HoursFromOnePut
  <1>3. Guarded' /\ Replacing'
    BY DEF Guarded, GuardRole, Replacing
  <1>4. InContext'
    BY DEF InContext, Current
  <1> QED BY <1>1, <1>2, <1>3, <1>4

LEMMA Step ==
    ASSUME IInv, [Next]_vars
    PROVE  IInv'
  <1>1. ASSUME NEW b \in Businesses, NEW status \in {"APPROVED", "CLOSED"}, Review(b, status)
        PROVE  IInv'
    BY <1>1, ReviewStep
  <1>2. ASSUME NEW q \in Requests, NEW b \in Businesses, NEW u \in Users, Create(q, u, b)
        PROVE  IInv'
    BY <1>2, CreateStep
  <1>3. ASSUME NEW q \in Requests, NEW b \in Businesses, NEW u \in Users \cup Admins,
               NEW op \in Operations, NEW t \in Named(b, op), Guard(q, u, b, t, op)
        PROVE  IInv'
    BY <1>3, GuardStep
  <1>4. ASSUME NEW q \in Requests, NEW b \in Businesses, NEW t \in Targets, ReadContext(q, b, t)
        PROVE  IInv'
    BY <1>4, ReadContextStep
  <1>5. ASSUME NEW q \in Requests, NEW policy \in Policies, UpdateCancellationPolicy(q, policy)
        PROVE  IInv'
    BY <1>5, PolicyStep
  <1>6. ASSUME NEW q \in Requests, NEW role \in {"MANAGER", "STAFF"}, AddMember(q, role)
        PROVE  IInv'
    BY <1>6, AddMemberStep
  <1>7. ASSUME NEW q \in Requests,
               CheckInvite(q) \/ Deactivate(q) \/ DeleteHours(q) \/ InsertHours(q) \/ ReadStaff(q)
        PROVE  IInv'
    BY <1>7, CheckInviteStep, DeactivateStep, DeleteHoursStep, InsertHoursStep, ReadStaffStep
  <1>8. ASSUME NEW q \in Requests,
               \/ \E asset \in {"branch", "service"} : CreateAsset(q, asset)
               \/ AddHoliday(q) \/ Place(q) \/ Fail(q)
        PROVE  IInv'
    BY <1>8, QuietStep
  <1>9. CASE UNCHANGED vars
    BY <1>9, StutterStep
  <1> QED BY <1>1, <1>2, <1>3, <1>4, <1>5, <1>6, <1>7, <1>8, <1>9 DEF Next

LEMMA Initially == Init => IInv
  <1> SUFFICES ASSUME Init PROVE IInv
    OBVIOUS
  <1>1. \A q \in Requests : req[q] \in {Idle, Done}
    BY DEF Init
  <1>2. \A q \in Requests : Fits(req[q]) /\ req[q].by = NoUser /\ req[q].pc \in {"idle", "done"}
    BY <1>1, IdleFits
  <1>3. NoMember \in MemberRows /\ Owner \in MemberRows /\ Unlisted \in BusinessRows
    BY PolicyThere DEF NoMember, Owner, Unlisted, MemberRows, BusinessRows
  <1>4. \A b \in DOMAIN Founder :
          [status |-> "APPROVED", owner |-> Founder[b], policy |-> NoPolicy] \in BusinessRows
    BY PolicyThere, DirectoryAssumption DEF BusinessRows
  <1>5. business \in [Businesses -> BusinessRows] /\ member \in [Businesses -> [Users -> MemberRows]]
    BY <1>3, <1>4 DEF Init
  <1>6. NoBooking \in [target : Targets \cup {NoTarget}, policy : Policies]
    BY PolicyThere DEF NoBooking
  <1>7. TypeOK
    <2>1. req \in [Requests -> RequestRows]
      BY IdleFits DEF Init
    <2> QED BY <1>5, <1>6, <2>1 DEF Init, TypeOK, BusinessRows, MemberRows, RequestRows, PCs
  <1>8. Owned
    <2> SUFFICES ASSUME NEW b \in Businesses, business[b].status # "NONE"
                 PROVE  business[b].owner \in Users /\ member[b][business[b].owner] = Owner
      BY DEF Owned
    <2>1. b \in DOMAIN Founder /\ business[b].owner = Founder[b]
      BY DEF Init, Unlisted
    <2> QED BY <2>1, DirectoryAssumption DEF Init
  <1>9. Guarded /\ InContext /\ Replacing
    BY <1>2 DEF Guarded, InContext, Current, Replacing
  <1>10. HoursFromOnePut
    <2>1. \A t \in Targets : hours[t] = {}
      BY DEF Init
    <2> QED BY <2>1, FS_EmptySet DEF HoursFromOnePut
  <1> QED BY <1>2, <1>7, <1>8, <1>9, <1>10 DEF IInv, Shape

THEOREM Inductive == Spec => []IInv
  BY Initially, Step, PTL DEF Spec

---------------------------------------------------------------------------
(* What the directory promises *)

\* Every reachable state of the directory is well typed.
THEOREM DirectoryTypes == Spec => []TypeOK
  <1>1. IInv => TypeOK
    BY DEF IInv, Shape
  <1> QED BY <1>1, Inductive, PTL

\* setWorkingHours replaces a target's hours as a whole, for any number of PUTs
\* under way, unless another PUT commits between the delete and the insert.
THEOREM HoursReplaced == Spec => []HoursFromOnePut
  <1>1. IInv => HoursFromOnePut
    BY DEF IInv
  <1> QED BY <1>1, Inductive, PTL

\* The roles that BusinessRoleGuard asks for hold when the directory changes,
\* but for callers deactivated since, and no business loses its active owner.
THEOREM ManagersOnly == Spec => OnlyMembersManage
  <1>1. ASSUME IInv, IInv'
        PROVE  /\ \A q \in Requests :
                    req[q].by # NoUser /\ req'[q].pc = "done" /\ directory' # directory =>
                      \/ q \in overtaken
                      \/ GuardRole(req[q].by, req[q].business, req[q].pc)
               /\ \A b \in Businesses : business'[b].status # "NONE" =>
                    member'[b][business'[b].owner] = Owner
    BY <1>1 DEF IInv, Guarded, Owned
  <1> QED BY <1>1, Inductive, PTL DEF Spec, OnlyMembersManage

\* Only Place books.
LEMMA BookingsPlaced ==
    ASSUME IInv, [Next]_vars, NEW q \in Requests, booking'[q] # booking[q]
    PROVE  Place(q)
  <1>1. \E s \in Requests : Place(s)
    BY DEF Next, vars, Review, Create, Guard, ReadContext, UpdateCancellationPolicy, CreateAsset,
           AddMember, CheckInvite, Deactivate, AddHoliday, DeleteHours, InsertHours, ReadStaff,
           Fail, Reject
  <1>2. PICK s \in Requests : Place(s)
    BY <1>1
  <1>3. \A o \in Requests \ {s} : booking'[o] = booking[o]
    BY <1>2, PlaceRows DEF IInv
  <1> QED BY <1>2, <1>3

\* What hold books is an approved business and an active member of it, under the
\* policy in force, for any interleaving of holds with the changes of the
\* directory, unless one of them came after loadAndValidateContext.
THEOREM HoldsInContext == Spec => BookedInContext
  <1>1. ASSUME IInv, [Next]_vars, NEW q \in Requests, booking'[q] # booking[q],
               q \notin overtaken
        PROVE  LET t == booking'[q].target IN
               /\ business[t.business].status = "APPROVED"
               /\ business[t.business].policy = booking'[q].policy
               /\ t.staff # Branch => member[t.business][t.staff].isActive
    <2>1. Place(q)
      BY <1>1, BookingsPlaced
    <2>2. booking'[q] = [target |-> req[q].target, policy |-> req[q].policy]
      BY <1>1, <2>1, PlaceRows DEF IInv
    <2>3. booking'[q].target = req[q].target /\ booking'[q].policy = req[q].policy
      BY <2>2
    <2>4. Current(req[q]) /\ req[q].pc = "place"
      BY <1>1, <2>1 DEF IInv, InContext, Place
    <2> QED BY <2>3, <2>4 DEF Current
  <1>2. IInv /\ [Next]_vars =>
          [\A q \in Requests : booking'[q] # booking[q] /\ q \notin overtaken =>
             LET t == booking'[q].target IN
             /\ business[t.business].status = "APPROVED"
             /\ business[t.business].policy = booking'[q].policy
             /\ t.staff # Branch => member[t.business][t.staff].isActive]_vars
    BY <1>1
  <1> QED BY <1>2, Inductive, PTL DEF Spec, BookedInContext

===========================================================================
