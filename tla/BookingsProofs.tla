-------------------------- MODULE BookingsProofs --------------------------
(***************************************************************************)
(* Bookings keeps its type, the slot lock keeps two bookings out of one    *)
(* slot (SameSlotExclusive), and double bookings and forbidden transitions *)
(* need a race, for all sets of requests, bookings, lanes and times.       *)
(***************************************************************************)
EXTENDS Bookings, TLAPS

---------------------------------------------------------------------------
(* The inductive invariant *)

\* A row that exists has a lane and a duration that is not zero.
RowOK(b) == Exists(b) => /\ bookings[b].lane \in Lanes
                         /\ bookings[b].dur \in Durations

Slotting == {"slots", "lock", "check", "place", "unlock"}
Writing  == {"confirm", "expire", "write", "pay"}

\* What a request has in its locals, by its place in the handler.
LocalsOK(p) ==
    /\ req[p].pc \in Slotting \cup {"occur"} =>
         /\ req[p].lane \in Lanes
         /\ req[p].start \in Starts
         /\ req[p].dur \in Durations
    /\ req[p].pc \in Slotting /\ req[p].id # NoBooking =>
         Exists(req[p].id) /\ bookings[req[p].id].lane = req[p].lane
    /\ req[p].pc \in Writing => req[p].id \in BookingIds /\ Exists(req[p].id)
    /\ req[p].pc = "write" => req[p].to \in Statuses

\* A request inside its transaction holds the key of its slot.
HoldsKey(p) == req[p].pc \in {"check", "place"} => locks[Key(p)] = p

\* Between check and commit, nobody else appears at the slot under the lock.
SlotReserved(p) ==
    req[p].pc = "place" =>
      \A b \in locked \ revived :
        Active(b) /\ b # req[p].id /\ bookings[b].lane = req[p].lane
          => bookings[b].start # req[p].start

BookingInv == /\ TypeOK
              /\ \A b \in BookingIds : RowOK(b)
              /\ \A p \in Requests : LocalsOK(p) /\ HoldsKey(p) /\ SlotReserved(p)
              /\ SameSlotExclusive

---------------------------------------------------------------------------
(* Types *)

\* A new record of locals for p.
LEMMA LocalsUpdate ==
  ASSUME TypeOK, NEW p \in Requests, NEW r \in Locals, req' = [req EXCEPT ![p] = r]
  PROVE  /\ req' \in [Requests -> Locals]
         /\ req'[p] = r
         /\ \A q \in Requests \ {p} : req'[q] = req[q]
  BY DEF TypeOK

\* A request is answered.
LEMMA FinishUpdate ==
  ASSUME TypeOK, NEW p \in Requests, Finish(p)
  PROVE  /\ req' \in [Requests -> Locals]
         /\ req'[p].pc = "done"
         /\ \A q \in Requests \ {p} : req'[q] = req[q]
<1>1. [Idle EXCEPT !.pc = "done"] \in Locals
  BY DEF Idle, Locals, PCs
<1>2. req' = [req EXCEPT ![p] = [Idle EXCEPT !.pc = "done"]]
  BY DEF Finish
<1>3. [Idle EXCEPT !.pc = "done"].pc = "done"
  BY DEF Idle
<1> QED BY <1>1, <1>2, <1>3, LocalsUpdate

\* A request moves on within its handler.
LEMMA GotoUpdate ==
  ASSUME TypeOK, NEW p \in Requests, NEW pc \in PCs, Goto(p, pc)
  PROVE  /\ req' \in [Requests -> Locals]
         /\ req'[p] = [req[p] EXCEPT !.pc = pc]
         /\ req'[p].pc = pc
         /\ \A q \in Requests \ {p} : req'[q] = req[q]
<1>1. req[p] \in Locals
  BY DEF TypeOK
<1>2. [req[p] EXCEPT !.pc = pc] \in Locals /\ [req[p] EXCEPT !.pc = pc].pc = pc
  BY <1>1 DEF Locals
<1>3. req' = [req EXCEPT ![p] = [req[p] EXCEPT !.pc = pc]]
  BY DEF Goto, TypeOK
<1> QED BY <1>2, <1>3, LocalsUpdate

\* The history variables keep their types.
LEMMA HistoryTypes ==
  ASSUME TypeOK, NEW p \in Requests, NEW S \in SUBSET BookingIds, NEW u \in BOOLEAN
  PROVE  /\ Seen(p) => since' \in [Requests -> SUBSET BookingIds]
         /\ Touched(p, S) => since' \in [Requests -> SUBSET BookingIds]
         /\ Placed(S, since[p], u) =>
              /\ unseen' \in [BookingIds -> SUBSET BookingIds]
              /\ revived' \subseteq BookingIds /\ locked' \subseteq BookingIds
         /\ Deactivated(S) => /\ unseen' \in [BookingIds -> SUBSET BookingIds]
                              /\ revived' \subseteq BookingIds /\ locked' \subseteq BookingIds
  BY DEF TypeOK, Seen, Touched, Placed, Deactivated

---------------------------------------------------------------------------
(* Three kinds of steps *)

\* p works on its locals and perhaps its key; the table stays as it is.
LEMMA QuietStep ==
  ASSUME BookingInv, TypeOK', NEW p \in Requests, UNCHANGED table,
         \A q \in Requests \ {p} : req'[q] = req[q],
         \A q \in Requests \ {p} : req[q].pc \in {"check", "place"} => locks'[Key(q)] = q,
         LocalsOK(p)', HoldsKey(p)', SlotReserved(p)'
  PROVE  BookingInv'
<1>1. \A b \in BookingIds : RowOK(b)'
  BY DEF BookingInv, RowOK, Exists, table
<1>2. SameSlotExclusive'
  BY DEF BookingInv, SameSlotExclusive, Active, table
<1>3. ASSUME NEW q \in Requests, q # p
      PROVE  LocalsOK(q)' /\ HoldsKey(q)' /\ SlotReserved(q)'
  <2>1. req'[q] = req[q] /\ bookings' = bookings /\ locked' = locked /\ revived' = revived
    BY <1>3 DEF table
  <2>2. LocalsOK(q) /\ HoldsKey(q) /\ SlotReserved(q)
    BY DEF BookingInv
  <2>3. LocalsOK(q)'
    BY <2>1, <2>2 DEF LocalsOK, Exists
  <2>4. HoldsKey(q)'
    BY <1>3, <2>1, <2>2 DEF HoldsKey, Key
  <2>5. SlotReserved(q)'
    BY <2>1, <2>2 DEF SlotReserved, Active
  <2> QED BY <2>3, <2>4, <2>5
<1> QED BY <1>1, <1>2, <1>3 DEF BookingInv

\* No booking enters the set that the lock protects: the active ones that
\* were placed under the lock and not revived.
LEMMA ShrinkStep ==
  ASSUME BookingInv, TypeOK', UNCHANGED locks,
         \A q \in Requests : req'[q] = req[q] \/ req'[q].pc \in {"done", "group"},
         \A b \in BookingIds : RowOK(b)',
         \A b \in BookingIds : Exists(b) => Exists(b)' /\ bookings'[b].lane = bookings[b].lane,
         \A b \in locked' \ revived' : Active(b)' =>
            /\ b \in locked \ revived /\ Active(b)
            /\ bookings'[b].lane = bookings[b].lane
            /\ bookings'[b].start = bookings[b].start
  PROVE  BookingInv'
<1>1. SameSlotExclusive'
  BY DEF BookingInv, SameSlotExclusive
<1>2. ASSUME NEW q \in Requests
      PROVE  LocalsOK(q)' /\ HoldsKey(q)' /\ SlotReserved(q)'
  <2>1. CASE req'[q].pc \in {"done", "group"}
    BY <2>1 DEF LocalsOK, HoldsKey, SlotReserved, Slotting, Writing
  <2>2. CASE req'[q] = req[q]
    <3>1. LocalsOK(q) /\ HoldsKey(q) /\ SlotReserved(q)
      BY DEF BookingInv
    <3>2. req[q].id \in BookingIds \cup {NoBooking}
      BY DEF BookingInv, TypeOK, Locals
    <3>3. LocalsOK(q)'
      BY <2>2, <3>1, <3>2 DEF LocalsOK
    <3>4. HoldsKey(q)'
      BY <2>2, <3>1 DEF HoldsKey, Key
    <3>5. SlotReserved(q)'
      BY <2>2, <3>1 DEF SlotReserved
    <3> QED BY <3>3, <3>4, <3>5
  <2> QED BY <2>1, <2>2
<1> QED BY <1>1, <1>2 DEF BookingInv

\* p commits booking b to the slot whose key it holds.
LEMMA PlaceStep ==
  ASSUME BookingInv, TypeOK', NEW p \in Requests, NEW b \in BookingIds,
         req[p].pc = "place", req[p].id = b \/ (req[p].id = NoBooking /\ ~ Exists(b)),
         Goto(p, "unlock"), UNCHANGED locks,
         Placed({b}, since[p], TRUE),
         \A c \in BookingIds \ {b} : bookings'[c] = bookings[c],
         Exists(b)', bookings'[b].lane = req[p].lane,
         bookings'[b].start = req[p].start, bookings'[b].dur = req[p].dur
  PROVE  BookingInv'
<1>1. TypeOK /\ LocalsOK(p) /\ HoldsKey(p) /\ SlotReserved(p)
  BY DEF BookingInv
<1>2. /\ req'[p] = [req[p] EXCEPT !.pc = "unlock"] /\ req'[p].pc = "unlock"
      /\ \A q \in Requests \ {p} : req'[q] = req[q]
  BY <1>1, GotoUpdate DEF PCs
<1>3. req[p] \in Locals
  BY <1>1 DEF TypeOK
<1>4. /\ req'[p].id = req[p].id /\ req'[p].lane = req[p].lane
      /\ req'[p].start = req[p].start /\ req'[p].dur = req[p].dur
  BY <1>2, <1>3 DEF Locals
<1>5. req[p].lane \in Lanes /\ req[p].start \in Starts /\ req[p].dur \in Durations
  BY <1>1 DEF LocalsOK, Slotting
<1>6. \A c \in BookingIds : RowOK(c)'
  BY <1>5 DEF BookingInv, RowOK, Exists
<1>7. \A c \in BookingIds : Exists(c) => Exists(c)' /\ bookings'[c].lane = bookings[c].lane
  BY <1>1, SentinelAssumption DEF Exists, LocalsOK, Slotting
<1>8. ASSUME NEW c \in locked' \ revived', Active(c)', c # b
      PROVE  /\ c \in locked \ revived /\ Active(c)
             /\ bookings'[c].lane = bookings[c].lane
             /\ bookings'[c].start = bookings[c].start
  BY <1>1, <1>8 DEF Placed, Active, TypeOK
<1>9. ASSUME NEW c \in locked' \ revived', Active(c)', c # b,
             bookings'[c].lane = bookings'[b].lane
      PROVE  bookings'[c].start # bookings'[b].start
  <2>1. c \in BookingIds
    BY <1>1, <1>8, <1>9 DEF TypeOK
  <2>2. NoBooking \notin BookingIds
    BY SentinelAssumption
  <2>3. c # req[p].id
    BY <1>9, <2>1, <2>2
  <2> QED BY <1>1, <1>8, <1>9, <2>3 DEF SlotReserved
<1>10. SameSlotExclusive'
  BY <1>8, <1>9 DEF BookingInv, SameSlotExclusive
<1>11. LocalsOK(p)' /\ HoldsKey(p)' /\ SlotReserved(p)'
  <2>1. (req[p].id # NoBooking => Exists(req[p].id) /\ bookings[req[p].id].lane = req[p].lane)'
    BY <1>4 DEF Exists
  <2> QED BY <1>2, <1>4, <1>5, <2>1 DEF LocalsOK, HoldsKey, SlotReserved, Slotting, Writing
<1>12. ASSUME NEW q \in Requests, q # p
       PROVE  LocalsOK(q)' /\ HoldsKey(q)' /\ SlotReserved(q)'
  <2>1. LocalsOK(q) /\ HoldsKey(q) /\ SlotReserved(q)
    BY DEF BookingInv
  <2>2. req'[q] = req[q] /\ req[q].id \in BookingIds \cup {NoBooking}
    BY <1>1, <1>2, <1>12 DEF TypeOK, Locals
  <2>3. LocalsOK(q)'
    BY <1>7, <2>1, <2>2 DEF LocalsOK
  <2>4. HoldsKey(q)'
    BY <2>1, <2>2 DEF HoldsKey, Key
  <2>5. ASSUME req[q].pc = "place"
        PROVE  req[q].lane # req[p].lane \/ req[q].start # req[p].start
    <3>1. locks[Key(q)] = q /\ locks[Key(p)] = p
      BY <1>1, <2>1, <2>5 DEF HoldsKey
    <3> QED BY <1>12, <3>1 DEF Key
  <2>6. SlotReserved(q)'
    BY <1>8, <2>1, <2>2, <2>5 DEF SlotReserved
  <2> QED BY <2>3, <2>4, <2>6
<1> QED BY <1>6, <1>10, <1>11, <1>12 DEF BookingInv

\* p changes its locals outside its transaction, and nothing else happens.
LEMMA LocalStep ==
  ASSUME BookingInv, NEW p \in Requests, NEW r \in Locals,
         req' = [req EXCEPT ![p] = r], UNCHANGED <<now, table, locks>>,
         since' \in [Requests -> SUBSET BookingIds],
         r.pc \notin {"check", "place"},
         r.pc \in Slotting \cup {"occur"} =>
           r.lane \in Lanes /\ r.start \in Starts /\ r.dur \in Durations,
         r.pc \in Slotting /\ r.id # NoBooking =>
           Exists(r.id) /\ bookings[r.id].lane = r.lane,
         r.pc \in Writing => r.id \in BookingIds /\ Exists(r.id),
         r.pc = "write" => r.to \in Statuses
  PROVE  BookingInv'
<1>1. TypeOK
  BY DEF BookingInv
<1>2. /\ req' \in [Requests -> Locals] /\ req'[p] = r
      /\ \A q \in Requests \ {p} : req'[q] = req[q]
  BY <1>1, LocalsUpdate
<1>3. TypeOK'
  BY <1>1, <1>2 DEF TypeOK, table
<1>4. LocalsOK(p)'
  BY <1>2 DEF LocalsOK, Exists, table
<1>5. HoldsKey(p)' /\ SlotReserved(p)'
  BY <1>2 DEF HoldsKey, SlotReserved
<1>6. \A q \in Requests \ {p} : req[q].pc \in {"check", "place"} => locks'[Key(q)] = q
  BY DEF BookingInv, HoldsKey
<1> QED BY <1>2, <1>3, <1>4, <1>5, <1>6, QuietStep

---------------------------------------------------------------------------
(* Initially *)

\* The initial states satisfy the invariant.
LEMMA BookingInit == Init => BookingInv
<1> SUFFICES ASSUME Init PROVE BookingInv
  OBVIOUS
<1>1. NoRow \in Rows /\ NoRow.status = "NONE"
  BY TimeAssumption DEF NoRow, Rows
<1>2. ASSUME NEW row \in Earlier
      PROVE  /\ row \in Rows
             /\ row.lane \in Lanes /\ row.dur \in Durations
  <2>1. PICK lane \in Lanes, s \in Starts, d \in Durations, st \in {"PENDING", "CONFIRMED"} :
          row = [HoldRow(lane, s, d, {}) EXCEPT !.status = st, !.ttl = -1]
    BY EarlierAssumption
  <2>2. row = [status |-> st, lane |-> lane, start |-> s, dur |-> d, ttl |-> -1, group |-> {}]
    BY <2>1 DEF HoldRow
  <2>3. s \in Nat /\ d \in Nat /\ -1 \in -1 .. HoldTTL /\ st \in Statuses
    BY TimeAssumption DEF Statuses
  <2> QED BY <2>2, <2>3 DEF Rows
<1>3. /\ bookings \in [BookingIds -> Rows] /\ locked \subseteq BookingIds
      /\ \A b \in BookingIds : RowOK(b)
      /\ \A a, b \in locked : a = b
  <2>1. CASE bookings = [b \in BookingIds |-> NoRow] /\ locked = {}
    BY <1>1, <2>1 DEF RowOK, Exists
  <2>2. CASE \E b \in BookingIds, row \in Earlier :
               /\ bookings = [c \in BookingIds |-> IF c = b THEN row ELSE NoRow]
               /\ locked = {b}
    BY <1>1, <1>2, <2>2 DEF RowOK, Exists
  <2> QED BY <2>1, <2>2 DEF Init
<1>4. Idle \in Locals /\ Idle.pc = "idle"
  BY DEF Idle, Locals, PCs
<1>5. TypeOK
  BY <1>3, <1>4, TimeAssumption DEF Init, TypeOK
<1>6. \A p \in Requests : LocalsOK(p) /\ HoldsKey(p) /\ SlotReserved(p)
  BY <1>4 DEF Init, LocalsOK, HoldsKey, SlotReserved, Slotting, Writing
<1>7. SameSlotExclusive
  BY <1>3 DEF SameSlotExclusive
<1> QED BY <1>3, <1>5, <1>6, <1>7 DEF BookingInv

---------------------------------------------------------------------------
(* Arrivals and the steps outside the transaction *)

\* hold starts: the slot is in the locals.
LEMMA BeginHoldKeepsInv ==
  ASSUME BookingInv, NEW p \in Requests, NEW lane \in Lanes, NEW s \in Starts,
         NEW d \in Durations, BeginHold(p, lane, s, d)
  PROVE  BookingInv'
<1> DEFINE r == [Idle EXCEPT !.pc = "lock", !.lane = lane, !.start = s, !.dur = d]
<1>1. s \in Nat /\ d \in Nat
  BY TimeAssumption
<1>2. /\ r \in Locals /\ r.pc = "lock" /\ r.id = NoBooking
      /\ r.lane = lane /\ r.start = s /\ r.dur = d
  BY <1>1 DEF Locals, PCs, Idle
<1>3. req' = [req EXCEPT ![p] = r] /\ UNCHANGED <<now, table, locks, since>>
  BY DEF BeginHold
<1>4. since' \in [Requests -> SUBSET BookingIds]
  BY <1>3 DEF BookingInv, TypeOK
<1> HIDE DEF r
<1> QED BY <1>2, <1>3, <1>4, LocalStep DEF Slotting, Writing

\* createRecurring starts.
LEMMA BeginRecurringKeepsInv ==
  ASSUME BookingInv, NEW p \in Requests, NEW lane \in Lanes, NEW s \in Starts,
         NEW d \in Durations, NEW n \in Occurrences, BeginRecurring(p, lane, s, d, n)
  PROVE  BookingInv'
<1> DEFINE r == [Idle EXCEPT !.pc = "occur", !.lane = lane, !.start = s, !.dur = d, !.n = n]
<1>1. s \in Nat /\ d \in Nat /\ n \in Nat
  BY TimeAssumption
<1>2. /\ r \in Locals /\ r.pc = "occur" /\ r.lane = lane /\ r.start = s /\ r.dur = d
  BY <1>1 DEF Locals, PCs, Idle
<1>3. req' = [req EXCEPT ![p] = r] /\ UNCHANGED <<now, table, locks, since>>
  BY DEF BeginRecurring
<1>4. since' \in [Requests -> SUBSET BookingIds]
  BY <1>3 DEF BookingInv, TypeOK
<1> HIDE DEF r
<1> QED BY <1>2, <1>3, <1>4, LocalStep DEF Slotting, Writing

\* reschedule reads an active booking and keeps its lane.
LEMMA ReadRescheduleKeepsInv ==
  ASSUME BookingInv, NEW p \in Requests, NEW b \in BookingIds, NEW s \in Starts,
         NEW d \in Durations, ReadReschedule(p, b, s, d)
  PROVE  BookingInv'
<1> DEFINE r == [Idle EXCEPT !.pc = "slots", !.id = b, !.lane = bookings[b].lane,
                             !.start = s, !.dur = d]
<1>1. s \in Nat /\ d \in Nat
  BY TimeAssumption
<1>2. Exists(b) /\ bookings[b].lane \in Lanes
  BY DEF ReadReschedule, Active, ActiveStatuses, BookingInv, RowOK, Exists
<1>3. /\ r \in Locals /\ r.pc = "slots" /\ r.id = b
      /\ r.lane = bookings[b].lane /\ r.start = s /\ r.dur = d
  BY <1>1, <1>2 DEF Locals, PCs, Idle
<1>4. req' = [req EXCEPT ![p] = r]
  BY DEF ReadReschedule
<1>5. since' \in [Requests -> SUBSET BookingIds] /\ UNCHANGED <<now, table, locks>>
  BY DEF ReadReschedule, BookingInv, TypeOK
<1> HIDE DEF r
<1> QED BY <1>2, <1>3, <1>4, <1>5, LocalStep DEF Slotting, Writing

\* The reads of confirm, confirmGroup, cancel, updateStatus and payment.
LEMMA ReadKeepsInv ==
  ASSUME BookingInv, NEW p \in Requests, NEW b \in BookingIds, Exists(b),
         NEW r \in Locals, r.pc \in Writing, r.id = b, r.pc = "write" => r.to \in Statuses,
         req' = [req EXCEPT ![p] = r], Seen(p), UNCHANGED <<now, table, locks>>
  PROVE  BookingInv'
<1>1. since' \in [Requests -> SUBSET BookingIds]
  BY HistoryTypes DEF BookingInv
<1>2. r.pc \notin Slotting \cup {"occur"}
  BY DEF Writing, Slotting
<1> QED BY <1>1, <1>2, LocalStep DEF Slotting

\* A handler ends and leaves the table and the locks alone.
LEMMA FinishKeepsInv ==
  ASSUME BookingInv, NEW p \in Requests, Finish(p), UNCHANGED <<now, table, locks>>,
         since' \in [Requests -> SUBSET BookingIds]
  PROVE  BookingInv'
<1> DEFINE r == [Idle EXCEPT !.pc = "done"]
<1>1. r \in Locals /\ r.pc = "done"
  BY DEF Idle, Locals, PCs
<1>2. req' = [req EXCEPT ![p] = r]
  BY DEF Finish
<1> HIDE DEF r
<1> QED BY <1>1, <1>2, LocalStep DEF Slotting, Writing

\* reschedule's look at the free slots decides whether it goes on.
LEMMA FindFreeSlotKeepsInv ==
  ASSUME BookingInv, NEW p \in Requests, FindFreeSlot(p)
  PROVE  BookingInv'
<1>1. TypeOK /\ LocalsOK(p) /\ req[p] \in Locals
  BY DEF BookingInv, TypeOK
<1>2. UNCHANGED <<now, table, locks>> /\ since' \in [Requests -> SUBSET BookingIds]
  BY <1>1 DEF FindFreeSlot, TypeOK
<1>3. CASE Finish(p)
  BY <1>2, <1>3, FinishKeepsInv
<1>4. CASE Goto(p, "lock")
  <2> DEFINE r == [req[p] EXCEPT !.pc = "lock"]
  <2>1. /\ r \in Locals /\ r.pc = "lock" /\ r.id = req[p].id /\ r.lane = req[p].lane
        /\ r.start = req[p].start /\ r.dur = req[p].dur
    BY <1>1 DEF Locals, PCs
  <2>2. req' = [req EXCEPT ![p] = r]
    BY <1>1, <1>4 DEF Goto, TypeOK
  <2>3. req[p].pc = "slots"
    BY DEF FindFreeSlot
  <2> HIDE DEF r
  <2> QED BY <1>1, <1>2, <2>1, <2>2, <2>3, LocalStep DEF LocalsOK, Slotting, Writing
<1> QED BY <1>3, <1>4 DEF FindFreeSlot

\* The first read of confirm.
LEMMA ConfirmReadKeepsInv ==
  ASSUME BookingInv, NEW p \in Requests, NEW b \in BookingIds,
         NEW todo \in SUBSET BookingIds, ConfirmRead(p, b, todo)
  PROVE  BookingInv'
<1>1. Seen(p) /\ UNCHANGED <<now, table, locks>>
  BY DEF ConfirmRead
<1>2. since' \in [Requests -> SUBSET BookingIds]
  BY <1>1, HistoryTypes DEF BookingInv
<1>3. CASE Finish(p)
  BY <1>1, <1>2, <1>3, FinishKeepsInv
<1>4. ASSUME bookings[b].status = "HOLD", NEW pc \in {"expire", "confirm"},
             req' = [req EXCEPT ![p] = [Idle EXCEPT !.id = b, !.todo = todo, !.pc = pc]]
      PROVE  BookingInv'
  <2> DEFINE r == [Idle EXCEPT !.id = b, !.todo = todo, !.pc = pc]
  <2>1. r \in Locals /\ r.pc = pc /\ r.id = b
    BY DEF Idle, Locals, PCs
  <2>2. Exists(b)
    BY <1>4 DEF Exists
  <2> HIDE DEF r
  <2> QED BY <1>1, <1>4, <2>1, <2>2, ReadKeepsInv DEF r, Writing
<1> QED BY <1>3, <1>4 DEF ConfirmRead

\* The reads that precede a status write.
LEMMA ReadsKeepInv ==
  ASSUME BookingInv, NEW p \in Requests, NEW b \in BookingIds, NEW s \in DtoStatuses,
         ReadCancel(p, b) \/ ReadUpdateStatus(p, b, s) \/ ReadPayment(p, b)
  PROVE  BookingInv'
<1>1. Seen(p) /\ UNCHANGED <<now, table, locks>> /\ Exists(b)
  BY DEF ReadCancel, ReadUpdateStatus, ReadPayment, Exists
<1>2. ASSUME NEW to \in Statuses,
             req' = [req EXCEPT ![p] = [Idle EXCEPT !.pc = "write", !.id = b, !.to = to]]
      PROVE  BookingInv'
  <2> DEFINE r == [Idle EXCEPT !.pc = "write", !.id = b, !.to = to]
  <2>1. r \in Locals /\ r.pc = "write" /\ r.id = b /\ r.to \in Statuses
    BY DEF Idle, Locals, PCs
  <2> HIDE DEF r
  <2> QED BY <1>1, <1>2, <2>1, ReadKeepsInv DEF r, Writing
<1>3. CASE ReadCancel(p, b)
  BY <1>2, <1>3 DEF ReadCancel, Statuses
<1>4. CASE ReadUpdateStatus(p, b, s)
  BY <1>2, <1>4 DEF ReadUpdateStatus, Statuses, DtoStatuses
<1>5. CASE ReadPayment(p, b)
  <2> DEFINE r == [Idle EXCEPT !.pc = "pay", !.id = b]
  <2>1. r \in Locals /\ r.pc = "pay" /\ r.id = b
    BY DEF Idle, Locals, PCs
  <2>2. req' = [req EXCEPT ![p] = r]
    BY <1>5 DEF ReadPayment
  <2> HIDE DEF r
  <2> QED BY <1>1, <2>1, <2>2, ReadKeepsInv DEF Writing
<1> QED BY <1>3, <1>4, <1>5

\* confirmGroup lists its bookings.
LEMMA ReadGroupKeepsInv ==
  ASSUME BookingInv, NEW p \in Requests, NEW b \in BookingIds, ReadGroup(p, b)
  PROVE  BookingInv'
<1> DEFINE r == [Idle EXCEPT !.pc = "group", !.todo = bookings[b].group]
<1>1. bookings[b].group \in SUBSET BookingIds
  BY DEF BookingInv, TypeOK, Rows
<1>2. r \in Locals /\ r.pc = "group"
  BY <1>1 DEF Idle, Locals, PCs
<1>3. req' = [req EXCEPT ![p] = r] /\ UNCHANGED <<now, table, locks, since>>
  BY DEF ReadGroup
<1>4. since' \in [Requests -> SUBSET BookingIds]
  BY <1>3 DEF BookingInv, TypeOK
<1> HIDE DEF r
<1> QED BY <1>2, <1>3, <1>4, LocalStep DEF Slotting, Writing

\* createRecurring checks a session or gives up.
LEMMA RecurringKeepsInv ==
  ASSUME BookingInv, NEW p \in Requests, CheckOccurrence(p) \/ AbortRecurring(p)
  PROVE  BookingInv'
<1>1. TypeOK /\ LocalsOK(p) /\ req[p] \in Locals /\ req[p].pc = "occur"
  BY DEF BookingInv, TypeOK, CheckOccurrence, AbortRecurring
<1>2. UNCHANGED <<now, table, locks>> /\ since' \in [Requests -> SUBSET BookingIds]
  <2>1. CASE CheckOccurrence(p)
    BY <1>1, <2>1, HistoryTypes DEF CheckOccurrence, TypeOK
  <2>2. CASE AbortRecurring(p)
    BY <1>1, <2>2, HistoryTypes DEF AbortRecurring
  <2> QED BY <2>1, <2>2
<1>3. CASE Finish(p)
  BY <1>2, <1>3, FinishKeepsInv
<1>4. CASE req' = [req EXCEPT ![p].made = @ + 1]
  <2> DEFINE r == [req[p] EXCEPT !.made = @ + 1]
  <2>1. /\ r \in Locals /\ r.pc = "occur" /\ r.lane = req[p].lane
        /\ r.start = req[p].start /\ r.dur = req[p].dur
    BY <1>1 DEF Locals
  <2>2. req' = [req EXCEPT ![p] = r]
    BY <1>1, <1>4 DEF TypeOK
  <2> HIDE DEF r
  <2> QED BY <1>1, <1>2, <2>1, <2>2, LocalStep DEF LocalsOK, Slotting, Writing
<1> QED BY <1>3, <1>4 DEF CheckOccurrence, AbortRecurring

---------------------------------------------------------------------------
(* The locked transaction *)

\* The key of a request that is about to lock, or has locked, its slot.
LEMMA KeyTyped ==
  ASSUME BookingInv, NEW p \in Requests, req[p].pc \in Slotting
  PROVE  Key(p) \in Keys
<1>1. req[p].lane \in Lanes /\ req[p].start \in Starts
  BY DEF BookingInv, LocalsOK
<1> QED BY <1>1 DEF Key, Keys

\* acquire grants a free key, or the request is answered with a conflict.
LEMMA AcquireKeepsInv ==
  ASSUME BookingInv, NEW p \in Requests, Acquire(p)
  PROVE  BookingInv'
<1>1. TypeOK /\ LocalsOK(p) /\ req[p] \in Locals /\ req[p].pc = "lock"
  BY DEF BookingInv, TypeOK, Acquire
<1>2. UNCHANGED <<now, table, since>> /\ since \in [Requests -> SUBSET BookingIds]
  BY <1>1 DEF Acquire, TypeOK
<1>3. CASE UNCHANGED locks /\ Finish(p)
  BY <1>2, <1>3, FinishKeepsInv
<1>4. CASE /\ locks[Key(p)] = Free
           /\ locks' = [locks EXCEPT ![Key(p)] = p]
           /\ Goto(p, "check")
  <2>1. /\ req' \in [Requests -> Locals] /\ req'[p] = [req[p] EXCEPT !.pc = "check"]
        /\ req'[p].pc = "check"
        /\ \A q \in Requests \ {p} : req'[q] = req[q]
    BY <1>1, <1>4, GotoUpdate DEF PCs
  <2>2. /\ req'[p].id = req[p].id /\ req'[p].lane = req[p].lane
        /\ req'[p].start = req[p].start /\ req'[p].dur = req[p].dur
    BY <1>1, <2>1 DEF Locals
  <2>3. Key(p) \in Keys
    BY <1>1, KeyTyped DEF Slotting
  <2>4. TypeOK'
    BY <1>1, <1>2, <1>4, <2>1 DEF TypeOK, table
  <2>5. LocalsOK(p)'
    BY <1>1, <1>2, <2>1, <2>2 DEF LocalsOK, Slotting, Writing, Exists, table
  <2>6. HoldsKey(p)'
    BY <1>1, <1>4, <2>2, <2>3 DEF HoldsKey, Key, TypeOK
  <2>7. SlotReserved(p)'
    BY <2>1 DEF SlotReserved
  <2>8. ASSUME NEW q \in Requests \ {p}, req[q].pc \in {"check", "place"}
        PROVE  locks'[Key(q)] = q
    <3>1. locks[Key(q)] = q /\ Key(q) \in Keys
      BY <2>8, KeyTyped DEF BookingInv, HoldsKey, Slotting
    <3>2. Key(q) # Key(p)
      BY <1>4, <3>1, SentinelAssumption
    <3> QED BY <1>1, <1>4, <3>1, <3>2 DEF TypeOK
  <2>9. UNCHANGED table
    BY <1>2
  <2> QED BY <2>1, <2>4, <2>5, <2>6, <2>7, <2>8, <2>9, QuietStep
<1> QED BY <1>3, <1>4 DEF Acquire

\* An active booking of the lane with the same start overlaps: both have a
\* duration, so assertSlotFree sees it.
LEMMA SameStartOverlaps ==
  ASSUME BookingInv, NEW p \in Requests, req[p].pc = "check",
         NEW b \in BookingIds, Active(b), b # req[p].id,
         bookings[b].lane = req[p].lane, bookings[b].start = req[p].start
  PROVE  b \in Overlapping(req[p].lane, req[p].start, req[p].dur, req[p].id)
<1>0. RowOK(b) /\ LocalsOK(p) /\ Exists(b)
  BY DEF BookingInv, Active, ActiveStatuses, Exists
<1>1. bookings[b].dur \in Durations /\ req[p].dur \in Durations /\ req[p].start \in Starts
  BY <1>0 DEF RowOK, LocalsOK, Slotting
<1>2. \A d \in Durations : d \in Nat /\ d > 0
  BY TimeAssumption
<1>3. req[p].start \in Nat
  BY <1>1, TimeAssumption
<1> QED BY <1>1, <1>2, <1>3 DEF Overlapping, Overlap

\* assertSlotFree and the ways in which the transaction fails.
LEMMA CheckKeepsInv ==
  ASSUME BookingInv, NEW p \in Requests, AssertSlotFree(p) \/ AbortTx(p)
  PROVE  BookingInv'
<1>1. TypeOK /\ LocalsOK(p) /\ HoldsKey(p) /\ req[p] \in Locals
      /\ req[p].pc \in {"check", "place"}
  BY DEF BookingInv, TypeOK, AssertSlotFree, AbortTx
<1>2. UNCHANGED <<now, table, locks>> /\ since' \in [Requests -> SUBSET BookingIds]
  BY <1>1, HistoryTypes DEF AssertSlotFree, AbortTx
<1>3. ASSUME NEW pc \in {"place", "unlock"}, Goto(p, pc),
             pc = "place" => AssertSlotFree(p)
                  /\ Overlapping(req[p].lane, req[p].start, req[p].dur, req[p].id) = {}
      PROVE  BookingInv'
  <2>1. /\ req' \in [Requests -> Locals] /\ req'[p] = [req[p] EXCEPT !.pc = pc]
        /\ req'[p].pc = pc
        /\ \A q \in Requests \ {p} : req'[q] = req[q]
    BY <1>1, <1>3, GotoUpdate DEF PCs
  <2>2. /\ req'[p].id = req[p].id /\ req'[p].lane = req[p].lane
        /\ req'[p].start = req[p].start /\ req'[p].dur = req[p].dur
    BY <1>1, <2>1 DEF Locals
  <2>3. TypeOK'
    BY <1>1, <1>2, <2>1 DEF TypeOK, table
  <2>4. LocalsOK(p)'
    BY <1>1, <1>2, <2>1, <2>2 DEF LocalsOK, Slotting, Writing, Exists, table
  <2>5. HoldsKey(p)'
    BY <1>1, <1>2, <2>2 DEF HoldsKey, Key
  <2>6. SlotReserved(p)'
    <3>1. CASE pc = "unlock"
      BY <2>1, <3>1 DEF SlotReserved
    <3>2. CASE pc = "place"
      <4>1. req[p].pc = "check"
        BY <1>3, <3>2 DEF AssertSlotFree
      <4>2. ASSUME NEW b \in BookingIds, Active(b), b # req[p].id,
                   bookings[b].lane = req[p].lane
            PROVE  bookings[b].start # req[p].start
        BY <1>3, <3>2, <4>1, <4>2, SameStartOverlaps
      <4> QED BY <1>1, <1>2, <2>2, <4>2 DEF SlotReserved, Active, TypeOK, table
    <3> QED BY <3>1, <3>2
  <2>7. \A q \in Requests \ {p} : req[q].pc \in {"check", "place"} => locks'[Key(q)] = q
    BY <1>2 DEF BookingInv, HoldsKey
  <2>8. UNCHANGED table
    BY <1>2
  <2> QED BY <2>1, <2>3, <2>4, <2>5, <2>6, <2>7, <2>8, QuietStep
<1>4. CASE AssertSlotFree(p)
  <2>1. CASE Overlapping(req[p].lane, req[p].start, req[p].dur, req[p].id) = {}
    BY <1>3, <1>4, <2>1 DEF AssertSlotFree
  <2>2. CASE Overlapping(req[p].lane, req[p].start, req[p].dur, req[p].id) # {}
    BY <1>3, <1>4, <2>2 DEF AssertSlotFree
  <2> QED BY <2>1, <2>2
<1>5. CASE AbortTx(p)
  BY <1>3, <1>5 DEF AbortTx
<1> QED BY <1>4, <1>5

\* release and expiry: a key is dropped only if nobody inside holds it.
LEMMA UnlockKeepsInv ==
  ASSUME BookingInv, NEW p \in Requests, Unlock(p)
  PROVE  BookingInv'
<1>1. TypeOK /\ req[p].pc = "unlock" /\ Key(p) \in Keys
  BY KeyTyped DEF BookingInv, Unlock, Slotting
<1>2. /\ req' \in [Requests -> Locals] /\ req'[p].pc = "done"
      /\ \A q \in Requests \ {p} : req'[q] = req[q]
  BY <1>1, FinishUpdate DEF Unlock
<1>3. TypeOK'
  BY <1>1, <1>2 DEF Unlock, TypeOK, table
<1>4. LocalsOK(p)' /\ HoldsKey(p)' /\ SlotReserved(p)'
  BY <1>2 DEF LocalsOK, HoldsKey, SlotReserved, Slotting, Writing
<1>5. ASSUME NEW q \in Requests \ {p}, req[q].pc \in {"check", "place"}
      PROVE  locks'[Key(q)] = q
  <2>1. locks[Key(q)] = q /\ Key(q) \in Keys
    BY <1>5, KeyTyped DEF BookingInv, HoldsKey, Slotting
  <2> QED BY <1>1, <2>1 DEF Unlock, TypeOK
<1>6. UNCHANGED table
  BY DEF Unlock
<1> QED BY <1>2, <1>3, <1>4, <1>5, <1>6, QuietStep

\* An expiring lock keeps the invariant: its owner is not in a transaction.
LEMMA ExpireLockKeepsInv ==
  ASSUME BookingInv, NEW k \in Keys, ExpireLock(k)
  PROVE  BookingInv'
<1>1. TypeOK
  BY DEF BookingInv
<1>2. TypeOK'
  BY <1>1 DEF ExpireLock, TypeOK, table
<1>3. \A b \in BookingIds : RowOK(b)'
  BY DEF BookingInv, RowOK, Exists, ExpireLock, table
<1>4. SameSlotExclusive'
  BY DEF BookingInv, SameSlotExclusive, Active, ExpireLock, table
<1>5. ASSUME NEW q \in Requests
      PROVE  LocalsOK(q)' /\ HoldsKey(q)' /\ SlotReserved(q)'
  <2>1. LocalsOK(q) /\ HoldsKey(q) /\ SlotReserved(q)
    BY DEF BookingInv
  <2>2. UNCHANGED <<req, bookings, locked, revived>>
    BY DEF ExpireLock, table
  <2>3. LocalsOK(q)' /\ SlotReserved(q)'
    BY <2>1, <2>2 DEF LocalsOK, SlotReserved, Active, Exists
  <2>4. ASSUME req[q].pc \in {"check", "place"}
        PROVE  locks'[Key(q)] = q
    <3>1. locks[Key(q)] = q /\ Key(q) \in Keys
      BY <2>1, <2>4, KeyTyped DEF HoldsKey, Slotting
    <3>2. Key(q) # k
      BY <2>4, <3>1 DEF ExpireLock
    <3> QED BY <1>1, <3>1, <3>2 DEF ExpireLock, TypeOK
  <2>5. HoldsKey(q)'
    BY <2>2, <2>4 DEF HoldsKey, Key
  <2> QED BY <2>3, <2>5
<1> QED BY <1>2, <1>3, <1>4, <1>5 DEF BookingInv

\* A handler dies; only its own key changes hands.
LEMMA FailKeepsInv ==
  ASSUME BookingInv, NEW p \in Requests, Fail(p)
  PROVE  BookingInv'
<1>1. TypeOK
  BY DEF BookingInv
<1>2. /\ req' \in [Requests -> Locals] /\ req'[p].pc = "done"
      /\ \A q \in Requests \ {p} : req'[q] = req[q]
  BY <1>1, FinishUpdate DEF Fail
<1>3. since' \in [Requests -> SUBSET BookingIds]
  BY <1>1, HistoryTypes DEF Fail
<1>4. TypeOK'
  BY <1>1, <1>2, <1>3 DEF Fail, TypeOK, table
<1>5. LocalsOK(p)' /\ HoldsKey(p)' /\ SlotReserved(p)'
  BY <1>2 DEF LocalsOK, HoldsKey, SlotReserved, Slotting, Writing
<1>6. ASSUME NEW q \in Requests \ {p}, req[q].pc \in {"check", "place"}
      PROVE  locks'[Key(q)] = q
  <2>1. locks[Key(q)] = q /\ Key(q) \in Keys
    BY <1>6, KeyTyped DEF BookingInv, HoldsKey, Slotting
  <2> QED BY <2>1 DEF Fail
<1>7. UNCHANGED table
  BY DEF Fail
<1> QED BY <1>2, <1>4, <1>5, <1>6, <1>7, QuietStep

\* hold inserts its row.
LEMMA PlaceHoldKeepsInv ==
  ASSUME BookingInv, NEW p \in Requests, NEW b \in BookingIds, PlaceHold(p, b)
  PROVE  BookingInv'
<1> DEFINE row == HoldRow(req[p].lane, req[p].start, req[p].dur, {})
<1>1. TypeOK /\ LocalsOK(p) /\ req[p].pc = "place"
  BY DEF BookingInv, PlaceHold
<1>2. /\ req[p].lane \in Lanes /\ req[p].start \in Nat /\ req[p].dur \in Nat
  BY <1>1, TimeAssumption DEF LocalsOK, Slotting
<1>3. /\ row \in Rows /\ row.status = "HOLD" /\ row.lane = req[p].lane
      /\ row.start = req[p].start /\ row.dur = req[p].dur
  BY <1>2, TimeAssumption DEF HoldRow, Rows, Statuses
<1>4. bookings' = [bookings EXCEPT ![b] = row]
  BY DEF PlaceHold
<1>5. TypeOK'
  <2>1. req' \in [Requests -> Locals]
    BY <1>1, GotoUpdate DEF PlaceHold, PCs
  <2>2. /\ since' \in [Requests -> SUBSET BookingIds]
        /\ unseen' \in [BookingIds -> SUBSET BookingIds]
        /\ revived' \subseteq BookingIds /\ locked' \subseteq BookingIds
    BY <1>1, HistoryTypes DEF PlaceHold
  <2> HIDE DEF row
  <2> QED BY <1>1, <1>3, <1>4, <2>1, <2>2 DEF PlaceHold, TypeOK
<1>6. bookings'[b] = row /\ \A c \in BookingIds \ {b} : bookings'[c] = bookings[c]
  BY <1>1, <1>4 DEF TypeOK
<1>7. Exists(b)'
  BY <1>3, <1>6 DEF Exists
<1>8. /\ req[p].id = NoBooking /\ ~ Exists(b) /\ Goto(p, "unlock") /\ UNCHANGED locks
      /\ Placed({b}, since[p], TRUE)
  BY DEF PlaceHold
<1> HIDE DEF row
<1> QED BY <1>1, <1>3, <1>5, <1>6, <1>7, <1>8, PlaceStep

\* reschedule updates the times of its row.
LEMMA PlaceMoveKeepsInv ==
  ASSUME BookingInv, NEW p \in Requests, NEW b \in BookingIds, b = req[p].id, PlaceMove(p)
  PROVE  BookingInv'
<1>1. TypeOK /\ LocalsOK(p) /\ req[p].pc = "place" /\ b # NoBooking
  BY DEF BookingInv, PlaceMove
<1>2. Exists(b) /\ bookings[b].lane = req[p].lane
  BY <1>1 DEF LocalsOK, Slotting
<1>3. req[p].start \in Nat /\ req[p].dur \in Nat /\ req[p].lane \in Lanes
  BY <1>1, TimeAssumption DEF LocalsOK, Slotting
<1> DEFINE row == [bookings[b] EXCEPT !.start = req[p].start, !.dur = req[p].dur]
<1>4. bookings[b] \in Rows
  BY <1>1, <1>2 DEF TypeOK
<1>5. /\ row \in Rows /\ row.status = bookings[b].status /\ row.lane = bookings[b].lane
      /\ row.start = req[p].start /\ row.dur = req[p].dur
  BY <1>3, <1>4 DEF Rows
<1>6. bookings' = [bookings EXCEPT ![b] = row]
  BY <1>1, <1>2 DEF PlaceMove, TypeOK
<1>7. bookings'[b] = row /\ \A c \in BookingIds \ {b} : bookings'[c] = bookings[c]
  BY <1>1, <1>2, <1>6 DEF TypeOK
<1>8. TypeOK'
  <2>1. req' \in [Requests -> Locals]
    BY <1>1, GotoUpdate DEF PlaceMove, PCs
  <2>2. /\ since' \in [Requests -> SUBSET BookingIds]
        /\ unseen' \in [BookingIds -> SUBSET BookingIds]
        /\ revived' \subseteq BookingIds /\ locked' \subseteq BookingIds
    BY <1>1, <1>2, HistoryTypes DEF PlaceMove
  <2>3. UNCHANGED <<now, locks, awards>>
    BY DEF PlaceMove
  <2> HIDE DEF row
  <2> QED BY <1>1, <1>5, <1>6, <2>1, <2>2, <2>3 DEF TypeOK
<1>9. Exists(b)' /\ bookings'[b].lane = req[p].lane
  BY <1>1, <1>2, <1>5, <1>7 DEF Exists, LocalsOK, Slotting
<1>10. Goto(p, "unlock") /\ UNCHANGED locks /\ Placed({b}, since[p], TRUE)
  BY DEF PlaceMove
<1> HIDE DEF row
<1> QED BY <1>1, <1>2, <1>5, <1>7, <1>8, <1>9, <1>10, PlaceStep

---------------------------------------------------------------------------
(* createRecurring commits; status writes; cron and clock *)

\* The sessions are new rows that no lock protects.
LEMMA CommitRecurringKeepsInv ==
  ASSUME BookingInv, NEW p \in Requests, NEW ids \in [1 .. req[p].n -> BookingIds],
         CommitRecurring(p, ids)
  PROVE  BookingInv'
<1> DEFINE group == {ids[i] : i \in 1 .. req[p].n}
           Index(b) == CHOOSE i \in 1 .. req[p].n : ids[i] = b
           row(b) == HoldRow(req[p].lane, Occurrence(p, Index(b) - 1), req[p].dur, group)
<1>1. TypeOK /\ LocalsOK(p) /\ req[p].pc = "occur" /\ req[p].n \in Nat
  BY DEF BookingInv, CommitRecurring, TypeOK, Locals
<1>2. /\ req[p].lane \in Lanes /\ req[p].start \in Nat /\ req[p].dur \in Durations
      /\ req[p].dur \in Nat
  BY <1>1, TimeAssumption DEF LocalsOK, Slotting
<1>3. group \in SUBSET BookingIds
  OBVIOUS
<1>4. ASSUME NEW b \in group
      PROVE  row(b) \in Rows /\ row(b).status = "HOLD" /\ row(b).lane = req[p].lane
             /\ row(b).dur = req[p].dur
  <2>1. \E i \in 1 .. req[p].n : ids[i] = b
    BY <1>4
  <2>2. Index(b) \in 1 .. req[p].n
    BY <2>1
  <2>3. Index(b) - 1 \in Nat
    BY <1>1, <2>2
  <2> HIDE DEF Index
  <2>4. Occurrence(p, Index(b) - 1) \in Nat
    BY <1>2, <2>3, TimeAssumption DEF Occurrence
  <2> HIDE DEF group
  <2> QED BY <1>2, <1>3, <2>4, TimeAssumption DEF HoldRow, Rows, Statuses
<1>5. bookings' = [b \in BookingIds |-> IF b \in group THEN row(b) ELSE bookings[b]]
  BY DEF CommitRecurring
<1>6. \A b \in group : ~ Exists(b)
  BY DEF CommitRecurring
<1>7. Placed(group, since[p], FALSE) /\ Touched(p, group) /\ Finish(p)
      /\ UNCHANGED <<now, locks, awards>>
  BY DEF CommitRecurring
<1> HIDE DEF group, row
<1>8. /\ \A b \in group : bookings'[b] = row(b)
      /\ \A b \in BookingIds \ group : bookings'[b] = bookings[b]
  BY <1>3, <1>5
<1>9. /\ req' \in [Requests -> Locals] /\ req'[p].pc = "done"
      /\ \A q \in Requests \ {p} : req'[q] = req[q]
  BY <1>1, <1>7, FinishUpdate
<1>10. TypeOK'
  <2>1. /\ since' \in [Requests -> SUBSET BookingIds]
        /\ unseen' \in [BookingIds -> SUBSET BookingIds]
        /\ revived' \subseteq BookingIds /\ locked' \subseteq BookingIds
    BY <1>1, <1>3, <1>7, HistoryTypes
  <2>2. bookings' \in [BookingIds -> Rows]
    BY <1>1, <1>4, <1>5 DEF TypeOK
  <2> QED BY <1>1, <1>7, <1>9, <2>1, <2>2 DEF TypeOK
<1>11. \A b \in BookingIds : RowOK(b)'
  BY <1>2, <1>4, <1>8 DEF BookingInv, RowOK, Exists
<1>12. \A b \in BookingIds : Exists(b) => Exists(b)' /\ bookings'[b].lane = bookings[b].lane
  BY <1>6, <1>8 DEF Exists
<1>13. \A b \in locked' \ revived' : Active(b)' =>
         /\ b \in locked \ revived /\ Active(b)
         /\ bookings'[b].lane = bookings[b].lane /\ bookings'[b].start = bookings[b].start
  BY <1>1, <1>7, <1>8 DEF Placed, Active, TypeOK
<1>14. \A q \in Requests : req'[q] = req[q] \/ req'[q].pc \in {"done", "group"}
  BY <1>9
<1> QED BY <1>7, <1>10, <1>11, <1>12, <1>13, <1>14, ShrinkStep

\* A write of status s to the row of b by a request that then ends, or goes
\* on to the next booking of its group.
LEMMA StatusWriteKeepsInv ==
  ASSUME BookingInv, NEW p \in Requests, NEW b \in BookingIds, NEW s \in Statuses,
         Exists(b), SetStatus(b, s), StatusHistory(b, s), Touched(p, {b}),
         awards' \in [BookingIds -> Nat], UNCHANGED <<now, locks>>,
         req' \in [Requests -> Locals], req'[p].pc \in {"done", "group"},
         \A q \in Requests \ {p} : req'[q] = req[q]
  PROVE  BookingInv'
<1> DEFINE row == [bookings[b] EXCEPT !.status = s, !.ttl = -1]
<1>1. TypeOK /\ bookings[b] \in Rows
  BY DEF BookingInv, TypeOK
<1>2. /\ row \in Rows /\ row.status = s /\ row.lane = bookings[b].lane
      /\ row.start = bookings[b].start /\ row.dur = bookings[b].dur
  <2>1. -1 \in -1 .. HoldTTL
    BY TimeAssumption
  <2> QED BY <1>1, <2>1 DEF Rows
<1>3. bookings' = [bookings EXCEPT ![b] = row]
  BY <1>1 DEF SetStatus, TypeOK
<1> HIDE DEF row
<1>4. bookings'[b] = row /\ \A c \in BookingIds \ {b} : bookings'[c] = bookings[c]
  BY <1>1, <1>3 DEF TypeOK
<1>5. s # "NONE"
  BY DEF Statuses
<1>6. TypeOK'
  <2>1. since' \in [Requests -> SUBSET BookingIds]
    BY <1>1, HistoryTypes
  <2>2. /\ unseen' \in [BookingIds -> SUBSET BookingIds]
        /\ revived' \subseteq BookingIds /\ locked' \subseteq BookingIds
    <3>1. CASE Deactivated({b})
      BY <1>1, <3>1, HistoryTypes
    <3>2. CASE ~ Deactivated({b})
      BY <1>1, <3>2 DEF StatusHistory, TypeOK
    <3> QED BY <3>1, <3>2
  <2> QED BY <1>1, <1>2, <1>3, <2>1, <2>2 DEF TypeOK
<1>7. \A c \in BookingIds : RowOK(c)'
  BY <1>2, <1>4 DEF BookingInv, RowOK, Exists
<1>8. \A c \in BookingIds : Exists(c) => Exists(c)' /\ bookings'[c].lane = bookings[c].lane
  BY <1>2, <1>4, <1>5 DEF Exists
<1>9. \A c \in locked' \ revived' : Active(c)' =>
         /\ c \in locked \ revived /\ Active(c)
         /\ bookings'[c].lane = bookings[c].lane /\ bookings'[c].start = bookings[c].start
  <2>1. locked' = locked /\ locked \subseteq BookingIds
    BY <1>1 DEF StatusHistory, Deactivated, TypeOK
  <2>2. \A c \in BookingIds \ {b} : c \in revived' <=> c \in revived
    BY DEF StatusHistory, Deactivated
  <2>3. Active(b)' => s \in ActiveStatuses
    BY <1>2, <1>4 DEF Active
  <2>4. s \in ActiveStatuses /\ b \notin revived' => Active(b) /\ b \notin revived
    BY DEF StatusHistory
  <2> QED BY <1>2, <1>4, <2>1, <2>2, <2>3, <2>4 DEF Active
<1>10. \A q \in Requests : req'[q] = req[q] \/ req'[q].pc \in {"done", "group"}
  OBVIOUS
<1> QED BY <1>6, <1>7, <1>8, <1>9, <1>10, ShrinkStep

\* The four places that write a status.
LEMMA WritesKeepInv ==
  ASSUME BookingInv, NEW p \in Requests, NEW next \in {"PENDING", "CONFIRMED"},
         WriteExpire(p) \/ WriteConfirm(p, next) \/ WriteStatus(p) \/ WritePayment(p)
  PROVE  BookingInv'
<1>1. TypeOK /\ LocalsOK(p) /\ req[p] \in Locals /\ req[p].pc \in Writing
  BY DEF BookingInv, TypeOK, WriteExpire, WriteConfirm, WriteStatus, WritePayment, Writing
<1>2. PICK b \in BookingIds : b = req[p].id /\ Exists(b)
  BY <1>1 DEF LocalsOK
<1>3. ASSUME Finish(p)
      PROVE  /\ req' \in [Requests -> Locals] /\ req'[p].pc \in {"done", "group"}
             /\ \A q \in Requests \ {p} : req'[q] = req[q]
  BY <1>1, <1>3, FinishUpdate
<1>4. ASSUME req' = [req EXCEPT ![p] = [Idle EXCEPT !.pc = "group", !.todo = req[p].todo]]
      PROVE  /\ req' \in [Requests -> Locals] /\ req'[p].pc \in {"done", "group"}
             /\ \A q \in Requests \ {p} : req'[q] = req[q]
  <2> DEFINE r == [Idle EXCEPT !.pc = "group", !.todo = req[p].todo]
  <2>1. req[p].todo \in SUBSET BookingIds
    BY <1>1 DEF Locals
  <2>2. r \in Locals /\ r.pc = "group"
    BY <2>1 DEF Idle, Locals, PCs
  <2>3. req' = [req EXCEPT ![p] = r]
    BY <1>4
  <2> HIDE DEF r
  <2> QED BY <1>1, <2>2, <2>3, LocalsUpdate
<1>5. awards \in [BookingIds -> Nat] /\ [awards EXCEPT ![b] = @ + 1] \in [BookingIds -> Nat]
  BY <1>1 DEF TypeOK
<1>6. CASE WriteExpire(p)
  BY <1>2, <1>3, <1>5, <1>6, StatusWriteKeepsInv DEF WriteExpire, Statuses
<1>7. CASE WriteConfirm(p, next)
  <2>1. awards' \in [BookingIds -> Nat]
    BY <1>2, <1>5, <1>7 DEF WriteConfirm
  <2>2. /\ req' \in [Requests -> Locals] /\ req'[p].pc \in {"done", "group"}
        /\ \A q \in Requests \ {p} : req'[q] = req[q]
    BY <1>3, <1>4, <1>7 DEF WriteConfirm
  <2> QED BY <1>2, <1>7, <2>1, <2>2, StatusWriteKeepsInv DEF WriteConfirm, Statuses
<1>8. CASE WriteStatus(p)
  <2>1. req[p].to \in Statuses
    BY <1>1, <1>8 DEF LocalsOK, WriteStatus
  <2>2. PICK s \in Statuses : s = req[p].to
    BY <2>1
  <2> QED BY <1>2, <1>3, <1>5, <1>8, <2>2, StatusWriteKeepsInv DEF WriteStatus
<1>9. CASE WritePayment(p)
  BY <1>2, <1>3, <1>5, <1>9, StatusWriteKeepsInv DEF WritePayment, Statuses
<1> QED BY <1>6, <1>7, <1>8, <1>9

\* The cron job cancels expired holds in one statement.
LEMMA ReleaseKeepsInv ==
  ASSUME BookingInv, ReleaseExpiredHolds
  PROVE  BookingInv'
<1> DEFINE S == {b \in BookingIds : bookings[b].status = "HOLD" /\ Expired(b)}
<1>1. TypeOK
  BY DEF BookingInv
<1>2. bookings' = [b \in BookingIds |->
         IF b \in S THEN [bookings[b] EXCEPT !.status = "CANCELLED"] ELSE bookings[b]]
  BY DEF ReleaseExpiredHolds
<1>3. /\ since' = [q \in Requests |-> IF Watching(q) THEN since[q] \cup S ELSE {}]
      /\ Deactivated(S) /\ UNCHANGED <<now, locks, req, awards>>
  BY DEF ReleaseExpiredHolds
<1>4. S \in SUBSET BookingIds
  OBVIOUS
<1>5. \A b \in S : bookings[b].status = "HOLD"
  OBVIOUS
<1> HIDE DEF S
<1>6. ASSUME NEW b \in BookingIds
      PROVE  /\ bookings'[b] \in Rows /\ bookings'[b].lane = bookings[b].lane
             /\ bookings'[b].start = bookings[b].start /\ bookings'[b].dur = bookings[b].dur
             /\ b \in S => bookings'[b].status = "CANCELLED"
             /\ b \notin S => bookings'[b] = bookings[b]
  <2>1. bookings[b] \in Rows
    BY <1>1 DEF TypeOK
  <2> QED BY <1>2, <2>1 DEF Rows, Statuses
<1>7. TypeOK'
  <2>1. bookings' \in [BookingIds -> Rows]
    BY <1>2, <1>6
  <2>2. since' \in [Requests -> SUBSET BookingIds]
    BY <1>1, <1>3, <1>4 DEF TypeOK
  <2>3. /\ unseen' \in [BookingIds -> SUBSET BookingIds]
        /\ revived' \subseteq BookingIds /\ locked' \subseteq BookingIds
    BY <1>1, <1>3, <1>4 DEF Deactivated, TypeOK
  <2> QED BY <1>1, <1>3, <2>1, <2>2, <2>3 DEF TypeOK
<1>8. \A b \in BookingIds : RowOK(b)'
  BY <1>5, <1>6 DEF BookingInv, RowOK, Exists
<1>9. \A b \in BookingIds : Exists(b) => Exists(b)' /\ bookings'[b].lane = bookings[b].lane
  BY <1>6 DEF Exists
<1>10. \A b \in locked' \ revived' : Active(b)' =>
         /\ b \in locked \ revived /\ Active(b)
         /\ bookings'[b].lane = bookings[b].lane /\ bookings'[b].start = bookings[b].start
  <2>1. \A b \in BookingIds : Active(b)' => b \notin S
    BY <1>6 DEF Active, ActiveStatuses
  <2> QED BY <1>1, <1>3, <1>6, <2>1 DEF Deactivated, Active, TypeOK
<1> QED BY <1>3, <1>7, <1>8, <1>9, <1>10, ShrinkStep

\* Time passes: only the remaining time of holds changes.
LEMMA TickKeepsInv ==
  ASSUME BookingInv, Tick
  PROVE  BookingInv'
<1>1. TypeOK
  BY DEF BookingInv
<1>2. ASSUME NEW b \in BookingIds
      PROVE  /\ bookings'[b] \in Rows /\ bookings'[b].lane = bookings[b].lane
             /\ bookings'[b].start = bookings[b].start /\ bookings'[b].dur = bookings[b].dur
             /\ bookings'[b].status = bookings[b].status
  <2> DEFINE t == IF bookings[b].ttl >= 0 THEN bookings[b].ttl - 1 ELSE bookings[b].ttl
  <2>1. bookings[b] \in Rows
    BY <1>1 DEF TypeOK
  <2>2. t \in -1 .. HoldTTL
    BY <2>1, TimeAssumption DEF Rows
  <2>3. bookings'[b] = [bookings[b] EXCEPT !.ttl = t]
    BY DEF Tick
  <2> HIDE DEF t
  <2> QED BY <2>1, <2>2, <2>3 DEF Rows
<1>3. TypeOK'
  <2>1. bookings' \in [BookingIds -> Rows]
    <3>1. bookings' = [b \in BookingIds |->
            [bookings[b] EXCEPT !.ttl = IF @ >= 0 THEN @ - 1 ELSE @]]
      BY DEF Tick
    <3> QED BY <1>2, <3>1
  <2>2. now' \in 0 .. Horizon
    BY <1>1, TimeAssumption DEF TypeOK, Tick
  <2> QED BY <1>1, <2>1, <2>2 DEF TypeOK, Tick
<1>4. \A b \in BookingIds : RowOK(b)'
  BY <1>2 DEF BookingInv, RowOK, Exists
<1>5. \A b \in BookingIds : Exists(b) => Exists(b)' /\ bookings'[b].lane = bookings[b].lane
  BY <1>2 DEF Exists
<1>6. \A b \in locked' \ revived' : Active(b)' =>
         /\ b \in locked \ revived /\ Active(b)
         /\ bookings'[b].lane = bookings[b].lane /\ bookings'[b].start = bookings[b].start
  BY <1>1, <1>2 DEF Tick, Active, TypeOK
<1>7. UNCHANGED <<locks, req>>
  BY DEF Tick
<1> QED BY <1>3, <1>4, <1>5, <1>6, <1>7, ShrinkStep

---------------------------------------------------------------------------

\* A new request.
LEMMA ArriveKeepsInv ==
  ASSUME BookingInv, NEW p \in Requests, Arrive(p)
  PROVE  BookingInv'
<1>1. ASSUME NEW lane \in Lanes, NEW s \in Starts, NEW d \in Durations,
             BeginHold(p, lane, s, d)
      PROVE  BookingInv'
  BY <1>1, BeginHoldKeepsInv
<1>2. ASSUME NEW lane \in Lanes, NEW s \in Starts, NEW d \in Durations, NEW n \in Occurrences,
             BeginRecurring(p, lane, s, d, n)
      PROVE  BookingInv'
  BY <1>2, BeginRecurringKeepsInv
<1>3. ASSUME NEW b \in BookingIds, NEW s \in Starts, NEW d \in Durations,
             ReadReschedule(p, b, s, d)
      PROVE  BookingInv'
  BY <1>3, ReadRescheduleKeepsInv
<1>4. ASSUME NEW b \in BookingIds, ReadConfirm(p, b) \/ ReadGroup(p, b)
      PROVE  BookingInv'
  BY <1>4, ConfirmReadKeepsInv, ReadGroupKeepsInv DEF ReadConfirm
<1>5. ASSUME NEW b \in BookingIds, NEW s \in DtoStatuses,
             ReadCancel(p, b) \/ ReadUpdateStatus(p, b, s) \/ ReadPayment(p, b)
      PROVE  BookingInv'
  BY <1>5, ReadsKeepInv
<1>6. "CANCELLED" \in DtoStatuses
  BY DEF DtoStatuses
<1> QED BY <1>1, <1>2, <1>3, <1>4, <1>5, <1>6 DEF Arrive

\* A step of a handler.
LEMMA ProceedKeepsInv ==
  ASSUME BookingInv, NEW p \in Requests, Proceed(p)
  PROVE  BookingInv'
<1>1. CASE FindFreeSlot(p) \/ Acquire(p) \/ AssertSlotFree(p) \/ AbortTx(p) \/ Unlock(p)
  BY <1>1, FindFreeSlotKeepsInv, AcquireKeepsInv, CheckKeepsInv, UnlockKeepsInv
<1>2. CASE \E b \in BookingIds : PlaceHold(p, b)
  BY <1>2, PlaceHoldKeepsInv
<1>3. CASE PlaceMove(p)
  <2>1. req[p].id \in BookingIds
    BY <1>3 DEF PlaceMove, BookingInv, TypeOK, Locals
  <2> QED BY <1>3, <2>1, PlaceMoveKeepsInv
<1>4. CASE CheckOccurrence(p) \/ AbortRecurring(p)
  BY <1>4, RecurringKeepsInv
<1>5. CASE \E ids \in [1 .. req[p].n -> BookingIds] :
             /\ \A i, j \in 1 .. req[p].n : i # j => ids[i] # ids[j]
             /\ CommitRecurring(p, ids)
  BY <1>5, CommitRecurringKeepsInv
<1>6. CASE \E b \in BookingIds : NextInGroup(p, b)
  <2>1. PICK b \in BookingIds : ConfirmRead(p, b, req[p].todo \ {b})
    BY <1>6 DEF NextInGroup
  <2>2. req[p].todo \ {b} \in SUBSET BookingIds
    BY DEF BookingInv, TypeOK, Locals
  <2> QED BY <2>1, <2>2, ConfirmReadKeepsInv
<1>7. CASE WriteExpire(p) \/ (\E next \in {"PENDING", "CONFIRMED"} : WriteConfirm(p, next))
           \/ WriteStatus(p) \/ WritePayment(p)
  BY <1>7, WritesKeepInv
<1> QED BY <1>1, <1>2, <1>3, <1>4, <1>5, <1>6, <1>7 DEF Proceed

\* BookingInv is inductive.
LEMMA BookingStep == BookingInv /\ [Next]_vars => BookingInv'
<1> SUFFICES ASSUME BookingInv, [Next]_vars PROVE BookingInv'
  OBVIOUS
<1>1. CASE UNCHANGED vars
  BY <1>1 DEF vars, BookingInv, TypeOK, RowOK, LocalsOK, HoldsKey, SlotReserved,
              SameSlotExclusive, Active, Exists, Key
<1>2. CASE \E p \in Requests : Arrive(p) \/ Proceed(p) \/ Fail(p)
  BY <1>2, ArriveKeepsInv, ProceedKeepsInv, FailKeepsInv
<1>3. CASE (\E k \in Keys : ExpireLock(k)) \/ ReleaseExpiredHolds \/ Tick
  BY <1>3, ExpireLockKeepsInv, ReleaseKeepsInv, TickKeepsInv
<1> QED BY <1>1, <1>2, <1>3 DEF Next

\* The types of the Booking table, the slot locks and the handlers' locals.
THEOREM BookingTypes == Spec => []TypeOK
<1>1. BookingInv => TypeOK
  BY DEF BookingInv
<1> QED BY <1>1, BookingInit, BookingStep, PTL DEF Spec

\* Two active bookings never share lane and start, unless one bypassed the
\* lock or was revived by a late write: what withLock buys hold and reschedule.
THEOREM SlotsExclusive == Spec => []SameSlotExclusive
<1>1. BookingInv => SameSlotExclusive
  BY DEF BookingInv
<1> QED BY <1>1, BookingInit, BookingStep, PTL DEF Spec

---------------------------------------------------------------------------
(* What a request has read is still so, but for the rows in since *)

\* An active booking in the way of one at s with duration d.
Clashes(lane, s, d, b) == Active(b) /\ bookings[b].lane = lane /\ Overlap(s, d, b)

\* hold and reschedule between check and commit.
SlotSeen(p) ==
    req[p].pc = "place" =>
      \A b \in BookingIds \ {req[p].id} :
        Clashes(req[p].lane, req[p].start, req[p].dur, b) => b \in since[p]

\* createRecurring after some checks; its sessions do not clash with each other.
OccurSeen(p) ==
    req[p].pc = "occur" =>
      \A i \in 0 .. req[p].made - 1 :
        /\ \A b \in BookingIds :
             Clashes(req[p].lane, Occurrence(p, i), req[p].dur, b) => b \in since[p]
        /\ \A j \in 0 .. i - 1 : Occurrence(p, j) + req[p].dur <= Occurrence(p, i)

\* A handler between the read and the write of a status.
StatusSeen(p) ==
    \/ req[p].id \in since[p]
    \/ /\ req[p].pc \in {"confirm", "expire"} => bookings[req[p].id].status = "HOLD"
       /\ req[p].pc = "write" =>
            req[p].to \in ALLOWED_STATUS_TRANSITIONS[bookings[req[p].id].status]
       /\ req[p].pc = "pay" => bookings[req[p].id].status = "PENDING"

Fresh(p) == SlotSeen(p) /\ OccurSeen(p) /\ StatusSeen(p)

FreshInv == \A p \in Requests : Fresh(p)

\* The status, place and times of b stay as they are.
Same(b) == /\ bookings'[b].status = bookings[b].status /\ bookings'[b].lane = bookings[b].lane
           /\ bookings'[b].start = bookings[b].start /\ bookings'[b].dur = bookings[b].dur

\* Every row that changes under q is in since.
Kept(q) == Watching(q) => \A b \in BookingIds : /\ b \in since[q] => b \in since'[q]
                                                /\ b \in since'[q] \/ Same(b)

Others(p) == \A q \in Requests \ {p} : req'[q] = req[q]

LEMMA FreshKept ==
  ASSUME BookingInv, NEW q \in Requests, Fresh(q), req'[q] = req[q], Kept(q)
  PROVE  Fresh(q)'
<1>1. ASSUME NEW b \in BookingIds, Same(b), NEW lane, NEW s, NEW d, Clashes(lane, s, d, b)'
      PROVE  Clashes(lane, s, d, b)
  BY <1>1 DEF Same, Clashes, Active, Overlap
<1>2. SlotSeen(q)'
  <2> SUFFICES ASSUME req[q].pc = "place", NEW b \in BookingIds \ {req[q].id},
                      Clashes(req[q].lane, req[q].start, req[q].dur, b)'
               PROVE  b \in since'[q]
    BY DEF SlotSeen, Clashes, Active, Overlap
  <2>1. (b \in since[q] => b \in since'[q]) /\ (b \in since'[q] \/ Same(b))
    BY DEF Kept, Watching
  <2>2. PICK lane, s, d : lane = req[q].lane /\ s = req[q].start /\ d = req[q].dur
    OBVIOUS
  <2>3. Clashes(lane, s, d, b)'
    BY <2>2 DEF Clashes, Active, Overlap
  <2>4. Same(b) => Clashes(req[q].lane, req[q].start, req[q].dur, b)
    BY <1>1, <2>2, <2>3
  <2> QED BY <2>1, <2>4 DEF Fresh, SlotSeen
<1>3. OccurSeen(q)'
  <2> SUFFICES ASSUME req[q].pc = "occur"
               PROVE  OccurSeen(q)'
    BY DEF OccurSeen
  <2>1. ASSUME NEW i \in 0 .. req[q].made - 1, NEW b \in BookingIds,
               Clashes(req[q].lane, Occurrence(q, i), req[q].dur, b)'
        PROVE  b \in since'[q]
    <3>1. (b \in since[q] => b \in since'[q]) /\ (b \in since'[q] \/ Same(b))
      BY DEF Kept, Watching
    <3>2. PICK lane, s, d : lane = req[q].lane /\ s = Occurrence(q, i) /\ d = req[q].dur
      OBVIOUS
    <3>3. Occurrence(q, i)' = s /\ req'[q].lane = lane /\ req'[q].dur = d
      BY <3>2 DEF Occurrence
    <3>4. Clashes(lane, s, d, b)'
      BY <2>1, <3>3 DEF Clashes, Active, Overlap
    <3>5. Same(b) => Clashes(req[q].lane, Occurrence(q, i), req[q].dur, b)
      BY <1>1, <3>2, <3>4
    <3> QED BY <3>1, <3>5 DEF Fresh, OccurSeen
  <2>2. ASSUME NEW i \in 0 .. req[q].made - 1, NEW j \in 0 .. i - 1
        PROVE  (Occurrence(q, j) + req[q].dur <= Occurrence(q, i))'
    BY DEF Fresh, OccurSeen, Occurrence
  <2> QED BY <2>1, <2>2 DEF OccurSeen
<1>4. StatusSeen(q)'
  <2>1. CASE req[q].pc \in Writing
    <3>1. req[q].id \in BookingIds
      BY <2>1 DEF BookingInv, LocalsOK
    <3>2. /\ req[q].id \in since[q] => req[q].id \in since'[q]
          /\ req[q].id \in since'[q] \/ Same(req[q].id)
      BY <2>1, <3>1 DEF Kept, Watching, Writing
    <3>3. Same(req[q].id) => bookings'[req[q].id].status = bookings[req[q].id].status
      BY DEF Same
    <3> QED BY <3>2, <3>3 DEF Fresh, StatusSeen
  <2>2. CASE req[q].pc \notin Writing
    BY <2>2 DEF StatusSeen, Writing
  <2> QED BY <2>1, <2>2
<1> QED BY <1>2, <1>3, <1>4 DEF Fresh

\* A request that waits for nothing it has read.
LEMMA FreshPlain ==
  ASSUME NEW p \in Requests, req'[p].pc \notin Writing \cup {"place", "occur"}
  PROVE  Fresh(p)'
  BY DEF Fresh, SlotSeen, OccurSeen, StatusSeen, Writing

\* p reads or ends, and the table stays as it is.
LEMMA FreshQuiet ==
  ASSUME BookingInv, FreshInv, NEW p \in Requests, UNCHANGED table, Others(p),
         Seen(p) \/ UNCHANGED since, Fresh(p)'
  PROVE  FreshInv'
<1>1. ASSUME NEW q \in Requests, q # p
      PROVE  Fresh(q)'
  <2>1. since'[q] = since[q]
    BY <1>1 DEF Seen, BookingInv, TypeOK
  <2>2. Kept(q)
    BY <2>1 DEF Kept, Same, table
  <2> QED BY <1>1, <2>2, FreshKept DEF FreshInv, Others
<1> QED BY <1>1 DEF FreshInv

\* p writes the rows in S, and is done with what it read.
LEMMA FreshWrite ==
  ASSUME BookingInv, FreshInv, NEW p \in Requests, NEW S \in SUBSET BookingIds, Touched(p, S),
         Others(p), \A b \in BookingIds \ S : Same(b),
         req'[p].pc \in {"done", "unlock", "group"}
  PROVE  FreshInv'
<1>1. ASSUME NEW q \in Requests, q # p
      PROVE  Fresh(q)'
  <2>1. Watching(q) => since'[q] = since[q] \cup S
    BY <1>1 DEF Touched
  <2>2. Kept(q)
    BY <2>1 DEF Kept
  <2> QED BY <1>1, <2>2, FreshKept DEF FreshInv, Others
<1>2. Fresh(p)'
  BY FreshPlain DEF Writing
<1> QED BY <1>1, <1>2 DEF FreshInv

---------------------------------------------------------------------------
(* What the writes do to the table *)

LEMMA PlaceHoldRows ==
  ASSUME BookingInv, NEW p \in Requests, NEW b \in BookingIds, PlaceHold(p, b)
  PROVE  /\ bookings'[b].status = "HOLD" /\ bookings'[b].lane = req[p].lane
         /\ bookings'[b].start = req[p].start /\ bookings'[b].dur = req[p].dur
         /\ \A c \in BookingIds \ {b} : Same(c)
         /\ Others(p) /\ req'[p].pc = "unlock"
<1>1. TypeOK
  BY DEF BookingInv
<1>2. bookings' = [bookings EXCEPT ![b] = HoldRow(req[p].lane, req[p].start, req[p].dur, {})]
  BY DEF PlaceHold
<1>3. /\ bookings'[b] = HoldRow(req[p].lane, req[p].start, req[p].dur, {})
      /\ \A c \in BookingIds \ {b} : bookings'[c] = bookings[c]
  BY <1>1, <1>2 DEF TypeOK
<1>4. Others(p) /\ req'[p].pc = "unlock"
  BY <1>1, GotoUpdate DEF PlaceHold, PCs, Others
<1> QED BY <1>3, <1>4 DEF HoldRow, Same

LEMMA PlaceMoveRows ==
  ASSUME BookingInv, NEW p \in Requests, NEW b \in BookingIds, b = req[p].id, PlaceMove(p)
  PROVE  /\ bookings'[b].status = bookings[b].status /\ bookings'[b].lane = req[p].lane
         /\ bookings'[b].start = req[p].start /\ bookings'[b].dur = req[p].dur
         /\ \A c \in BookingIds \ {b} : Same(c)
         /\ Others(p) /\ req'[p].pc = "unlock"
<1>1. TypeOK /\ bookings[b] \in Rows
  BY DEF BookingInv, TypeOK
<1>2. bookings[b].lane = req[p].lane
  BY DEF BookingInv, LocalsOK, PlaceMove, Slotting
<1> DEFINE row == [bookings[b] EXCEPT !.start = req[p].start, !.dur = req[p].dur]
<1>3. bookings' = [bookings EXCEPT ![b] = row]
  BY <1>1 DEF PlaceMove, TypeOK
<1>4. /\ row.status = bookings[b].status /\ row.lane = bookings[b].lane
      /\ row.start = req[p].start /\ row.dur = req[p].dur
  BY <1>1 DEF Rows
<1> HIDE DEF row
<1>5. bookings'[b] = row /\ \A c \in BookingIds \ {b} : bookings'[c] = bookings[c]
  BY <1>1, <1>3 DEF TypeOK
<1>6. Others(p) /\ req'[p].pc = "unlock"
  BY <1>1, GotoUpdate DEF PlaceMove, PCs, Others
<1> QED BY <1>2, <1>4, <1>5, <1>6 DEF Same

\* The rows in S become the sessions of p.
Sessions(p, ids, S) ==
    /\ \A b \in S : /\ ~ Exists(b) /\ bookings'[b].lane = req[p].lane
                    /\ bookings'[b].dur = req[p].dur
                    /\ \E i \in 1 .. req[p].n :
                         ids[i] = b /\ bookings'[b].start = Occurrence(p, i - 1)
    /\ \A b \in BookingIds \ S : Same(b)

LEMMA CommitRows ==
  ASSUME BookingInv, NEW p \in Requests, NEW ids \in [1 .. req[p].n -> BookingIds],
         CommitRecurring(p, ids)
  PROVE  \E S \in SUBSET BookingIds :
           /\ Placed(S, since[p], FALSE) /\ Touched(p, S) /\ Sessions(p, ids, S)
           /\ Others(p) /\ req'[p].pc = "done"
<1> DEFINE S == {ids[i] : i \in 1 .. req[p].n}
           Index(b) == CHOOSE i \in 1 .. req[p].n : ids[i] = b
           row(b) == HoldRow(req[p].lane, Occurrence(p, Index(b) - 1), req[p].dur, S)
<1>1. TypeOK /\ S \in SUBSET BookingIds
  BY DEF BookingInv
<1>2. /\ Placed(S, since[p], FALSE) /\ Touched(p, S) /\ \A b \in S : ~ Exists(b)
      /\ bookings' = [b \in BookingIds |-> IF b \in S THEN row(b) ELSE bookings[b]]
  BY DEF CommitRecurring
<1>3. \A b \in S : Index(b) \in 1 .. req[p].n /\ ids[Index(b)] = b
  OBVIOUS
<1>4. ASSUME NEW b \in S
      PROVE  /\ row(b).lane = req[p].lane /\ row(b).dur = req[p].dur
             /\ row(b).start = Occurrence(p, Index(b) - 1)
  BY DEF HoldRow
<1>5. Others(p) /\ req'[p].pc = "done"
  BY <1>1, FinishUpdate DEF CommitRecurring, Others
<1> HIDE DEF S, Index, row
<1>6. /\ \A b \in S : bookings'[b] = row(b)
      /\ \A b \in BookingIds \ S : bookings'[b] = bookings[b]
  BY <1>1, <1>2
<1>7. \A b \in S : /\ bookings'[b].lane = req[p].lane /\ bookings'[b].dur = req[p].dur
                   /\ \E i \in 1 .. req[p].n :
                        ids[i] = b /\ bookings'[b].start = Occurrence(p, i - 1)
  BY <1>3, <1>4, <1>6
<1>8. \A b \in BookingIds \ S : Same(b)
  BY <1>6 DEF Same
<1> QED BY <1>1, <1>2, <1>5, <1>7, <1>8 DEF Sessions

LEMMA SetStatusRows ==
  ASSUME BookingInv, NEW b \in BookingIds, NEW s \in Statuses, SetStatus(b, s)
  PROVE  /\ bookings'[b].status = s /\ bookings'[b].lane = bookings[b].lane
         /\ bookings'[b].start = bookings[b].start /\ bookings'[b].dur = bookings[b].dur
         /\ \A c \in BookingIds \ {b} : Same(c)
<1> DEFINE row == [bookings[b] EXCEPT !.status = s, !.ttl = -1]
<1>1. TypeOK /\ bookings[b] \in Rows
  BY DEF BookingInv, TypeOK
<1>2. /\ row.status = s /\ row.lane = bookings[b].lane
      /\ row.start = bookings[b].start /\ row.dur = bookings[b].dur
  BY <1>1 DEF Rows
<1>3. bookings' = [bookings EXCEPT ![b] = row]
  BY <1>1 DEF SetStatus, TypeOK
<1> HIDE DEF row
<1>4. bookings'[b] = row /\ \A c \in BookingIds \ {b} : bookings'[c] = bookings[c]
  BY <1>1, <1>3 DEF TypeOK
<1> QED BY <1>2, <1>4 DEF Same

LEMMA ReleaseRows ==
  ASSUME BookingInv, ReleaseExpiredHolds
  PROVE  \E S \in SUBSET BookingIds :
           /\ Deactivated(S)
           /\ since' = [q \in Requests |-> IF Watching(q) THEN since[q] \cup S ELSE {}]
           /\ \A b \in S : bookings[b].status = "HOLD" /\ bookings'[b].status = "CANCELLED"
           /\ \A b \in BookingIds \ S : Same(b)
<1> DEFINE S == {b \in BookingIds : bookings[b].status = "HOLD" /\ Expired(b)}
<1>1. S \in SUBSET BookingIds /\ \A b \in S : bookings[b].status = "HOLD"
  OBVIOUS
<1>2. /\ Deactivated(S)
      /\ since' = [q \in Requests |-> IF Watching(q) THEN since[q] \cup S ELSE {}]
      /\ bookings' = [b \in BookingIds |->
           IF b \in S THEN [bookings[b] EXCEPT !.status = "CANCELLED"] ELSE bookings[b]]
  BY DEF ReleaseExpiredHolds
<1> HIDE DEF S
<1>3. ASSUME NEW b \in S
      PROVE  bookings'[b].status = "CANCELLED"
  <2>1. bookings'[b] = [bookings[b] EXCEPT !.status = "CANCELLED"] /\ bookings[b] \in Rows
    BY <1>1, <1>2 DEF BookingInv, TypeOK
  <2> QED BY <2>1 DEF Rows
<1>4. \A b \in BookingIds \ S : Same(b)
  BY <1>2 DEF Same
<1> QED BY <1>1, <1>2, <1>3, <1>4

LEMMA TickRows ==
  ASSUME BookingInv, Tick
  PROVE  \A b \in BookingIds : Same(b)
<1> SUFFICES ASSUME NEW b \in BookingIds PROVE Same(b)
  OBVIOUS
<1> DEFINE t == IF bookings[b].ttl >= 0 THEN bookings[b].ttl - 1 ELSE bookings[b].ttl
<1>1. bookings[b] \in Rows /\ bookings'[b] = [bookings[b] EXCEPT !.ttl = t]
  BY DEF BookingInv, TypeOK, Tick
<1> HIDE DEF t
<1> QED BY <1>1 DEF Rows, Same

\* The status that a handler writes is one that the matrix allows from what it read.
LEMMA WriteRows ==
  ASSUME BookingInv, NEW p \in Requests, Fresh(p), NEW next \in {"PENDING", "CONFIRMED"},
         WriteExpire(p) \/ WriteConfirm(p, next) \/ WriteStatus(p) \/ WritePayment(p)
  PROVE  \E b \in BookingIds, s \in Statuses :
           /\ b = req[p].id /\ Exists(b) /\ SetStatus(b, s) /\ StatusHistory(b, s)
           /\ Touched(p, {b}) /\ Others(p) /\ req'[p].pc \in {"done", "group"}
           /\ req[p].pc \notin {"done", "group"}
           /\ b \in since[p] \/ s \in ALLOWED_STATUS_TRANSITIONS[bookings[b].status]
<1>1. TypeOK /\ LocalsOK(p) /\ req[p] \in Locals /\ req[p].pc \in Writing
  BY DEF BookingInv, TypeOK, WriteExpire, WriteConfirm, WriteStatus, WritePayment, Writing
<1>2. PICK b \in BookingIds : b = req[p].id /\ Exists(b)
  BY <1>1 DEF LocalsOK
<1>3. Touched(p, {b}) /\ req[p].pc \notin {"done", "group"}
  BY <1>1, <1>2 DEF WriteExpire, WriteConfirm, WriteStatus, WritePayment, Writing
<1>4. Others(p) /\ req'[p].pc \in {"done", "group"}
  <2>1. CASE Finish(p)
    BY <1>1, <2>1, FinishUpdate DEF Others
  <2>2. CASE req' = [req EXCEPT ![p] = [Idle EXCEPT !.pc = "group", !.todo = req[p].todo]]
    <3>1. req'[p] = [Idle EXCEPT !.pc = "group", !.todo = req[p].todo] /\ Others(p)
      BY <1>1, <2>2 DEF TypeOK, Others
    <3> QED BY <3>1 DEF Idle
  <2> QED BY <2>1, <2>2 DEF WriteExpire, WriteConfirm, WriteStatus, WritePayment
<1>5. \/ b \in since[p]
      \/ /\ req[p].pc \in {"confirm", "expire"} => bookings[b].status = "HOLD"
         /\ req[p].pc = "write" =>
              req[p].to \in ALLOWED_STATUS_TRANSITIONS[bookings[b].status]
         /\ req[p].pc = "pay" => bookings[b].status = "PENDING"
  BY <1>2 DEF Fresh, StatusSeen
<1>6. /\ ALLOWED_STATUS_TRANSITIONS["HOLD"] = {"PENDING", "CONFIRMED", "CANCELLED"}
      /\ ALLOWED_STATUS_TRANSITIONS["PENDING"] = {"CONFIRMED", "CANCELLED"}
  BY DEF ALLOWED_STATUS_TRANSITIONS, Statuses
<1>7. PICK s \in Statuses :
        /\ SetStatus(b, s) /\ StatusHistory(b, s)
        /\ b \in since[p] \/ s \in ALLOWED_STATUS_TRANSITIONS[bookings[b].status]
  <2>1. CASE WriteExpire(p)
    <3>1. SetStatus(b, "CANCELLED") /\ StatusHistory(b, "CANCELLED") /\ req[p].pc = "expire"
      BY <1>2, <2>1 DEF WriteExpire
    <3>2. b \in since[p] \/ "CANCELLED" \in ALLOWED_STATUS_TRANSITIONS[bookings[b].status]
      BY <1>5, <1>6, <3>1
    <3> QED BY <3>1, <3>2 DEF Statuses
  <2>2. CASE WriteConfirm(p, next)
    <3>1. SetStatus(b, next) /\ StatusHistory(b, next) /\ req[p].pc = "confirm"
      BY <1>2, <2>2 DEF WriteConfirm
    <3>2. b \in since[p] \/ next \in ALLOWED_STATUS_TRANSITIONS[bookings[b].status]
      BY <1>5, <1>6, <3>1
    <3> QED BY <3>1, <3>2 DEF Statuses
  <2>3. CASE WriteStatus(p)
    <3>1. SetStatus(b, req[p].to) /\ StatusHistory(b, req[p].to) /\ req[p].pc = "write"
      BY <1>2, <2>3 DEF WriteStatus
    <3>2. req[p].to \in Statuses
      BY <1>1, <3>1 DEF LocalsOK
    <3> QED BY <1>5, <3>1, <3>2
  <2>4. CASE WritePayment(p)
    <3>1. SetStatus(b, "CONFIRMED") /\ StatusHistory(b, "CONFIRMED") /\ req[p].pc = "pay"
      BY <1>2, <2>4 DEF WritePayment
    <3>2. b \in since[p] \/ "CONFIRMED" \in ALLOWED_STATUS_TRANSITIONS[bookings[b].status]
      BY <1>5, <1>6, <3>1
    <3> QED BY <3>1, <3>2 DEF Statuses
  <2> QED BY <2>1, <2>2, <2>3, <2>4
<1> QED BY <1>2, <1>3, <1>4, <1>7

---------------------------------------------------------------------------
(* FreshInv is inductive *)

\* A request sets its locals to r.
LEMMA SetLocals ==
  ASSUME BookingInv, NEW p \in Requests, NEW r, req' = [req EXCEPT ![p] = r]
  PROVE  req'[p] = r /\ Others(p)
  BY DEF BookingInv, TypeOK, Others

LEMMA FreshStop ==
  ASSUME BookingInv, FreshInv, NEW p \in Requests, UNCHANGED table, Seen(p) \/ UNCHANGED since,
         Finish(p) \/ \E pc \in {"lock", "check", "unlock"} : Goto(p, pc)
  PROVE  FreshInv'
<1>1. TypeOK
  BY DEF BookingInv
<1>2. Others(p) /\ req'[p].pc \in {"done", "lock", "check", "unlock"}
  BY <1>1, FinishUpdate, GotoUpdate DEF Others, PCs
<1>3. Fresh(p)'
  BY <1>2, FreshPlain DEF Writing
<1> QED BY <1>2, <1>3, FreshQuiet

LEMMA FreshPlainSteps ==
  ASSUME BookingInv, FreshInv, NEW p \in Requests,
         FindFreeSlot(p) \/ Acquire(p) \/ AbortTx(p) \/ Unlock(p) \/ AbortRecurring(p) \/ Fail(p)
  PROVE  FreshInv'
<1>1. UNCHANGED table /\ (Seen(p) \/ UNCHANGED since)
  BY DEF FindFreeSlot, Acquire, AbortTx, Unlock, AbortRecurring, Fail
<1>2. Finish(p) \/ \E pc \in {"lock", "check", "unlock"} : Goto(p, pc)
  BY DEF FindFreeSlot, Acquire, AbortTx, Unlock, AbortRecurring, Fail
<1> QED BY <1>1, <1>2, FreshStop

LEMMA FreshBegin ==
  ASSUME BookingInv, FreshInv, NEW p \in Requests, NEW lane, NEW s, NEW d, NEW n, NEW b,
         \/ BeginHold(p, lane, s, d) \/ BeginRecurring(p, lane, s, d, n)
         \/ ReadReschedule(p, b, s, d) \/ ReadGroup(p, b)
  PROVE  FreshInv'
<1>1. UNCHANGED table /\ UNCHANGED since
  BY DEF BeginHold, BeginRecurring, ReadReschedule, ReadGroup
<1>2. CASE BeginHold(p, lane, s, d)
  <2> DEFINE r == [Idle EXCEPT !.pc = "lock", !.lane = lane, !.start = s, !.dur = d]
  <2>1. req' = [req EXCEPT ![p] = r]
    BY <1>2 DEF BeginHold
  <2>2. r.pc = "lock"
    BY DEF Idle
  <2> HIDE DEF r
  <2>3. req'[p].pc = "lock" /\ Others(p)
    BY <2>1, <2>2, SetLocals
  <2> QED BY <1>1, <2>3, FreshPlain, FreshQuiet DEF Writing
<1>3. CASE ReadReschedule(p, b, s, d)
  <2> DEFINE r == [Idle EXCEPT !.pc = "slots", !.id = b, !.lane = bookings[b].lane,
                               !.start = s, !.dur = d]
  <2>1. req' = [req EXCEPT ![p] = r]
    BY <1>3 DEF ReadReschedule
  <2>2. r.pc = "slots"
    BY DEF Idle
  <2> HIDE DEF r
  <2>3. req'[p].pc = "slots" /\ Others(p)
    BY <2>1, <2>2, SetLocals
  <2> QED BY <1>1, <2>3, FreshPlain, FreshQuiet DEF Writing
<1>4. CASE ReadGroup(p, b)
  <2> DEFINE r == [Idle EXCEPT !.pc = "group", !.todo = bookings[b].group]
  <2>1. req' = [req EXCEPT ![p] = r]
    BY <1>4 DEF ReadGroup
  <2>2. r.pc = "group"
    BY DEF Idle
  <2> HIDE DEF r
  <2>3. req'[p].pc = "group" /\ Others(p)
    BY <2>1, <2>2, SetLocals
  <2> QED BY <1>1, <2>3, FreshPlain, FreshQuiet DEF Writing
<1>5. CASE BeginRecurring(p, lane, s, d, n)
  <2> DEFINE r == [Idle EXCEPT !.pc = "occur", !.lane = lane, !.start = s, !.dur = d, !.n = n]
  <2>1. req' = [req EXCEPT ![p] = r]
    BY <1>5 DEF BeginRecurring
  <2>2. r.pc = "occur" /\ r.made = 0
    BY DEF Idle
  <2> HIDE DEF r
  <2>3. req'[p].pc = "occur" /\ req'[p].made = 0 /\ Others(p)
    BY <2>1, <2>2, SetLocals
  <2>4. 0 .. 0 - 1 = {}
    OBVIOUS
  <2>5. Fresh(p)'
    BY <2>3, <2>4 DEF Fresh, SlotSeen, OccurSeen, StatusSeen
  <2> QED BY <1>1, <2>3, <2>5, FreshQuiet
<1> QED BY <1>2, <1>3, <1>4, <1>5

\* assertSlotFree found nothing in the way.
LEMMA FreshCheck ==
  ASSUME BookingInv, FreshInv, NEW p \in Requests, AssertSlotFree(p)
  PROVE  FreshInv'
<1>1. UNCHANGED table /\ Seen(p) /\ TypeOK
  BY DEF AssertSlotFree, BookingInv
<1>2. CASE Overlapping(req[p].lane, req[p].start, req[p].dur, req[p].id) # {}
  BY <1>1, <1>2, FreshStop DEF AssertSlotFree
<1>3. CASE Overlapping(req[p].lane, req[p].start, req[p].dur, req[p].id) = {}
  <2>1. Goto(p, "place")
    BY <1>3 DEF AssertSlotFree
  <2>2. req'[p] = [req[p] EXCEPT !.pc = "place"] /\ req'[p].pc = "place" /\ Others(p)
    BY <1>1, <2>1, GotoUpdate DEF PCs, Others
  <2>3. /\ req'[p].lane = req[p].lane /\ req'[p].start = req[p].start
        /\ req'[p].dur = req[p].dur /\ req'[p].id = req[p].id
    BY <1>1, <2>2 DEF TypeOK, Locals
  <2>4. \A b \in BookingIds \ {req[p].id} : ~Clashes(req[p].lane, req[p].start, req[p].dur, b)
    BY <1>3 DEF Overlapping, Clashes
  <2>5. SlotSeen(p)'
    BY <1>1, <2>3, <2>4 DEF SlotSeen, Clashes, Active, Overlap, table
  <2>6. Fresh(p)'
    BY <2>2, <2>5 DEF Fresh, OccurSeen, StatusSeen
  <2> QED BY <1>1, <2>2, <2>6, FreshQuiet
<1> QED BY <1>2, <1>3

\* The next session of createRecurring is free, and after all earlier ones.
LEMMA FreshOccurrence ==
  ASSUME BookingInv, FreshInv, NEW p \in Requests, CheckOccurrence(p)
  PROVE  FreshInv'
<1> DEFINE m == req[p].made
<1>1. /\ UNCHANGED table /\ (Seen(p) \/ UNCHANGED since) /\ (m # 0 => UNCHANGED since) /\ TypeOK
      /\ req[p].pc = "occur" /\ req[p] \in Locals
  BY DEF CheckOccurrence, BookingInv, TypeOK
<1>2. CASE Finish(p)
  BY <1>1, <1>2, FreshStop
<1>3. CASE /\ Overlapping(req[p].lane, Occurrence(p, m), req[p].dur, NoBooking) = {}
           /\ \A i \in 0 .. m - 1 : Occurrence(p, i) + req[p].dur <= Occurrence(p, m)
           /\ req' = [req EXCEPT ![p].made = @ + 1]
  <2> DEFINE r == [req[p] EXCEPT !.made = m + 1]
  <2>1. req' = [req EXCEPT ![p] = r]
    BY <1>1, <1>3 DEF TypeOK
  <2>2. /\ r.pc = "occur" /\ r.made = m + 1 /\ r.lane = req[p].lane /\ r.start = req[p].start
        /\ r.dur = req[p].dur /\ m \in Nat
    BY <1>1 DEF Locals
  <2> HIDE DEF r
  <2>3. /\ req'[p].pc = "occur" /\ req'[p].made = m + 1 /\ req'[p].lane = req[p].lane
        /\ req'[p].start = req[p].start /\ req'[p].dur = req[p].dur /\ Others(p)
    BY <2>1, <2>2, SetLocals
  <2> HIDE DEF m
  <2>4. ASSUME NEW i \in 0 .. m
        PROVE  /\ \A b \in BookingIds :
                    Clashes(req[p].lane, Occurrence(p, i), req[p].dur, b) => b \in since'[p]
               /\ \A j \in 0 .. i - 1 : Occurrence(p, j) + req[p].dur <= Occurrence(p, i)
    <3>1. CASE i = m
      <4>1. \A b \in BookingIds : ~Clashes(req[p].lane, Occurrence(p, m), req[p].dur, b)
        BY <1>3, SentinelAssumption DEF Overlapping, Clashes
      <4> QED BY <1>3, <3>1, <4>1
    <3>2. CASE i # m
      <4>1. i \in 0 .. m - 1 /\ m # 0
        BY <2>2, <3>2
      <4>2. since' = since
        BY <1>1, <4>1
      <4>3. i \in 0 .. req[p].made - 1
        BY <4>1 DEF m
      <4> QED BY <1>1, <4>2, <4>3 DEF FreshInv, Fresh, OccurSeen
    <3> QED BY <3>1, <3>2
  <2>5. OccurSeen(p)'
    <3>1. req'[p].made - 1 = m
      BY <2>2, <2>3
    <3>2. \A i \in 0 .. m : Occurrence(p, i)' = Occurrence(p, i)
      BY <2>3 DEF Occurrence
    <3>3. \A i \in 0 .. m : \A j \in 0 .. i - 1 : Occurrence(p, j)' = Occurrence(p, j)
      BY <2>3 DEF Occurrence
    <3>4. \A i \in 0 .. m, b \in BookingIds :
            Clashes(req[p].lane, Occurrence(p, i), req[p].dur, b)' =>
              Clashes(req[p].lane, Occurrence(p, i), req[p].dur, b)
      BY <1>1, <2>3, <3>2 DEF Clashes, Active, Overlap, table
    <3> QED BY <2>3, <2>4, <3>1, <3>2, <3>3, <3>4 DEF OccurSeen
  <2>6. Fresh(p)'
    BY <2>3, <2>5 DEF Fresh, SlotSeen, StatusSeen
  <2> QED BY <1>1, <2>3, <2>6, FreshQuiet
<1> QED BY <1>2, <1>3 DEF CheckOccurrence

\* A handler has just read the row whose status it will write.
LEMMA FreshRead ==
  ASSUME BookingInv, FreshInv, NEW p \in Requests, NEW b \in BookingIds, UNCHANGED table, Seen(p),
         NEW r, req' = [req EXCEPT ![p] = r], r.id = b, r.pc \in Writing,
         r.pc \in {"confirm", "expire"} => bookings[b].status = "HOLD",
         r.pc = "write" => r.to \in ALLOWED_STATUS_TRANSITIONS[bookings[b].status],
         r.pc = "pay" => bookings[b].status = "PENDING"
  PROVE  FreshInv'
<1>1. req'[p] = r /\ Others(p)
  BY SetLocals
<1>2. bookings' = bookings
  BY DEF table
<1>3. Fresh(p)'
  BY <1>1, <1>2 DEF Fresh, SlotSeen, OccurSeen, StatusSeen, Writing
<1> QED BY <1>1, <1>3, FreshQuiet

LEMMA FreshConfirmRead ==
  ASSUME BookingInv, FreshInv, NEW p \in Requests, NEW b \in BookingIds, NEW todo,
         ConfirmRead(p, b, todo)
  PROVE  FreshInv'
<1>1. UNCHANGED table /\ Seen(p)
  BY DEF ConfirmRead
<1>2. CASE Finish(p)
  BY <1>1, <1>2, FreshStop
<1>3. CASE /\ bookings[b].status = "HOLD"
           /\ req' = [req EXCEPT ![p] = [Idle EXCEPT !.id = b, !.todo = todo,
                        !.pc = IF Expired(b) THEN "expire" ELSE "confirm"]]
  <2> DEFINE pc == IF Expired(b) THEN "expire" ELSE "confirm"
             r  == [Idle EXCEPT !.id = b, !.todo = todo, !.pc = pc]
  <2>1. req' = [req EXCEPT ![p] = r]
    BY <1>3
  <2>2. pc \in {"expire", "confirm"}
    OBVIOUS
  <2> HIDE DEF pc
  <2>3. r.id = b /\ r.pc = pc
    BY DEF Idle
  <2> HIDE DEF r
  <2>4. r.pc \in Writing /\ r.pc # "write" /\ r.pc # "pay" /\ bookings[b].status = "HOLD"
    BY <1>3, <2>2, <2>3 DEF Writing
  <2> QED BY <1>1, <2>1, <2>3, <2>4, FreshRead
<1> QED BY <1>2, <1>3 DEF ConfirmRead

LEMMA FreshReads ==
  ASSUME BookingInv, FreshInv, NEW p \in Requests, NEW b \in BookingIds, NEW s,
         ReadCancel(p, b) \/ ReadUpdateStatus(p, b, s) \/ ReadPayment(p, b)
  PROVE  FreshInv'
<1>1. UNCHANGED table /\ Seen(p)
  BY DEF ReadCancel, ReadUpdateStatus, ReadPayment
<1>2. ASSUME NEW to, to \in ALLOWED_STATUS_TRANSITIONS[bookings[b].status],
             req' = [req EXCEPT ![p] = [Idle EXCEPT !.pc = "write", !.id = b, !.to = to]]
      PROVE  FreshInv'
  <2> DEFINE r == [Idle EXCEPT !.pc = "write", !.id = b, !.to = to]
  <2>1. req' = [req EXCEPT ![p] = r]
    BY <1>2
  <2>2. r.id = b /\ r.pc = "write" /\ r.to = to
    BY DEF Idle
  <2> HIDE DEF r
  <2> QED BY <1>1, <1>2, <2>1, <2>2, FreshRead DEF Writing
<1>3. CASE ReadPayment(p, b)
  <2> DEFINE r == [Idle EXCEPT !.pc = "pay", !.id = b]
  <2>1. req' = [req EXCEPT ![p] = r] /\ bookings[b].status = "PENDING"
    BY <1>3 DEF ReadPayment
  <2>2. r.id = b /\ r.pc = "pay"
    BY DEF Idle
  <2> HIDE DEF r
  <2> QED BY <1>1, <2>1, <2>2, FreshRead DEF Writing
<1> QED BY <1>2, <1>3 DEF ReadCancel, ReadUpdateStatus

LEMMA FreshWrites ==
  ASSUME BookingInv, FreshInv, NEW p \in Requests, NEW next \in {"PENDING", "CONFIRMED"},
         WriteExpire(p) \/ WriteConfirm(p, next) \/ WriteStatus(p) \/ WritePayment(p)
  PROVE  FreshInv'
<1>1. Fresh(p)
  BY DEF FreshInv
<1>2. PICK b \in BookingIds, s \in Statuses :
        SetStatus(b, s) /\ Touched(p, {b}) /\ Others(p) /\ req'[p].pc \in {"done", "group"}
  BY <1>1, WriteRows
<1>3. \A c \in BookingIds \ {b} : Same(c)
  BY <1>2, SetStatusRows
<1>4. {b} \in SUBSET BookingIds
  OBVIOUS
<1> QED BY <1>2, <1>3, <1>4, FreshWrite

LEMMA FreshPlaces ==
  ASSUME BookingInv, FreshInv, NEW p \in Requests, NEW b \in BookingIds,
         PlaceHold(p, b) \/ (b = req[p].id /\ PlaceMove(p))
  PROVE  FreshInv'
<1>1. (\A c \in BookingIds \ {b} : Same(c)) /\ Others(p) /\ req'[p].pc = "unlock"
  BY PlaceHoldRows, PlaceMoveRows
<1>2. Touched(p, {b})
  BY DEF PlaceHold, PlaceMove
<1>3. {b} \in SUBSET BookingIds
  OBVIOUS
<1> QED BY <1>1, <1>2, <1>3, FreshWrite

LEMMA FreshCommit ==
  ASSUME BookingInv, FreshInv, NEW p \in Requests, NEW ids \in [1 .. req[p].n -> BookingIds],
         CommitRecurring(p, ids)
  PROVE  FreshInv'
<1>1. PICK S \in SUBSET BookingIds :
        Touched(p, S) /\ Sessions(p, ids, S) /\ Others(p) /\ req'[p].pc = "done"
  BY CommitRows
<1>2. \A b \in BookingIds \ S : Same(b)
  BY <1>1 DEF Sessions
<1> QED BY <1>1, <1>2, FreshWrite

\* The cron job and the clock.
LEMMA FreshElse ==
  ASSUME BookingInv, FreshInv,
         ReleaseExpiredHolds \/ Tick \/ (\E k \in Keys : ExpireLock(k)) \/ UNCHANGED vars
  PROVE  FreshInv'
<1>1. UNCHANGED req
  BY DEF ReleaseExpiredHolds, Tick, ExpireLock, vars
<1>2. ASSUME NEW q \in Requests
      PROVE  Kept(q)
  <2>1. CASE ReleaseExpiredHolds
    <3>1. PICK S \in SUBSET BookingIds :
            /\ since' = [r \in Requests |-> IF Watching(r) THEN since[r] \cup S ELSE {}]
            /\ \A b \in BookingIds \ S : Same(b)
      BY <2>1, ReleaseRows
    <3>2. Watching(q) => since'[q] = since[q] \cup S
      BY <3>1
    <3> QED BY <3>1, <3>2 DEF Kept
  <2>2. CASE Tick
    <3>1. since' = since
      BY <2>2 DEF Tick
    <3> QED BY <2>2, <3>1, TickRows DEF Kept
  <2>3. CASE (\E k \in Keys : ExpireLock(k)) \/ UNCHANGED vars
    <3>1. since' = since /\ bookings' = bookings
      BY <2>3 DEF ExpireLock, vars, table
    <3> QED BY <3>1 DEF Kept, Same
  <2> QED BY <2>1, <2>2, <2>3
<1> QED BY <1>1, <1>2, FreshKept DEF FreshInv

LEMMA FreshInit == Init => FreshInv
  BY DEF Init, FreshInv, Fresh, SlotSeen, OccurSeen, StatusSeen, Idle

LEMMA FreshNext ==
  ASSUME BookingInv, FreshInv, [Next]_vars
  PROVE  FreshInv'
<1>1. ASSUME NEW p \in Requests, Arrive(p)
      PROVE  FreshInv'
  <2>1. ASSUME NEW lane \in Lanes, NEW s \in Starts, NEW d \in Durations, NEW n \in Occurrences,
               BeginHold(p, lane, s, d) \/ BeginRecurring(p, lane, s, d, n)
        PROVE  FreshInv'
    BY <2>1, FreshBegin
  <2>2. ASSUME NEW lane \in Lanes, NEW s \in Starts, NEW d \in Durations, BeginHold(p, lane, s, d)
        PROVE  FreshInv'
    BY <2>2, FreshBegin
  <2>3. ASSUME NEW b \in BookingIds, NEW s \in Starts, NEW d \in Durations,
               ReadReschedule(p, b, s, d)
        PROVE  FreshInv'
    BY <2>3, FreshBegin
  <2>4. ASSUME NEW b \in BookingIds, ReadGroup(p, b)
        PROVE  FreshInv'
    BY <2>4, FreshBegin
  <2>5. ASSUME NEW b \in BookingIds, ReadConfirm(p, b)
        PROVE  FreshInv'
    BY <2>5, FreshConfirmRead DEF ReadConfirm
  <2>6. ASSUME NEW b \in BookingIds, ReadCancel(p, b) \/ ReadPayment(p, b)
        PROVE  FreshInv'
    BY <2>6, FreshReads
  <2>7. ASSUME NEW b \in BookingIds, NEW s \in DtoStatuses, ReadUpdateStatus(p, b, s)
        PROVE  FreshInv'
    BY <2>7, FreshReads
  <2> QED BY <1>1, <2>1, <2>2, <2>3, <2>4, <2>5, <2>6, <2>7 DEF Arrive
<1>2. ASSUME NEW p \in Requests, Proceed(p)
      PROVE  FreshInv'
  <2>1. CASE FindFreeSlot(p) \/ Acquire(p) \/ AbortTx(p) \/ Unlock(p) \/ AbortRecurring(p)
    BY <2>1, FreshPlainSteps
  <2>2. CASE AssertSlotFree(p) \/ CheckOccurrence(p)
    BY <2>2, FreshCheck, FreshOccurrence
  <2>3. CASE (\E b \in BookingIds : PlaceHold(p, b)) \/ PlaceMove(p)
    <3>1. PlaceMove(p) => req[p].id \in BookingIds
      BY DEF PlaceMove, BookingInv, TypeOK, Locals
    <3> QED BY <2>3, <3>1, FreshPlaces
  <2>4. CASE \E ids \in [1 .. req[p].n -> BookingIds] : CommitRecurring(p, ids)
    BY <2>4, FreshCommit
  <2>5. CASE \E b \in BookingIds : NextInGroup(p, b)
    BY <2>5, FreshConfirmRead DEF NextInGroup
  <2>6. CASE WriteExpire(p) \/ (\E next \in {"PENDING", "CONFIRMED"} : WriteConfirm(p, next))
             \/ WriteStatus(p) \/ WritePayment(p)
    BY <2>6, FreshWrites
  <2> QED BY <1>2, <2>1, <2>2, <2>3, <2>4, <2>5, <2>6 DEF Proceed
<1>3. ASSUME NEW p \in Requests, Fail(p)
      PROVE  FreshInv'
  BY <1>3, FreshPlainSteps
<1> QED BY <1>1, <1>2, <1>3, FreshElse DEF Next

---------------------------------------------------------------------------
(* Forbidden transitions *)

LEMMA TransitionStep ==
  ASSUME BookingInv, FreshInv, [Next]_vars, NEW b \in BookingIds, Moves(b), Forbidden(b)
  PROVE  \E p \in Requests : req'[p] # req[p] /\ req[p].id = b /\ b \in since[p]
<1>1. ~Same(b) /\ Exists(b)
  BY DEF Moves, Same
<1>2. bookings' # bookings
  BY DEF Moves
<1>3. ASSUME NEW p \in Requests, NEW next \in {"PENDING", "CONFIRMED"},
             WriteExpire(p) \/ WriteConfirm(p, next) \/ WriteStatus(p) \/ WritePayment(p)
      PROVE  req'[p] # req[p] /\ req[p].id = b /\ b \in since[p]
  <2>1. PICK c \in BookingIds, s \in Statuses :
          /\ c = req[p].id /\ SetStatus(c, s) /\ req'[p].pc \in {"done", "group"}
          /\ req[p].pc \notin {"done", "group"}
          /\ c \in since[p] \/ s \in ALLOWED_STATUS_TRANSITIONS[bookings[c].status]
    BY <1>3, WriteRows DEF FreshInv
  <2>2. bookings'[c].status = s /\ \A x \in BookingIds \ {c} : Same(x)
    BY <2>1, SetStatusRows
  <2>3. c = b
    BY <1>1, <2>2
  <2> QED BY <2>1, <2>2, <2>3 DEF Forbidden
<1>4. ASSUME NEW p \in Requests, NEW c \in BookingIds,
             PlaceHold(p, c) \/ (c = req[p].id /\ PlaceMove(p))
      PROVE  FALSE
  <2>1. CASE PlaceHold(p, c)
    BY <1>1, <2>1, PlaceHoldRows DEF PlaceHold
  <2>2. CASE c = req[p].id /\ PlaceMove(p)
    <3>1. bookings'[c].status = bookings[c].status /\ \A x \in BookingIds \ {c} : Same(x)
      BY <2>2, PlaceMoveRows
    <3> QED BY <1>1, <3>1 DEF Moves
  <2> QED BY <1>4, <2>1, <2>2
<1>5. ASSUME NEW p \in Requests, NEW ids \in [1 .. req[p].n -> BookingIds],
             CommitRecurring(p, ids)
      PROVE  FALSE
  <2>1. PICK S \in SUBSET BookingIds : Sessions(p, ids, S)
    BY <1>5, CommitRows
  <2> QED BY <1>1, <2>1 DEF Sessions
<1>6. ASSUME ReleaseExpiredHolds
      PROVE  FALSE
  <2>1. PICK S \in SUBSET BookingIds :
          /\ \A x \in S : bookings[x].status = "HOLD" /\ bookings'[x].status = "CANCELLED"
          /\ \A x \in BookingIds \ S : Same(x)
    BY <1>6, ReleaseRows
  <2>2. bookings[b].status = "HOLD" /\ bookings'[b].status = "CANCELLED"
    BY <1>1, <2>1
  <2> QED BY <2>2 DEF Forbidden, ALLOWED_STATUS_TRANSITIONS, Statuses
<1>7. ~Tick
  BY <1>1, TickRows
<1>8. ASSUME NEW p \in Requests, Arrive(p) \/ Fail(p)
      PROVE  FALSE
  BY <1>2, <1>8 DEF Arrive, Fail, BeginHold, BeginRecurring, ReadReschedule, ReadConfirm,
                    ConfirmRead, ReadGroup, ReadCancel, ReadUpdateStatus, ReadPayment, table
<1>9. ASSUME NEW p \in Requests, Proceed(p)
      PROVE  req'[p] # req[p] /\ req[p].id = b /\ b \in since[p]
  <2>1. CASE \/ FindFreeSlot(p) \/ Acquire(p) \/ AssertSlotFree(p) \/ AbortTx(p) \/ Unlock(p)
             \/ CheckOccurrence(p) \/ AbortRecurring(p)
    BY <1>2, <2>1 DEF FindFreeSlot, Acquire, AssertSlotFree, AbortTx, Unlock, CheckOccurrence,
                      AbortRecurring, table
  <2>2. CASE \E c \in BookingIds : NextInGroup(p, c)
    BY <1>2, <2>2 DEF NextInGroup, ConfirmRead, table
  <2>3. PlaceMove(p) => req[p].id \in BookingIds
    BY DEF PlaceMove, BookingInv, TypeOK, Locals
  <2> QED BY <1>3, <1>4, <1>5, <1>9, <2>1, <2>2, <2>3 DEF Proceed
<1>10. ~UNCHANGED vars /\ ~(\E k \in Keys : ExpireLock(k))
  BY <1>2 DEF vars, ExpireLock, table
<1> QED BY <1>6, <1>7, <1>8, <1>9, <1>10 DEF Next

---------------------------------------------------------------------------
(* Double bookings *)

\* Two bookings share an instant: each is in the way of the other.
LEMMA ShareInstant ==
  ASSUME TypeOK', NEW a \in BookingIds, NEW b \in BookingIds, DoubleBooked(a, b)'
  PROVE  /\ DoubleBooked(b, a)' /\ bookings'[a].lane = bookings'[b].lane
         /\ bookings'[a].start < bookings'[b].start + bookings'[b].dur
         /\ bookings'[a].start + bookings'[a].dur > bookings'[b].start
<1>1. /\ bookings'[a].start \in Nat /\ bookings'[a].dur \in Nat
      /\ bookings'[b].start \in Nat /\ bookings'[b].dur \in Nat
  BY DEF TypeOK, Rows
<1>2. PICK x : x \in Occupied(a)' /\ x \in Occupied(b)'
  BY DEF DoubleBooked
<1>3. /\ x \in bookings'[a].start .. bookings'[a].start + bookings'[a].dur - 1
      /\ x \in bookings'[b].start .. bookings'[b].start + bookings'[b].dur - 1
  BY <1>2 DEF Occupied
<1>4. /\ bookings'[a].start < bookings'[b].start + bookings'[b].dur
      /\ bookings'[a].start + bookings'[a].dur > bookings'[b].start
  BY <1>1, <1>3
<1>5. DoubleBooked(b, a)' /\ bookings'[a].lane = bookings'[b].lane
  BY DEF DoubleBooked
<1> QED BY <1>4, <1>5

LEMMA BookedBefore ==
  ASSUME NEW a \in BookingIds, NEW b \in BookingIds, Same(a), Same(b), DoubleBooked(a, b)'
  PROVE  DoubleBooked(a, b)
<1>1. Active(a) /\ Active(b) /\ a # b /\ bookings[a].lane = bookings[b].lane
  BY DEF DoubleBooked, Active, Same
<1>2. Occupied(a)' = Occupied(a) /\ Occupied(b)' = Occupied(b)
  BY DEF Occupied, Same
<1> QED BY <1>1, <1>2 DEF DoubleBooked

\* Rows change but in what the clash is about.
LEMMA RaceSame ==
  ASSUME DoubleBookingNeedsRace, \A b \in BookingIds : Same(b), UNCHANGED <<unseen, revived>>
  PROVE  DoubleBookingNeedsRace'
<1> SUFFICES ASSUME NEW a \in BookingIds, NEW b \in BookingIds, DoubleBooked(a, b)'
             PROVE  a \in unseen'[b] \/ b \in unseen'[a] \/ {a, b} \cap revived' # {}
  BY DEF DoubleBookingNeedsRace
<1>1. DoubleBooked(a, b)
  BY BookedBefore
<1> QED BY <1>1 DEF DoubleBookingNeedsRace

\* The bookings in S end.
LEMMA RaceOver ==
  ASSUME TypeOK, DoubleBookingNeedsRace, NEW S \in SUBSET BookingIds, Deactivated(S),
         \A b \in S : ~Active(b)', \A b \in BookingIds \ S : Same(b)
  PROVE  DoubleBookingNeedsRace'
<1> SUFFICES ASSUME NEW a \in BookingIds, NEW b \in BookingIds, DoubleBooked(a, b)'
             PROVE  a \in unseen'[b] \/ b \in unseen'[a] \/ {a, b} \cap revived' # {}
  BY DEF DoubleBookingNeedsRace
<1>1. a \notin S /\ b \notin S
  BY DEF DoubleBooked
<1>2. DoubleBooked(a, b)
  BY <1>1, BookedBefore
<1>3. unseen'[a] = unseen[a] \ S /\ unseen'[b] = unseen[b] \ S /\ revived' = revived \ S
  BY <1>1 DEF Deactivated
<1>4. a \in unseen[b] \/ b \in unseen[a] \/ {a, b} \cap revived # {}
  BY <1>2 DEF DoubleBookingNeedsRace
<1> QED BY <1>1, <1>3, <1>4

\* The bookings in S are placed by p, whose check saw all others in their way but
\* those in since.
LEMMA RacePlace ==
  ASSUME TypeOK', DoubleBookingNeedsRace, NEW p \in Requests, NEW S \in SUBSET BookingIds,
         NEW u \in BOOLEAN, Placed(S, since[p], u),
         \A b \in BookingIds \ S : Same(b),
         \A a \in S, b \in BookingIds \ S : DoubleBooked(a, b)' => b \in since[p],
         \A a, b \in S : ~DoubleBooked(a, b)'
  PROVE  DoubleBookingNeedsRace'
<1> SUFFICES ASSUME NEW a \in BookingIds, NEW b \in BookingIds, DoubleBooked(a, b)'
             PROVE  a \in unseen'[b] \/ b \in unseen'[a] \/ {a, b} \cap revived' # {}
  BY DEF DoubleBookingNeedsRace
<1>1. /\ \A x \in S : unseen'[x] = since[p] \ S
      /\ \A x \in BookingIds \ S : unseen'[x] = unseen[x] \ S
      /\ revived' = revived \ S
  BY DEF Placed
<1>2. CASE a \in S /\ b \notin S
  BY <1>1, <1>2
<1>3. CASE a \notin S /\ b \in S
  <2>1. DoubleBooked(b, a)'
    BY ShareInstant
  <2> QED BY <1>1, <1>3, <2>1
<1>4. CASE a \notin S /\ b \notin S
  <2>1. DoubleBooked(a, b)
    BY <1>4, BookedBefore
  <2>2. a \in unseen[b] \/ b \in unseen[a] \/ {a, b} \cap revived # {}
    BY <2>1 DEF DoubleBookingNeedsRace
  <2> QED BY <1>1, <1>4, <2>2
<1> QED BY <1>2, <1>3, <1>4

\* A status write ends a booking, leaves it active, or revives it.
LEMMA RaceStatus ==
  ASSUME BookingInv, DoubleBookingNeedsRace, NEW b \in BookingIds, NEW s \in Statuses,
         SetStatus(b, s), StatusHistory(b, s)
  PROVE  DoubleBookingNeedsRace'
<1>1. /\ bookings'[b].status = s /\ bookings'[b].lane = bookings[b].lane
      /\ bookings'[b].start = bookings[b].start /\ bookings'[b].dur = bookings[b].dur
      /\ \A c \in BookingIds \ {b} : Same(c)
  BY SetStatusRows
<1>2. CASE s \notin ActiveStatuses
  <2>1. Deactivated({b}) /\ {b} \in SUBSET BookingIds
    BY <1>2 DEF StatusHistory
  <2>2. \A c \in {b} : ~Active(c)'
    BY <1>1, <1>2 DEF Active
  <2> QED BY <1>1, <2>1, <2>2, RaceOver DEF BookingInv
<1>3. CASE s \in ActiveStatuses
  <2>1. /\ revived' = IF Active(b) THEN revived ELSE revived \cup {b}
        /\ unseen' = unseen
    BY <1>3 DEF StatusHistory
  <2> SUFFICES ASSUME NEW x \in BookingIds, NEW y \in BookingIds, DoubleBooked(x, y)'
               PROVE  x \in unseen'[y] \/ y \in unseen'[x] \/ {x, y} \cap revived' # {}
    BY DEF DoubleBookingNeedsRace
  <2>2. CASE ~Active(b) /\ b \in {x, y}
    BY <2>1, <2>2
  <2>3. CASE Active(b) \/ b \notin {x, y}
    <3>1. ASSUME NEW z \in {x, y}
          PROVE  Active(z) /\ bookings'[z].lane = bookings[z].lane
                 /\ bookings'[z].start = bookings[z].start /\ bookings'[z].dur = bookings[z].dur
      <4>1. CASE z = b
        BY <1>1, <2>3, <4>1
      <4>2. CASE z # b
        BY <1>1, <4>2 DEF Same, Active, DoubleBooked
      <4> QED BY <4>1, <4>2
    <3>2. Occupied(x)' = Occupied(x) /\ Occupied(y)' = Occupied(y)
      BY <3>1 DEF Occupied
    <3>3. x # y /\ bookings[x].lane = bookings[y].lane
      BY <3>1 DEF DoubleBooked
    <3>4. DoubleBooked(x, y)
      BY <3>1, <3>2, <3>3 DEF DoubleBooked
    <3>5. x \in unseen[y] \/ y \in unseen[x] \/ {x, y} \cap revived # {}
      BY <3>4 DEF DoubleBookingNeedsRace
    <3> QED BY <2>1, <3>5
  <2> QED BY <2>2, <2>3
<1> QED BY <1>2, <1>3

LEMMA RacePlaces ==
  ASSUME BookingInv, TypeOK', FreshInv, DoubleBookingNeedsRace,
         NEW p \in Requests, NEW b \in BookingIds,
         PlaceHold(p, b) \/ (b = req[p].id /\ PlaceMove(p))
  PROVE  DoubleBookingNeedsRace'
<1>1. /\ bookings'[b].lane = req[p].lane /\ bookings'[b].start = req[p].start
      /\ bookings'[b].dur = req[p].dur /\ \A c \in BookingIds \ {b} : Same(c)
  <2>1. CASE PlaceHold(p, b)
    BY <2>1, PlaceHoldRows
  <2>2. CASE b = req[p].id /\ PlaceMove(p)
    BY <2>2, PlaceMoveRows
  <2> QED BY <2>1, <2>2
<1>2. /\ Placed({b}, since[p], TRUE) /\ req[p].pc = "place"
      /\ req[p].id = NoBooking \/ req[p].id = b
  BY DEF PlaceHold, PlaceMove
<1>3. ASSUME NEW c \in BookingIds \ {b}, DoubleBooked(b, c)'
      PROVE  c \in since[p]
  <2>1. c # req[p].id
    BY <1>2, SentinelAssumption
  <2>2. Active(c)' /\ Same(c)
    BY <1>1, <1>3 DEF DoubleBooked
  <2>3. /\ bookings'[b].lane = bookings'[c].lane
        /\ bookings'[b].start < bookings'[c].start + bookings'[c].dur
        /\ bookings'[b].start + bookings'[b].dur > bookings'[c].start
    BY <1>3, ShareInstant
  <2>4. /\ bookings[c].start \in Nat /\ bookings[c].dur \in Nat
        /\ req[p].start \in Nat /\ req[p].dur \in Nat
    BY DEF BookingInv, TypeOK, Rows, Locals
  <2>5. Overlap(req[p].start, req[p].dur, c)
    BY <1>1, <2>2, <2>3, <2>4 DEF Overlap, Same
  <2>6. Clashes(req[p].lane, req[p].start, req[p].dur, c)
    BY <1>1, <2>2, <2>3, <2>5 DEF Clashes, Active, Same
  <2> QED BY <1>2, <2>1, <2>6 DEF FreshInv, Fresh, SlotSeen
<1>4. ~DoubleBooked(b, b)'
  BY DEF DoubleBooked
<1>5. {b} \in SUBSET BookingIds
  OBVIOUS
<1> QED BY <1>1, <1>2, <1>3, <1>4, <1>5, RacePlace

LEMMA RaceCommit ==
  ASSUME BookingInv, TypeOK', FreshInv, DoubleBookingNeedsRace,
         NEW p \in Requests, NEW ids \in [1 .. req[p].n -> BookingIds], CommitRecurring(p, ids)
  PROVE  DoubleBookingNeedsRace'
<1>0. PICK S \in SUBSET BookingIds : Placed(S, since[p], FALSE) /\ Sessions(p, ids, S)
  BY CommitRows
<1>1. /\ \A b \in S : /\ bookings'[b].lane = req[p].lane /\ bookings'[b].dur = req[p].dur
                      /\ \E i \in 1 .. req[p].n :
                           ids[i] = b /\ bookings'[b].start = Occurrence(p, i - 1)
      /\ \A b \in BookingIds \ S : Same(b)
  BY <1>0 DEF Sessions
<1>2. /\ req[p].pc = "occur" /\ req[p].made = req[p].n /\ req[p].n \in Nat
      /\ req[p].start \in Nat /\ req[p].dur \in Nat /\ OccurSeen(p)
  BY DEF CommitRecurring, BookingInv, TypeOK, Locals, FreshInv, Fresh
<1>3. \A i \in 1 .. req[p].n : /\ i - 1 \in 0 .. req[p].made - 1 /\ i - 1 \in Nat
                               /\ Occurrence(p, i - 1) \in Nat
  <2>1. \A i \in 1 .. req[p].n : i - 1 \in 0 .. req[p].made - 1 /\ i - 1 \in Nat
    BY <1>2
  <2>2. \A k \in Nat : Occurrence(p, k) \in Nat
    BY <1>2, TimeAssumption DEF Occurrence
  <2> QED BY <2>1, <2>2
<1>4. ASSUME NEW a \in S, NEW c \in BookingIds \ S, DoubleBooked(a, c)'
      PROVE  c \in since[p]
  <2>1. PICK i \in 1 .. req[p].n : bookings'[a].start = Occurrence(p, i - 1)
    BY <1>1
  <2>2. Active(c)' /\ Same(c) /\ bookings'[a].lane = req[p].lane /\ bookings'[a].dur = req[p].dur
    BY <1>1, <1>4 DEF DoubleBooked
  <2>3. /\ bookings'[a].lane = bookings'[c].lane
        /\ bookings'[a].start < bookings'[c].start + bookings'[c].dur
        /\ bookings'[a].start + bookings'[a].dur > bookings'[c].start
    BY <1>4, ShareInstant
  <2>4. bookings[c].start \in Nat /\ bookings[c].dur \in Nat
    BY DEF BookingInv, TypeOK, Rows
  <2>5. PICK s \in Nat : s = Occurrence(p, i - 1)
    BY <1>3
  <2>6. Overlap(s, req[p].dur, c)
    BY <1>2, <2>1, <2>2, <2>3, <2>4, <2>5 DEF Overlap, Same
  <2>7. Clashes(req[p].lane, Occurrence(p, i - 1), req[p].dur, c)
    BY <2>2, <2>3, <2>5, <2>6 DEF Clashes, Active, Same
  <2> QED BY <1>2, <1>3, <2>7 DEF OccurSeen
<1>5. ASSUME NEW a \in S, NEW c \in S, DoubleBooked(a, c)'
      PROVE  FALSE
  <2>1. PICK i \in 1 .. req[p].n : ids[i] = a /\ bookings'[a].start = Occurrence(p, i - 1)
    BY <1>1
  <2>2. PICK j \in 1 .. req[p].n : ids[j] = c /\ bookings'[c].start = Occurrence(p, j - 1)
    BY <1>1
  <2>3. i # j /\ bookings'[a].dur = req[p].dur /\ bookings'[c].dur = req[p].dur
    BY <1>1, <1>5, <2>1, <2>2 DEF DoubleBooked
  <2>4. /\ bookings'[a].start < bookings'[c].start + bookings'[c].dur
        /\ bookings'[a].start + bookings'[a].dur > bookings'[c].start
    BY <1>5, ShareInstant
  <2>5. PICK s \in Nat, t \in Nat : s = Occurrence(p, i - 1) /\ t = Occurrence(p, j - 1)
    BY <1>3
  <2>6. s < t + req[p].dur /\ s + req[p].dur > t
    BY <2>1, <2>2, <2>3, <2>4, <2>5
  <2>7. i < j => s + req[p].dur <= t
    <3>1. i < j => i - 1 \in 0 .. (j - 1) - 1
      BY <1>2
    <3> QED BY <1>2, <1>3, <2>5, <3>1 DEF OccurSeen
  <2>8. j < i => t + req[p].dur <= s
    <3>1. j < i => j - 1 \in 0 .. (i - 1) - 1
      BY <1>2
    <3> QED BY <1>2, <1>3, <2>5, <3>1 DEF OccurSeen
  <2>9. i < j \/ j < i
    BY <1>2, <2>3
  <2> QED BY <1>2, <2>5, <2>6, <2>7, <2>8, <2>9
<1> QED BY <1>0, <1>1, <1>4, <1>5, RacePlace

LEMMA RaceInit == Init => DoubleBookingNeedsRace
<1> SUFFICES ASSUME Init, NEW a \in BookingIds, NEW b \in BookingIds, DoubleBooked(a, b)
             PROVE  FALSE
  BY DEF DoubleBookingNeedsRace
<1>1. a # b /\ Active(a) /\ Active(b)
  BY DEF DoubleBooked
<1>2. bookings[a] = NoRow \/ bookings[b] = NoRow
  <2>1. CASE bookings = [x \in BookingIds |-> NoRow]
    BY <2>1
  <2>2. CASE \E c \in BookingIds, row \in Earlier :
               bookings = [x \in BookingIds |-> IF x = c THEN row ELSE NoRow]
    BY <1>1, <2>2
  <2> QED BY <2>1, <2>2 DEF Init
<1> QED BY <1>1, <1>2 DEF Active, ActiveStatuses, NoRow

\* The table stays as it is.
LEMMA RaceQuiet ==
  ASSUME DoubleBookingNeedsRace, UNCHANGED table
  PROVE  DoubleBookingNeedsRace'
<1>1. (\A b \in BookingIds : Same(b)) /\ UNCHANGED <<unseen, revived>>
  BY DEF Same, table
<1> QED BY <1>1, RaceSame

LEMMA RaceNext ==
  ASSUME BookingInv, TypeOK', FreshInv, DoubleBookingNeedsRace, [Next]_vars
  PROVE  DoubleBookingNeedsRace'
<1>1. ASSUME NEW p \in Requests, Arrive(p) \/ Fail(p)
      PROVE  DoubleBookingNeedsRace'
  <2>1. UNCHANGED table
    BY <1>1 DEF Arrive, Fail, BeginHold, BeginRecurring, ReadReschedule, ReadConfirm,
                ConfirmRead, ReadGroup, ReadCancel, ReadUpdateStatus, ReadPayment
  <2> QED BY <2>1, RaceQuiet
<1>2. ASSUME NEW p \in Requests, Proceed(p)
      PROVE  DoubleBookingNeedsRace'
  <2>1. CASE \/ FindFreeSlot(p) \/ Acquire(p) \/ AssertSlotFree(p) \/ AbortTx(p) \/ Unlock(p)
             \/ CheckOccurrence(p) \/ AbortRecurring(p) \/ \E b \in BookingIds : NextInGroup(p, b)
    <3>1. UNCHANGED table
      BY <2>1 DEF FindFreeSlot, Acquire, AssertSlotFree, AbortTx, Unlock, CheckOccurrence,
                  AbortRecurring, NextInGroup, ConfirmRead
    <3> QED BY <3>1, RaceQuiet
  <2>2. CASE (\E b \in BookingIds : PlaceHold(p, b)) \/ PlaceMove(p)
    <3>1. PlaceMove(p) => req[p].id \in BookingIds
      BY DEF PlaceMove, BookingInv, TypeOK, Locals
    <3> QED BY <2>2, <3>1, RacePlaces
  <2>3. CASE \E ids \in [1 .. req[p].n -> BookingIds] : CommitRecurring(p, ids)
    BY <2>3, RaceCommit
  <2>4. ASSUME NEW next \in {"PENDING", "CONFIRMED"},
               WriteExpire(p) \/ WriteConfirm(p, next) \/ WriteStatus(p) \/ WritePayment(p)
        PROVE  DoubleBookingNeedsRace'
    <3>1. PICK b \in BookingIds, s \in Statuses : SetStatus(b, s) /\ StatusHistory(b, s)
      BY <2>4, WriteRows DEF FreshInv
    <3> QED BY <3>1, RaceStatus
  <2> QED BY <1>2, <2>1, <2>2, <2>3, <2>4 DEF Proceed
<1>3. ASSUME ReleaseExpiredHolds
      PROVE  DoubleBookingNeedsRace'
  <2>1. PICK S \in SUBSET BookingIds :
          /\ Deactivated(S) /\ (\A b \in S : bookings'[b].status = "CANCELLED")
          /\ \A b \in BookingIds \ S : Same(b)
    BY <1>3, ReleaseRows
  <2>2. \A b \in S : ~Active(b)'
    BY <2>1 DEF Active, ActiveStatuses
  <2> QED BY <2>1, <2>2, RaceOver DEF BookingInv
<1>4. ASSUME Tick
      PROVE  DoubleBookingNeedsRace'
  <2>1. UNCHANGED <<unseen, revived>>
    BY <1>4 DEF Tick
  <2> QED BY <1>4, <2>1, TickRows, RaceSame
<1>5. ASSUME (\E k \in Keys : ExpireLock(k)) \/ UNCHANGED vars
      PROVE  DoubleBookingNeedsRace'
  <2>1. UNCHANGED table
    BY <1>5 DEF ExpireLock, vars, table
  <2> QED BY <2>1, RaceQuiet
<1> QED BY <1>1, <1>2, <1>3, <1>4, <1>5 DEF Next

---------------------------------------------------------------------------

RaceInv == BookingInv /\ FreshInv /\ DoubleBookingNeedsRace

LEMMA RaceInductive == Spec => []RaceInv
<1>1. Init => RaceInv
  BY BookingInit, FreshInit, RaceInit DEF RaceInv
<1>2. RaceInv /\ [Next]_vars => RaceInv'
  <2> SUFFICES ASSUME RaceInv, [Next]_vars PROVE RaceInv'
    OBVIOUS
  <2>1. BookingInv' /\ FreshInv'
    BY BookingStep, FreshNext DEF RaceInv
  <2>2. TypeOK'
    BY <2>1 DEF BookingInv
  <2> QED BY <2>1, <2>2, RaceNext DEF RaceInv
<1> QED BY <1>1, <1>2, PTL DEF Spec

\* assertSlotFree misses nothing but races: two active bookings of one lane share an
\* instant only if one was written between the other's check and its commit, or came
\* back from an inactive status; in particular the sessions of one createRecurring
\* never share an instant, whatever the week, the durations and the other requests.
THEOREM DoubleBookingsAreRaces == Spec => []DoubleBookingNeedsRace
<1>1. RaceInv => DoubleBookingNeedsRace
  BY DEF RaceInv
<1> QED BY <1>1, RaceInductive, PTL

\* A step that changes a status against ALLOWED_STATUS_TRANSITIONS is a write of a
\* handler whose read of that booking is out of date (confirm, cancelInternal,
\* updateStatus, PaymentService), never of the cron job or of one that is up to date.
THEOREM ForbiddenMovesAreStale == Spec => IllegalTransitionNeedsStaleRead
<1>1. RaceInv /\ [Next]_vars =>
        [\A b \in BookingIds : Moves(b) /\ Forbidden(b) =>
           \E p \in Requests : req'[p] # req[p] /\ req[p].id = b /\ b \in since[p]]_vars
  BY TransitionStep DEF RaceInv
<1> QED BY <1>1, RaceInductive, PTL DEF Spec, IllegalTransitionNeedsStaleRead

===========================================================================
