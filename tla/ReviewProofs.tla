------------------------------ MODULE ReviewProofs ------------------------------
(***************************************************************************)
(* The review gate, for any requirement, any number of entries and any     *)
(* clock; and, where every recorder is reviewed, what a send-back undoes.  *)
(***************************************************************************)
EXTENDS Review, RequirementsProofs

Types ==
    /\ row \in Instance
    /\ items \in Seq(Item) /\ Len(items) <= MaxItems
    /\ day \in 1..LastDay
    /\ owner \in 0..Len(items)
    /\ \A n \in DOMAIN items : items[n].over \in 0..Len(items)
    /\ carries \in BOOLEAN

ReviewInv == Types /\ OneOpenItem

-----------------------------------------------------------------------------
(* What each kind of entry and decision makes of the row.                    *)

LEMMA RestoredIs ==
    ASSUME NEW i \in Instance, NEW asOf
    PROVE  /\ unwaive(i, asOf) \in Instance
           /\ unwaive(i, asOf).status # "waived"
           /\ unwaive(i, asOf).completed = i.completed
           /\ unwaive(i, asOf).expires = i.expires
           /\ unwaive(i, asOf).due = i.due
<1> DEFINE j == [i EXCEPT !.status = _status_after_reversal(i), !.waived = FALSE]
<1>1. /\ j \in Instance /\ j.status \in {"complete", "in_progress", "not_started"}
      /\ j.completed = i.completed /\ j.expires = i.expires /\ j.due = i.due
  BY DEF _status_after_reversal, Instance, Status
<1> HIDE DEF j
<1>2. /\ recompute(j, asOf) \in Instance /\ recompute(j, asOf).status # "waived"
      /\ recompute(j, asOf).completed = j.completed
      /\ recompute(j, asOf).expires = j.expires
      /\ recompute(j, asOf).due = j.due
  BY <1>1 DEF recompute, Instance, Status
<1>3. QED  BY <1>1, <1>2 DEF unwaive, j

LEMMA SnapshotIs ==
    ASSUME row \in Instance, NEW s \in Instance
    PROVE  /\ _restore_from_snapshot(s) \in Instance
           /\ _restore_from_snapshot(s).status # "waived"
           /\ _restore_from_snapshot(s).completed = s.completed
           /\ _restore_from_snapshot(s).expires = s.expires
           /\ _restore_from_snapshot(s).due = s.due
<1> DEFINE dated == [row EXCEPT !.completed = s.completed, !.expires = s.expires,
                                !.due = s.due, !.started = s.started \/ @]
           j == [dated EXCEPT !.status = _status_after_reversal(dated)]
<1>1. /\ dated \in Instance
      /\ dated.completed = s.completed /\ dated.expires = s.expires /\ dated.due = s.due
  BY DEF Instance
<1> HIDE DEF dated
<1>2. /\ j \in Instance /\ j.status \in {"complete", "in_progress", "not_started"}
      /\ j.completed = s.completed /\ j.expires = s.expires /\ j.due = s.due
  BY <1>1 DEF _status_after_reversal, Instance, Status
<1> HIDE DEF j
<1>3. /\ recompute(j, day) \in Instance /\ recompute(j, day).status # "waived"
      /\ recompute(j, day).completed = j.completed
      /\ recompute(j, day).expires = j.expires
      /\ recompute(j, day).due = j.due
  BY <1>2 DEF recompute, Instance, Status
<1>4. QED  BY <1>2, <1>3 DEF _restore_from_snapshot, j, dated

LEMMA WaiverIs ==
    ASSUME row \in Instance, NEW s \in Instance
    PROVE  /\ RestoredWaiver(s) \in Instance
           /\ RestoredWaiver(s).status # "waived"
           /\ RestoredWaiver(s).completed = row.completed
           /\ RestoredWaiver(s).expires = row.expires
           /\ RestoredWaiver(s).due = s.due
<1> DEFINE i == [row EXCEPT !.due = s.due]
<1>1. i \in Instance /\ i.completed = row.completed /\ i.expires = row.expires /\ i.due = s.due
  BY DEF Instance
<1> HIDE DEF i
<1>2. QED  BY <1>1, RestoredIs DEF RestoredWaiver, i

LEMMA EntryIs ==
    ASSUME row \in Instance, NEW date \in Nat
    PROVE  /\ mark_complete(row, It, date) \in Instance
           /\ mark_complete(row, It, date).status = "complete"
           /\ waive(row) \in Instance
           /\ waive(row).status = "waived"
           /\ waive(row).completed = row.completed
           /\ waive(row).expires = row.expires
<1>1. Interval[It] \in Nat
  BY RequirementsAssumption, ReviewAssumption DEF RequirementsAssumption, ReviewAssumption
<1>2. expiry_for(It, date) \in Nat
  BY <1>1 DEF expiry_for, NoDate
<1>3. mark_complete(row, It, date) \in Instance /\ mark_complete(row, It, date).status = "complete"
  BY <1>2 DEF mark_complete, Instance, Status, NoDate
<1>4. /\ waive(row) \in Instance /\ waive(row).status = "waived"
      /\ waive(row).completed = row.completed /\ waive(row).expires = row.expires
  BY DEF waive, Instance, Status, NoDate
<1>5. QED  BY <1>3, <1>4

\* Time and roles move the row on, but never into or out of a waiver.
LEMMA ElapseIs ==
    ASSUME row \in Instance, Resync \/ NightlyRecompute
    PROVE  /\ row' \in Instance
           /\ row.status = "waived" => row' = row
           /\ row'.status = "waived" => row.status = "waived"
<1>1. CASE NightlyRecompute
  BY <1>1 DEF NightlyRecompute, recompute, Instance, Status
<1>2. CASE Resync
  <2>1. row' \in Instance
    <3>1. row' \in {_hold_not_applicable(row), [row EXCEPT !.status = "not_started"], row}
      BY <1>2 DEF Resync
    <3>2. [row EXCEPT !.status = "not_started"] \in Instance
      BY DEF Instance, Status
    <3>3. QED  BY <3>1, <3>2, HoldIsInstance
  <2>2. row.status = "waived" => row' = row
    BY <1>2 DEF Resync, outstanding_values
  <2>3. row'.status = "waived" => row.status = "waived"
    BY <1>2 DEF Resync, _hold_not_applicable, Instance
  <2>4. QED  BY <2>1, <2>2, <2>3
<1>3. QED  BY <1>1, <1>2

-----------------------------------------------------------------------------
(* The queue.                                                                *)

\* What a scoped recorder's entry does to the queue.
Opened(kind, affects, snapshot) ==
    /\ items' \in Seq(Item) /\ Len(items') = Len(items) + 1 /\ Len(items') <= MaxItems
    /\ DOMAIN items' = DOMAIN items \cup {Len(items) + 1}
    /\ items'[Len(items) + 1] = EntryOf(kind, affects, snapshot)
    /\ \A n \in DOMAIN items :
          items'[n] = IF kind # "document" /\ n \in OnRow
                      THEN [items[n] EXCEPT !.status = "superseded"] ELSE items[n]

LEMMA OpenIs ==
    ASSUME Types, NEW scoped \in BOOLEAN,
           NEW kind \in {"completion", "waiver", "document"},
           NEW affects \in BOOLEAN, NEW snapshot \in Instance,
           open_if_unverified(scoped, kind, affects, snapshot)
    PROVE  IF scoped THEN Opened(kind, affects, snapshot) ELSE items' = items
<1> DEFINE closed == [n \in DOMAIN items |->
                        IF kind # "document" /\ n \in OnRow
                        THEN [items[n] EXCEPT !.status = "superseded"] ELSE items[n]]
<1>1. CASE ~scoped
  BY <1>1 DEF open_if_unverified
<1>2. CASE scoped
  <2>1. /\ items \in Seq(Item) /\ Len(items) \in Nat /\ MaxItems \in Nat
        /\ Len(items) < MaxItems
        /\ items' = Append(closed, EntryOf(kind, affects, snapshot))
    BY <1>2, ReviewAssumption DEF Types, open_if_unverified, ReviewAssumption
  <2>2. EntryOf(kind, affects, snapshot) \in Item
    BY DEF EntryOf, Item, Types
  <2>3. \A n \in DOMAIN items :
           items[n] \in Item /\ [items[n] EXCEPT !.status = "superseded"] \in Item
    <3>1. \A i \in Item : [i EXCEPT !.status = "superseded"] \in Item
      BY DEF Item
    <3>2. \A n \in DOMAIN items : items[n] \in Item
      BY <2>1
    <3>3. QED  BY <3>1, <3>2
  <2>4. closed \in Seq(Item) /\ Len(closed) = Len(items) /\ DOMAIN closed = DOMAIN items
    <3>1. DOMAIN items = 1..Len(items)
      BY <2>1
    <3>2. closed \in [1..Len(items) -> Item]
      BY <2>3, <3>1
    <3> HIDE DEF closed
    <3>3. QED  BY <2>1, <3>1, <3>2
  <2>5. \A n \in DOMAIN items :
           closed[n] = IF kind # "document" /\ n \in OnRow
                       THEN [items[n] EXCEPT !.status = "superseded"] ELSE items[n]
    OBVIOUS
  <2> DEFINE entry == EntryOf(kind, affects, snapshot)
  <2> HIDE DEF closed, entry
  <2>6. /\ items' \in Seq(Item) /\ Len(items') = Len(items) + 1
        /\ DOMAIN items' = DOMAIN items \cup {Len(items) + 1}
        /\ items'[Len(items) + 1] = entry
        /\ \A n \in DOMAIN items : items'[n] = closed[n]
    BY <2>1, <2>2, <2>4 DEF entry
  <2>7. QED  BY <1>2, <2>1, <2>5, <2>6 DEF Opened, entry
<1>3. QED  BY <1>1, <1>2

\* A new entry leaves one open item on the row: itself, or the one there was.
LEMMA OpenKeepsOne ==
    ASSUME Types, OneOpenItem,
           NEW kind \in {"completion", "waiver", "document"}, NEW affects, NEW snapshot,
           Opened(kind, affects, snapshot)
    PROVE  /\ OneOpenItem'
           /\ kind = "document" => OnRow' = OnRow
           /\ kind # "document" => OnRow' = {Len(items) + 1}
<1>1. Len(items) \in Nat /\ DOMAIN items = 1..Len(items)
  BY DEF Types
<1>2. \A n \in DOMAIN items : items[n] \in Item
  BY DEF Types
<1>3. \A n \in DOMAIN items :
         items'[n].kind = items[n].kind
         /\ (kind # "document" /\ n \in OnRow => items'[n].status = "superseded")
         /\ (kind = "document" \/ n \notin OnRow => items'[n] = items[n])
  BY <1>2 DEF Opened, Item
<1>4. /\ items'[Len(items) + 1].kind = kind /\ items'[Len(items) + 1].status = "pending"
  BY DEF Opened, EntryOf
<1>5. CASE kind = "document"
  <2>1. OnRow' = OnRow
    BY <1>1, <1>3, <1>4, <1>5 DEF OnRow, Pending, Opened
  <2>2. QED  BY <1>5, <2>1 DEF OneOpenItem
<1>6. CASE kind # "document"
  <2>1. \A n \in DOMAIN items : n \notin OnRow'
    BY <1>3, <1>6 DEF OnRow, Pending
  <2>2. OnRow' = {Len(items) + 1}
    BY <1>4, <1>6, <2>1 DEF OnRow, Pending, Opened
  <2>3. QED  BY <1>6, <2>2 DEF OneOpenItem
<1>7. QED  BY <1>5, <1>6

\* Recording, by anybody.
LEMMA EntryKeeps ==
    ASSUME ReviewInv, NEW scoped \in BOOLEAN,
           NEW kind \in {"completion", "waiver", "document"},
           NEW affects \in BOOLEAN, NEW snapshot \in Instance,
           open_if_unverified(scoped, kind, affects, snapshot),
           \/ OwnedBy(scoped)
           \/ kind = "document" /\ UNCHANGED owner,
           row' \in Instance, UNCHANGED <<day, carries>>
    PROVE  ReviewInv'
<1> USE DEF ReviewInv
<1>1. /\ Len(items) \in Nat /\ DOMAIN items = 1..Len(items) /\ owner \in 0..Len(items)
      /\ \A n \in DOMAIN items : items[n] \in Item /\ items[n].over \in 0..Len(items)
  BY DEF Types
<1>2. CASE ~scoped
  <2>1. items' = items
    BY <1>2, OpenIs
  <2>2. owner' \in {0, owner}
    BY <1>2 DEF OwnedBy
  <2>3. Types'
    BY <1>1, <2>1, <2>2 DEF Types
  <2>4. OneOpenItem'
    BY <2>1 DEF OneOpenItem, OnRow, Pending
  <2>5. QED  BY <2>3, <2>4
<1>3. CASE scoped
  <2>1. Opened(kind, affects, snapshot)
    BY <1>3, OpenIs
  <2>2. OneOpenItem'
    BY <2>1, OpenKeepsOne
  <2>3. owner' = Len(items) + 1 \/ (kind = "document" /\ owner' = owner)
    BY <1>3 DEF OwnedBy
  <2>4. \A n \in DOMAIN items' : items'[n].over \in 0..Len(items')
    <3>1. items'[Len(items) + 1].over \in 0..Len(items)
      BY <1>1, <2>1 DEF Opened, EntryOf
    <3>2. \A n \in DOMAIN items : items'[n].over = items[n].over
      BY <1>1, <2>1 DEF Opened, Item
    <3>3. QED  BY <1>1, <2>1, <3>1, <3>2 DEF Opened
  <2>5. Types'
    BY <1>1, <2>1, <2>3, <2>4 DEF Types, Opened
  <2>6. QED  BY <2>2, <2>5
<1>4. QED  BY <1>2, <1>3

LEMMA EnterKeeps ==
    ASSUME ReviewInv, Enter
    PROVE  ReviewInv'
<1> USE DEF ReviewInv
<1>0. row \in Instance /\ Blank \in Instance /\ RecorderIsScoped \subseteq BOOLEAN
  BY BlankIsInstance, ReviewAssumption DEF Types, ReviewAssumption
<1>1. ASSUME NEW scoped \in RecorderIsScoped, NEW date \in 1..LastDay,
             mark_requirement_complete(scoped, date)
      PROVE  ReviewInv'
  <2>1. row' \in Instance /\ scoped \in BOOLEAN
    BY <1>0, <1>1, EntryIs DEF mark_requirement_complete
  <2>2. QED  BY <1>0, <1>1, <2>1, EntryKeeps DEF mark_requirement_complete
<1>2. ASSUME NEW scoped \in RecorderIsScoped, waive_requirement(scoped)
      PROVE  ReviewInv'
  <2>1. row' \in Instance /\ scoped \in BOOLEAN
    BY <1>0, <1>2, 0 \in Nat, EntryIs DEF waive_requirement
  <2>2. QED  BY <1>0, <1>2, <2>1, EntryKeeps DEF waive_requirement
<1>3. ASSUME NEW scoped \in RecorderIsScoped, NEW date \in 1..LastDay,
             store_document(scoped, date)
      PROVE  ReviewInv'
  <2> DEFINE completes == can_mark_complete(row, It) /\ date <= day
  <2>1. /\ row' = IF completes THEN mark_complete(row, It, date) ELSE row
        /\ open_if_unverified(scoped, "document", completes, Blank)
        /\ IF completes THEN OwnedBy(scoped) ELSE UNCHANGED owner
        /\ UNCHANGED <<day, carries>>
    BY <1>3 DEF store_document
  <2>2. completes \in BOOLEAN
    OBVIOUS
  <2> HIDE DEF completes
  <2>3. row' \in Instance /\ scoped \in BOOLEAN
    BY <1>0, <2>1, EntryIs
  <2>4. OwnedBy(scoped) \/ UNCHANGED owner
    BY <2>1
  <2>5. QED  BY <1>0, <2>1, <2>2, <2>3, <2>4, EntryKeeps
<1>4. ASSUME reverse_waiver \/ start_requirement
      PROVE  ReviewInv'
  <2>1. items' = items /\ owner' \in 0..Len(items) /\ UNCHANGED <<day, carries>>
    BY <1>4 DEF reverse_waiver, start_requirement, Types
  <2>2. row' \in Instance
    <3>1. start(row) \in Instance
      BY <1>0 DEF start, Instance, Status
    <3>2. QED  BY <1>0, <1>4, <3>1, RestoredIs DEF reverse_waiver, start_requirement
  <2>3. Types'
    BY <2>1, <2>2 DEF Types
  <2>4. OneOpenItem'
    BY <2>1 DEF OneOpenItem, OnRow, Pending
  <2>5. QED  BY <2>3, <2>4
<1>5. QED  BY <1>1, <1>2, <1>3, <1>4 DEF Enter

-----------------------------------------------------------------------------
(* Deciding.                                                                 *)

LEMMA CloseIs ==
    ASSUME Types, NEW n \in DOMAIN items, NEW status \in {"affirmed", "sent_back"},
           Close(n, status)
    PROVE  /\ items' \in Seq(Item) /\ Len(items') = Len(items)
           /\ DOMAIN items' = DOMAIN items
           /\ items'[n].status = status /\ items'[n].kind = items[n].kind
           /\ items'[n].over = items[n].over
           /\ \A m \in DOMAIN items \ {n} : items'[m] = items[m]
<1>1. items \in Seq(Item) /\ items[n] \in Item
  BY DEF Types
<1> DEFINE item == [items[n] EXCEPT !.status = status]
<1>2. /\ item \in Item /\ item.status = status /\ item.kind = items[n].kind
      /\ item.over = items[n].over
  BY <1>1 DEF Item
<1>3. items' = [items EXCEPT ![n] = item]
  BY DEF Close
<1> HIDE DEF item
<1>4. QED  BY <1>1, <1>2, <1>3

\* What a send-back makes of the row.
LEMMA SentBackIs ==
    ASSUME Types, NEW n \in DOMAIN items, NEW open, send_back(n, open)
    PROVE  /\ row' \in Instance /\ owner' \in 0..Len(items)
           /\ row' # row => row'.status # "waived" /\ Reverts(n)
<1>1. row \in Instance /\ items[n].snapshot \in Instance
  <2>1. items[n] \in Item
    BY DEF Types
  <2>2. QED  BY <2>1 DEF Types, Item
<1>2. QED  BY <1>1, SnapshotIs, WaiverIs DEF send_back, Types

LEMMA DecideKeeps ==
    ASSUME ReviewInv, NEW n \in DOMAIN items, Decide(n, items[n].status = "pending")
    PROVE  ReviewInv'
<1> USE DEF ReviewInv
<1>1. PICK status \in {"affirmed", "sent_back"} : Close(n, status)
  BY DEF Decide, affirm, send_back
<1>2. row' \in Instance /\ owner' \in 0..Len(items) /\ UNCHANGED <<day, carries>>
  BY SentBackIs DEF Decide, affirm, send_back, Types
<1>3. /\ items' \in Seq(Item) /\ Len(items') = Len(items)
      /\ DOMAIN items' = DOMAIN items
      /\ items'[n].status = status /\ items'[n].kind = items[n].kind
      /\ items'[n].over = items[n].over
      /\ \A m \in DOMAIN items \ {n} : items'[m] = items[m]
  BY <1>1, CloseIs
<1>4. Types'
  BY <1>2, <1>3 DEF Types
<1>5. OneOpenItem'
  <2>1. OnRow' \subseteq OnRow
    BY <1>3 DEF OnRow, Pending
  <2>2. QED  BY <2>1 DEF OneOpenItem
<1>6. QED  BY <1>4, <1>5

LEMMA ReviewInit == WInit => ReviewInv
<1>1. SUFFICES ASSUME WInit PROVE ReviewInv
  OBVIOUS
<1>2. row \in Instance
  <2>1. PICK due \in Dues : row = [Blank EXCEPT !.due = due]
    BY <1>1 DEF WInit
  <2>2. due \in Nat
    BY ReviewAssumption DEF ReviewAssumption
  <2>3. QED  BY <2>1, <2>2, BlankIsInstance DEF Instance
<1>3. Types
  BY <1>1, <1>2, ReviewAssumption DEF WInit, Types, ReviewAssumption, Date
<1>4. OneOpenItem
  BY <1>1 DEF WInit, OneOpenItem, OnRow, Pending
<1>5. QED  BY <1>3, <1>4 DEF ReviewInv

LEMMA ReviewNext == ReviewInv /\ [WNext]_wvars => ReviewInv'
<1>1. SUFFICES ASSUME ReviewInv, [WNext]_wvars PROVE ReviewInv'
  OBVIOUS
<1>2. ASSUME UNCHANGED <<items, owner>>, row' \in Instance, day' \in 1..LastDay,
             carries' \in BOOLEAN
      PROVE  ReviewInv'
  <2>1. Types'
    BY <1>1, <1>2 DEF ReviewInv, Types
  <2>2. OneOpenItem'
    BY <1>1, <1>2 DEF ReviewInv, OneOpenItem, OnRow, Pending
  <2>3. QED  BY <2>1, <2>2 DEF ReviewInv
<1>3. row \in Instance /\ day \in 1..LastDay /\ LastDay \in Nat /\ carries \in BOOLEAN
  BY <1>1, ReviewAssumption DEF ReviewInv, Types, ReviewAssumption, Date
<1>4. CASE Resync \/ NightlyRecompute
  <2>1. UNCHANGED <<items, owner, day>> /\ carries' \in BOOLEAN
    BY <1>3, <1>4 DEF Resync, NightlyRecompute
  <2>2. QED  BY <1>2, <1>3, <1>4, <2>1, ElapseIs
<1>5. CASE Tick
  BY <1>2, <1>3, <1>5 DEF Tick
<1>6. CASE UNCHANGED wvars
  BY <1>2, <1>3, <1>6 DEF wvars
<1>7. QED
  BY <1>1, <1>4, <1>5, <1>6, EnterKeeps, DecideKeeps DEF WNext, Elapse

(***************************************************************************)
(* open_if_unverified: a row has at most one open item, whoever records.   *)
(***************************************************************************)
THEOREM OneOpenItemAlways == WSpec => []OneOpenItem
<1>1. ReviewInv => OneOpenItem
  BY DEF ReviewInv
<1>2. QED  BY <1>1, ReviewInit, ReviewNext, PTL DEF WSpec

(***************************************************************************)
(* Whatever is recorded, reversed or sent back leaves a row that is a row, *)
(* and items that are items.                                               *)
(***************************************************************************)
THEOREM WTypeOKAlways == WSpec => []WTypeOK
<1>1. ReviewInv => WTypeOK
  <2>1. SUFFICES ASSUME ReviewInv PROVE WTypeOK
    OBVIOUS
  <2>2. Len(items) \in Nat /\ MaxItems \in Nat
    BY <2>1, ReviewAssumption DEF ReviewInv, Types, ReviewAssumption
  <2>3. QED  BY <2>1, <2>2 DEF ReviewInv, Types, WTypeOK
<1>2. QED  BY <1>1, ReviewInit, ReviewNext, PTL DEF WSpec

-----------------------------------------------------------------------------
(* What a step does to the items there are.                                  *)

Entered == \E kind \in {"completion", "waiver", "document"}, affects \in BOOLEAN,
              snapshot \in Instance : Opened(kind, affects, snapshot)

LEMMA ItemsMove ==
    ASSUME Types, [WNext]_wvars
    PROVE  \/ items' = items
           \/ Entered
           \/ \E n \in DOMAIN items : Decide(n, items[n].status = "pending")
<1>0. row \in Instance /\ Blank \in Instance /\ RecorderIsScoped \subseteq BOOLEAN
  BY BlankIsInstance, ReviewAssumption DEF Types, ReviewAssumption
<1>1. ASSUME NEW scoped \in BOOLEAN, NEW kind \in {"completion", "waiver", "document"},
             NEW affects \in BOOLEAN, NEW snapshot \in Instance,
             open_if_unverified(scoped, kind, affects, snapshot)
      PROVE  items' = items \/ Entered
  BY <1>1, OpenIs DEF Entered
<1>2. CASE Enter
  <2>1. ASSUME NEW scoped \in RecorderIsScoped, NEW date \in 1..LastDay,
               mark_requirement_complete(scoped, date)
        PROVE  items' = items \/ Entered
    BY <1>0, <1>1, <2>1 DEF mark_requirement_complete
  <2>2. ASSUME NEW scoped \in RecorderIsScoped, waive_requirement(scoped)
        PROVE  items' = items \/ Entered
    BY <1>0, <1>1, <2>2 DEF waive_requirement
  <2>3. ASSUME NEW scoped \in RecorderIsScoped, NEW date \in 1..LastDay,
               store_document(scoped, date)
        PROVE  items' = items \/ Entered
    <3>1. \E completes \in BOOLEAN : open_if_unverified(scoped, "document", completes, Blank)
      BY <2>3 DEF store_document
    <3>2. QED  BY <1>0, <1>1, <3>1
  <2>4. QED
    BY <1>2, <2>1, <2>2, <2>3 DEF Enter, reverse_waiver, start_requirement
<1>3. QED
  BY <1>2 DEF WNext, wvars, Elapse, Resync, NightlyRecompute, Tick

LEMMA StatusMoves ==
    ASSUME Types, [WNext]_wvars, NEW n \in DOMAIN items
    PROVE  /\ items[n].status # "pending" => items'[n].status = items[n].status
           /\ items[n].status = "pending" /\ items'[n].status = "sent_back"
              => send_back(n, TRUE)
<1>1. CASE items' = items
  BY <1>1
<1>2. CASE Entered
  <2>1. PICK kind \in {"completion", "waiver", "document"}, affects \in BOOLEAN,
             snapshot \in Instance : Opened(kind, affects, snapshot)
    BY <1>2 DEF Entered
  <2>2. items[n] \in Item
    BY DEF Types
  <2>3. items'[n].status = items[n].status \/ (n \in Pending /\ items'[n].status = "superseded")
    BY <2>1, <2>2 DEF Opened, OnRow, Item
  <2>4. QED  BY <2>3 DEF Pending
<1>3. ASSUME NEW m \in DOMAIN items, Decide(m, items[m].status = "pending")
      PROVE  /\ items[n].status # "pending" => items'[n].status = items[n].status
             /\ items[n].status = "pending" /\ items'[n].status = "sent_back"
                => send_back(n, TRUE)
  <2>1. items[m].status = "pending"
    BY <1>3 DEF Decide, affirm, send_back
  <2>2. CASE affirm(m, TRUE)
    <3>1. Close(m, "affirmed")
      BY <2>2 DEF affirm
    <3>2. QED  BY <2>1, <3>1, CloseIs
  <2>3. CASE send_back(m, TRUE)
    <3>1. Close(m, "sent_back")
      BY <2>3 DEF send_back
    <3>2. QED  BY <2>1, <2>3, <3>1, CloseIs
  <2>4. QED  BY <1>3, <2>1, <2>2, <2>3 DEF Decide
<1>4. QED  BY <1>1, <1>2, <1>3, ItemsMove

(***************************************************************************)
(* ReviewItem._close: a decision, and a supersession, is for good.         *)
(***************************************************************************)
THEOREM ItemsAreTerminalAlways == WSpec => ItemsAreTerminal
<1>1. ReviewInv /\ [WNext]_wvars =>
        [\A n \in DOMAIN items :
           items[n].status # "pending" => items'[n].status = items[n].status]_wvars
  BY StatusMoves DEF ReviewInv
<1>2. QED  BY <1>1, ReviewInit, ReviewNext, PTL DEF WSpec, ItemsAreTerminal

\* Recording puts the new entry on the row and its item in the queue; a document
\* that completes nothing leaves both alone.
LEMMA EntryCovers ==
    ASSUME Types, NEW scoped \in BOOLEAN,
           NEW kind \in {"completion", "waiver", "document"},
           NEW affects \in BOOLEAN, NEW snapshot \in Instance,
           open_if_unverified(scoped, kind, affects, snapshot),
           \/ OwnedBy(scoped)
           \/ kind = "document" /\ UNCHANGED owner,
           Uncovered'
    PROVE  Uncovered
<1>1. Len(items) \in Nat /\ DOMAIN items = 1..Len(items) /\ owner \in 0..Len(items)
  BY DEF Types
<1>2. CASE ~scoped
  <2>1. items' = items
    BY <1>2, OpenIs
  <2>2. owner' \in {0, owner}
    BY <1>2 DEF OwnedBy
  <2>3. QED  BY <2>1, <2>2 DEF Uncovered
<1>3. CASE scoped
  <2>1. Opened(kind, affects, snapshot)
    BY <1>3, OpenIs
  <2>2. items'[Len(items) + 1].status = "pending"
    BY <2>1 DEF Opened, EntryOf
  <2>3. kind = "document" => \A n \in DOMAIN items : items'[n] = items[n]
    BY <2>1 DEF Opened
  <2>4. owner' = Len(items) + 1 \/ (kind = "document" /\ owner' = owner)
    BY <1>3 DEF OwnedBy
  <2>5. QED  BY <1>1, <2>2, <2>3, <2>4 DEF Uncovered
<1>4. QED  BY <1>2, <1>3

LEMMA NextCovers ==
    ASSUME Types, [WNext]_wvars, Uncovered', ~Uncovered
    PROVE  \/ row.status = "waived" /\ row'.status # "waived"
           \/ \E n \in DOMAIN items :
                 items[n].status = "pending" /\ items'[n].status = "sent_back"
<1>0. row \in Instance /\ Blank \in Instance /\ RecorderIsScoped \subseteq BOOLEAN
  BY BlankIsInstance, ReviewAssumption DEF Types, ReviewAssumption
<1>1. ASSUME NEW scoped \in RecorderIsScoped, NEW date \in 1..LastDay,
             mark_requirement_complete(scoped, date)
      PROVE  FALSE
  BY <1>0, <1>1, EntryCovers DEF mark_requirement_complete
<1>2. ASSUME NEW scoped \in RecorderIsScoped, waive_requirement(scoped)
      PROVE  FALSE
  BY <1>0, <1>2, EntryCovers DEF waive_requirement
<1>3. ASSUME NEW scoped \in RecorderIsScoped, NEW date \in 1..LastDay,
             store_document(scoped, date)
      PROVE  FALSE
  <2> DEFINE completes == can_mark_complete(row, It) /\ date <= day
  <2>1. /\ open_if_unverified(scoped, "document", completes, Blank)
        /\ IF completes THEN OwnedBy(scoped) ELSE UNCHANGED owner
    BY <1>3 DEF store_document
  <2>2. completes \in BOOLEAN
    OBVIOUS
  <2> HIDE DEF completes
  <2>3. OwnedBy(scoped) \/ UNCHANGED owner
    BY <2>1
  <2>4. QED  BY <1>0, <2>1, <2>2, <2>3, EntryCovers
<1>4. CASE reverse_waiver
  BY <1>0, <1>4, RestoredIs DEF reverse_waiver
<1>5. CASE start_requirement \/ Elapse \/ UNCHANGED wvars
  BY <1>5 DEF start_requirement, Elapse, Resync, NightlyRecompute, Tick, wvars, Uncovered
<1>6. ASSUME NEW n \in DOMAIN items, affirm(n, items[n].status = "pending")
      PROVE  FALSE
  <2>1. owner' = owner /\ Close(n, "affirmed")
    BY <1>6 DEF affirm
  <2>2. owner \in DOMAIN items \/ owner = 0
    BY DEF Types
  <2>3. QED  BY <2>1, <2>2, CloseIs DEF Uncovered
<1>7. ASSUME NEW n \in DOMAIN items, send_back(n, items[n].status = "pending")
      PROVE  items[n].status = "pending" /\ items'[n].status = "sent_back"
  BY <1>7, CloseIs DEF send_back
<1>8. QED
  BY <1>1, <1>2, <1>3, <1>4, <1>5, <1>6, <1>7 DEF WNext, Enter, Decide

(***************************************************************************)
(* open_if_unverified supersedes an entry only as another takes its place  *)
(* on the row: nobody's recording, and no night, leaves the row with an    *)
(* entry that is out of the queue.  Undoing an entry may.                  *)
(***************************************************************************)
THEOREM OnlyUndoingUncoversAlways == WSpec => OnlyUndoingUncovers
<1>1. ReviewInv /\ [WNext]_wvars =>
        [Uncovered' => \/ Uncovered
                       \/ row.status = "waived" /\ row'.status # "waived"
                       \/ \E n \in DOMAIN items :
                             items[n].status = "pending" /\ items'[n].status = "sent_back"]_wvars
  BY NextCovers DEF ReviewInv
<1>2. QED  BY <1>1, ReviewInit, ReviewNext, PTL DEF WSpec, OnlyUndoingUncovers

-----------------------------------------------------------------------------
(* Where every recorder is reviewed, and what they record is the row itself. *)
(* Then the pending item is the row's last entry, unless that was a waiver   *)
(* somebody has reversed; and while it stands the row holds what the waiver  *)
(* found.                                                                    *)

AllReviewed == RecorderIsScoped \subseteq {TRUE} /\ Kinds \subseteq {"completion", "waiver"}

Accounted(n) ==
    /\ items[n].kind # "document"
    /\ items[n].snapshot = items[n].rowBefore
    /\ items[n].status = "pending" /\ items[n].kind = "completion" =>
          owner = n /\ row.status # "waived"
    /\ items[n].status = "pending" /\ items[n].kind = "waiver" /\ row.status = "waived" =>
          /\ owner = n
          /\ row.completed = items[n].rowBefore.completed
          /\ row.expires = items[n].rowBefore.expires

ScopedInv == ReviewInv /\ \A n \in DOMAIN items : Accounted(n)

\* A new entry is accounted for, and nothing else is pending beside it.
LEMMA EntryAccounted ==
    ASSUME ScopedInv, NEW kind \in {"completion", "waiver"},
           Opened(kind, TRUE, row), owner' = Len(items) + 1,
           kind = "completion" => row'.status # "waived",
           kind = "waiver" => row'.completed = row.completed /\ row'.expires = row.expires
    PROVE  \A n \in DOMAIN items' : Accounted(n)'
<1> USE DEF ScopedInv, ReviewInv
<1>1. \A n \in DOMAIN items : items[n] \in Item
  BY DEF Types
<1>2. ASSUME NEW n \in DOMAIN items PROVE Accounted(n)'
  <2>1. Accounted(n) /\ items[n] \in Item
    BY <1>1
  <2>2. /\ items'[n].kind = items[n].kind
        /\ items'[n].snapshot = items[n].snapshot
        /\ items'[n].rowBefore = items[n].rowBefore
        /\ items'[n].status # "pending"
    BY <2>1 DEF Opened, Item, OnRow, Pending, Accounted
  <2>3. QED  BY <2>1, <2>2 DEF Accounted
<1>3. ASSUME NEW n, n = Len(items) + 1 PROVE Accounted(n)'
  <2>1. items'[n] = EntryOf(kind, TRUE, row)
    BY <1>3 DEF Opened
  <2>2. /\ items'[n].kind = kind /\ items'[n].snapshot = row /\ items'[n].rowBefore = row
        /\ items'[n].status = "pending"
    BY <2>1 DEF EntryOf
  <2>3. QED  BY <1>3, <2>2 DEF Accounted
<1>4. QED  BY <1>2, <1>3 DEF Opened

\* Everything that opens no item keeps the account.
LEMMA QuietAccounted ==
    ASSUME ScopedInv, NEW n \in DOMAIN items,
           items'[n] = items[n] \/ items'[n] = [items[n] EXCEPT !.status = "sent_back"]
                                \/ items'[n] = [items[n] EXCEPT !.status = "affirmed"],
           \/ items'[n].status # "pending"
           \/ owner' = owner /\ (row'.status = "waived" => row' = row)
           \/ row'.status # "waived" /\ (owner' = owner \/ items[n].kind # "completion")
    PROVE  Accounted(n)'
<1>1. items[n] \in Item /\ Accounted(n)
  BY DEF ScopedInv, ReviewInv, Types
<1>2. /\ items'[n].kind = items[n].kind
      /\ items'[n].snapshot = items[n].snapshot
      /\ items'[n].rowBefore = items[n].rowBefore
      /\ items'[n].status = items[n].status \/ items'[n].status # "pending"
  BY <1>1 DEF Item
<1>3. QED  BY <1>1, <1>2 DEF Accounted

LEMMA ScopedInit == WInit => ScopedInv
<1>1. WInit => \A n \in DOMAIN items : Accounted(n)
  BY DEF WInit
<1>2. QED  BY <1>1, ReviewInit DEF ScopedInv

LEMMA ScopedNext ==
    ASSUME AllReviewed, ScopedInv, [WNext]_wvars
    PROVE  ScopedInv'
<1> USE DEF ScopedInv
<1>0. /\ ReviewInv' /\ Types /\ row \in Instance /\ day \in 1..LastDay
      /\ \A n \in DOMAIN items : Accounted(n)
  BY ReviewNext DEF ReviewInv, Types
<1>1. ASSUME NEW scoped \in RecorderIsScoped,
             \/ \E date \in 1..LastDay : mark_requirement_complete(scoped, date)
             \/ waive_requirement(scoped)
             \/ \E date \in 1..LastDay : store_document(scoped, date)
      PROVE  \A n \in DOMAIN items' : Accounted(n)'
  <2>1. scoped = TRUE
    BY <1>1 DEF AllReviewed
  <2>2. ASSUME NEW date \in 1..LastDay, mark_requirement_complete(TRUE, date)
        PROVE  \A n \in DOMAIN items' : Accounted(n)'
    <3>1. Opened("completion", TRUE, row) /\ owner' = Len(items) + 1
      BY <1>0, <2>2, OpenIs DEF mark_requirement_complete, OwnedBy
    <3>2. row'.status # "waived"
      BY <1>0, <2>2, EntryIs DEF mark_requirement_complete
    <3>3. QED  BY <3>1, <3>2, EntryAccounted
  <2>3. ASSUME waive_requirement(TRUE)
        PROVE  \A n \in DOMAIN items' : Accounted(n)'
    <3>1. Opened("waiver", TRUE, row) /\ owner' = Len(items) + 1
      BY <1>0, <2>3, OpenIs DEF waive_requirement, OwnedBy
    <3>2. row'.completed = row.completed /\ row'.expires = row.expires
      BY <1>0, <2>3, 0 \in Nat, EntryIs DEF waive_requirement
    <3>3. QED  BY <3>1, <3>2, EntryAccounted
  <2>4. ASSUME NEW date \in 1..LastDay PROVE ~store_document(scoped, date)
    BY DEF store_document, AllReviewed
  <2>5. QED  BY <1>1, <2>1, <2>2, <2>3, <2>4
<1>2. ASSUME reverse_waiver \/ start_requirement
      PROVE  \A n \in DOMAIN items' : Accounted(n)'
  <2>1. items' = items
    BY <1>2 DEF reverse_waiver, start_requirement
  <2>2. ASSUME NEW n \in DOMAIN items PROVE Accounted(n)'
    <3>1. items'[n].status = "pending" /\ row.status = "waived"
          => items[n].kind # "completion"
      BY <1>0, <2>1 DEF Accounted
    <3>2. row'.status # "waived"
      <4>1. start(row).status # "waived" \/ row.status \notin {"not_started", "overdue"}
        BY <1>0 DEF start, Instance
      <4>2. QED  BY <1>0, <1>2, <4>1, RestoredIs DEF reverse_waiver, start_requirement
    <3>3. owner' = owner \/ row.status = "waived"
      BY <1>2 DEF reverse_waiver, start_requirement
    <3>4. QED  BY <2>1, <3>1, <3>2, <3>3, QuietAccounted
  <2>3. DOMAIN items' = DOMAIN items
    BY <2>1
  <2>4. QED  BY <2>2, <2>3
<1>3. ASSUME Elapse \/ UNCHANGED wvars
      PROVE  \A n \in DOMAIN items' : Accounted(n)'
  <2>1. items' = items /\ owner' = owner
    BY <1>3 DEF Elapse, Resync, NightlyRecompute, Tick, wvars
  <2>2. row'.status = "waived" => row' = row
    BY <1>0, <1>3, ElapseIs DEF Elapse, Tick, wvars
  <2>3. ASSUME NEW n \in DOMAIN items PROVE Accounted(n)'
    <3>1. items'[n] = items[n]
      BY <2>1
    <3>2. QED  BY <2>1, <2>2, <3>1, QuietAccounted
  <2>4. DOMAIN items' = DOMAIN items
    BY <2>1
  <2>5. QED  BY <2>3, <2>4
<1>4. ASSUME NEW m \in DOMAIN items, Decide(m, items[m].status = "pending")
      PROVE  \A n \in DOMAIN items' : Accounted(n)'
  <2>1. PICK status \in {"affirmed", "sent_back"} : Close(m, status)
    BY <1>4 DEF Decide, affirm, send_back
  <2>2. items[m].status = "pending"
    BY <1>4 DEF Decide, affirm, send_back
  <2>3. /\ DOMAIN items' = DOMAIN items
        /\ items'[m] = [items[m] EXCEPT !.status = status]
        /\ \A n \in DOMAIN items \ {m} : items'[n] = items[n]
    BY <1>0, <2>1 DEF Close, Types
  <2>4. ASSUME NEW n \in DOMAIN items PROVE items'[n].status # "pending"
    <3>1. items'[m].status = status
      BY <1>0, <2>1, CloseIs
    <3>2. n # m => items[n].status # "pending"
      <4>1. items[n].kind # "document" /\ items[m].kind # "document"
        BY <1>0 DEF Accounted
      <4>2. QED  BY <2>2, <4>1 DEF ReviewInv, OneOpenItem, OnRow, Pending
    <3>3. QED  BY <2>3, <3>1, <3>2
  <2>5. QED  BY <2>1, <2>3, <2>4, QuietAccounted
<1>5. \A n \in DOMAIN items' : Accounted(n)'
  BY <1>1, <1>2, <1>3, <1>4 DEF WNext, Enter
<1>6. QED  BY <1>0, <1>5

\* A send-back that changes the row.
LEMMA SendBackIs ==
    ASSUME ScopedInv, NEW n \in DOMAIN items, items[n].status = "pending",
           send_back(n, TRUE), row' # row
    PROVE  /\ owner = n
           /\ row'.completed = items[n].rowBefore.completed
           /\ row'.expires = items[n].rowBefore.expires
           /\ row'.due = items[n].rowBefore.due
<1>1. /\ Accounted(n) /\ items[n] \in Item /\ row \in Instance
      /\ Reverts(n)
  <2>1. Types /\ Accounted(n)
    BY DEF ScopedInv, ReviewInv
  <2>2. items[n] \in Item /\ row \in Instance
    BY <2>1 DEF Types
  <2>3. Reverts(n)
    BY <2>1, SentBackIs
  <2>4. QED  BY <2>1, <2>2, <2>3
<1>2. items[n].snapshot \in Instance /\ items[n].kind \in {"completion", "waiver"}
  BY <1>1 DEF Item, Accounted
<1>3. CASE items[n].kind = "completion"
  <2>1. row' = _restore_from_snapshot(items[n].snapshot)
    BY <1>1, <1>3 DEF send_back
  <2>2. QED  BY <1>1, <1>2, <1>3, <2>1, SnapshotIs DEF Accounted
<1>4. CASE items[n].kind = "waiver"
  <2>1. row' = RestoredWaiver(items[n].snapshot) /\ row.status = "waived"
    BY <1>1, <1>4 DEF send_back, Reverts
  <2>2. QED  BY <1>1, <1>2, <1>4, <2>1, WaiverIs DEF Accounted
<1>5. QED  BY <1>2, <1>3, <1>4

(***************************************************************************)
(* When every entry is reviewed as the row itself, a send-back changes the *)
(* row only while it shows the very entry sent back.                       *)
(***************************************************************************)
THEOREM SendBackUndoesItsOwnAlways ==
    ASSUME AllReviewed PROVE WSpec => SendBackUndoesItsOwn
<1>1. ScopedInv /\ [WNext]_wvars => ScopedInv'
  BY ScopedNext
<1>2. ScopedInv /\ [WNext]_wvars =>
        [\A n \in DOMAIN items :
           items[n].status = "pending" /\ items'[n].status = "sent_back" /\ row' # row
              => owner = n]_wvars
  BY StatusMoves, SendBackIs DEF ScopedInv, ReviewInv
<1>3. QED  BY <1>1, <1>2, ScopedInit, PTL DEF WSpec, SendBackUndoesItsOwn

(***************************************************************************)
(* And it puts back the dates there were before that entry, whether it was *)
(* a completion, whose dates it overwrote, or a waiver, whose deadline it  *)
(* cleared.                                                                *)
(***************************************************************************)
THEOREM SendBackRestoresDatesAlways ==
    ASSUME AllReviewed PROVE WSpec => SendBackRestoresDates
<1>1. ScopedInv /\ [WNext]_wvars => ScopedInv'
  BY ScopedNext
<1>2. ScopedInv /\ [WNext]_wvars =>
        [\A n \in DOMAIN items :
           items[n].status = "pending" /\ items'[n].status = "sent_back" /\ row' # row
              => /\ row'.completed = items[n].rowBefore.completed
                 /\ row'.expires = items[n].rowBefore.expires
                 /\ row'.due = items[n].rowBefore.due]_wvars
  BY StatusMoves, SendBackIs DEF ScopedInv, ReviewInv
<1>3. QED  BY <1>1, <1>2, ScopedInit, PTL DEF WSpec, SendBackRestoresDates
===============================================================================
