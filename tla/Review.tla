-------------------------------- MODULE Review --------------------------------
(***************************************************************************)
(* The review gate around one requirement row: a department administrator's *)
(* completion, waiver or document opens an item that somebody with access   *)
(* to the whole church affirms or sends back; sending back restores what    *)
(* the item's snapshot remembers.                                           *)
(*                                                                          *)
(* A completion and a waiver are reviewed as the row itself, so a new entry *)
(* supersedes the pending one; every document is a row of its own.  A       *)
(* decision takes `open', what the reviewer's copy of the item says about   *)
(* being pending; in this module that is what the database says.            *)
(***************************************************************************)
EXTENDS Requirements

CONSTANTS
    It,                  \* the requirement: not a check, not gated
    Dues,                \* deadlines the row may start with
    LastDay,             \* bound: where the clock stops
    MaxItems,            \* bound: review items opened
    RecorderIsScoped,    \* which recorders there are: TRUE needs review
    Kinds                \* what they record

ASSUME ReviewAssumption ==
    /\ It \in Definition \ (Crc \cup Gateable)
    /\ Dues \in SUBSET Nat
    /\ LastDay \in Date
    /\ MaxItems \in Nat
    /\ RecorderIsScoped \in SUBSET BOOLEAN
    /\ Kinds \in SUBSET {"completion", "waiver", "document"}

VARIABLES
    row,                 \* the RequirementInstance
    items,               \* ReviewItem rows, oldest first
    day,                 \* today
    owner,               \* ghost: whose entry the row shows, an item or 0
    carries              \* whether some role of the volunteer requires it

wvars == <<row, items, day, owner, carries>>

Item ==
    [kind : {"completion", "waiver", "document"},
     status : {"pending", "affirmed", "sent_back", "superseded"},
     affects : BOOLEAN,                   \* affected_entity names the row
     snapshot : Instance,                 \* before_state
     rowBefore : Instance,                \* ghost: the row as it was before the entry
     over : Nat]                          \* ghost: whose entry the snapshot shows

WInit ==
    /\ row \in {[Blank EXCEPT !.due = due] : due \in Dues}
    /\ items = <<>>
    /\ day = 1
    /\ owner = 0
    /\ carries = TRUE

Pending == {n \in DOMAIN items : items[n].status = "pending"}

\* Items on the row itself: what a new entry on the row supersedes.
OnRow == {n \in Pending : items[n].kind # "document"}

\* What is put in the queue. A document's snapshot shows nobody's entry.
EntryOf(kind, affects, snapshot) ==
    [kind |-> kind, status |-> "pending", affects |-> affects, snapshot |-> snapshot,
     rowBefore |-> row, over |-> IF kind = "document" THEN 0 ELSE owner]

\* Mutant: the pending item stays open beside the new one.
open_beside(scoped, kind, affects, snapshot) ==
    /\ scoped => Len(items) < MaxItems
    /\ items' = IF scoped
                THEN Append(items, EntryOf(kind, affects, snapshot)) ELSE items

\* Mutant: the supersede runs last and closes the new item with the old one.
open_then_supersede(scoped, kind, affects, snapshot) ==
    LET opened == Append(items, EntryOf(kind, affects, snapshot))
    IN  /\ scoped => Len(items) < MaxItems
        /\ items' = IF scoped
                    THEN [n \in DOMAIN opened |-> [opened[n] EXCEPT !.status =
                            IF OnRow # {} /\ @ = "pending" THEN "superseded" ELSE @]]
                    ELSE items

open_if_unverified(scoped, kind, affects, snapshot) ==
    LET closed == [n \in DOMAIN items |->
                     IF kind # "document" /\ n \in OnRow
                     THEN [items[n] EXCEPT !.status = "superseded"] ELSE items[n]]
    IN  /\ scoped => Len(items) < MaxItems
        /\ items' = IF scoped THEN Append(closed, EntryOf(kind, affects, snapshot)) ELSE items

OwnedBy(scoped) == owner' = IF scoped THEN Len(items) + 1 ELSE 0

mark_requirement_complete(scoped, date) ==
    /\ "completion" \in Kinds
    /\ can_mark_complete(row, It)
    /\ date <= day
    /\ row' = mark_complete(row, It, date)
    /\ open_if_unverified(scoped, "completion", TRUE, row)
    /\ OwnedBy(scoped)
    /\ UNCHANGED <<day, carries>>

waive_requirement(scoped) ==
    /\ "waiver" \in Kinds
    /\ row' = waive(row)
    /\ open_if_unverified(scoped, "waiver", TRUE, row)
    /\ OwnedBy(scoped)
    /\ UNCHANGED <<day, carries>>

reverse_waiver ==
    /\ row.status = "waived"
    /\ row' = unwaive(row, day)
    /\ owner' = IF owner = 0 THEN 0 ELSE items[owner].over
    /\ UNCHANGED <<items, day, carries>>

\* The snapshot of a document item holds {"is_current": True} and no dates.
store_document(scoped, date) ==
    /\ "document" \in Kinds
    /\ LET completes == can_mark_complete(row, It) /\ date <= day
       IN  /\ row' = IF completes THEN mark_complete(row, It, date) ELSE row
           /\ open_if_unverified(scoped, "document", completes, Blank)
           /\ IF completes THEN OwnedBy(scoped) ELSE UNCHANGED owner
    /\ UNCHANGED <<day, carries>>

start_requirement ==
    /\ row.status \in {"not_started", "overdue"}
    /\ row' = start(row)
    /\ UNCHANGED <<items, day, owner, carries>>

-----------------------------------------------------------------------------
(* What moves the row on while an entry waits for its review.                *)

\* Roles come and go, and the sync parks or revives the row.
Resync ==
    /\ carries' \in BOOLEAN
    /\ row' = CASE ~carries' /\ row.status \in outstanding_values -> _hold_not_applicable(row)
                [] carries' /\ row.status = "not_applicable" ->
                       [row EXCEPT !.status = "not_started"]
                [] OTHER -> row
    /\ UNCHANGED <<items, day, owner>>

NightlyRecompute ==
    /\ row' = recompute(row, day)
    /\ UNCHANGED <<items, day, owner, carries>>

Tick ==
    /\ day < LastDay
    /\ day' = day + 1
    /\ UNCHANGED <<row, items, owner, carries>>

-----------------------------------------------------------------------------
(* The reviewer's decision.                                                  *)

Close(n, status) == items' = [items EXCEPT ![n].status = status]

affirm(n, open) ==
    /\ open
    /\ Close(n, "affirmed")
    /\ UNCHANGED <<row, day, owner, carries>>

\* Mutant: no staleness check.
reverts_always(n) == items[n].affects

\* Each kind decides for itself whether the record has moved on. A completion
\* must still read complete, a waiver still be waived; a document does not ask.
Reverts(n) ==
    CASE items[n].kind = "completion" -> row.status = "complete"
      [] items[n].kind = "waiver"     -> row.status = "waived"
      [] items[n].kind = "document"   -> items[n].affects

\* Mutant: the deadline is not put back.
restore_without_deadline(s) ==
    LET dated == [row EXCEPT !.completed = s.completed, !.expires = s.expires,
                             !.started = s.started \/ @]
    IN  recompute([dated EXCEPT !.status = _status_after_reversal(dated)], day)

_restore_from_snapshot(s) ==
    LET dated == [row EXCEPT !.completed = s.completed, !.expires = s.expires,
                             !.due = s.due, !.started = s.started \/ @]
    IN  recompute([dated EXCEPT !.status = _status_after_reversal(dated)], day)

\* reverse_waiver with restore_due.
RestoredWaiver(s) == unwaive([row EXCEPT !.due = s.due], day)

send_back(n, open) ==
    /\ open
    /\ Close(n, "sent_back")
    /\ IF Reverts(n)
       THEN /\ row' = IF items[n].kind = "waiver" THEN RestoredWaiver(items[n].snapshot)
                      ELSE _restore_from_snapshot(items[n].snapshot)
            /\ owner' = items[n].over
       ELSE UNCHANGED <<row, owner>>
    /\ UNCHANGED <<day, carries>>

Decide(n, open) == affirm(n, open) \/ send_back(n, open)

-----------------------------------------------------------------------------
Enter ==
    \/ \E scoped \in RecorderIsScoped :
          \/ \E date \in 1..LastDay : mark_requirement_complete(scoped, date)
          \/ waive_requirement(scoped)
          \/ \E date \in 1..LastDay : store_document(scoped, date)
    \/ reverse_waiver
    \/ start_requirement

Elapse == Resync \/ NightlyRecompute \/ Tick

WNext ==
    \/ Enter
    \/ Elapse
    \/ \E n \in DOMAIN items : Decide(n, items[n].status = "pending")

WSpec == WInit /\ [][WNext]_wvars

-----------------------------------------------------------------------------
(* Properties                                                                *)

WTypeOK ==
    /\ row \in Instance
    /\ items \in Seq(Item)
    /\ day \in 1..LastDay
    /\ owner \in 0..MaxItems
    /\ carries \in BOOLEAN

\* The row shows a department administrator's entry that was superseded: nobody
\* looked at it, and nobody is going to.
Uncovered == owner # 0 /\ items[owner].status = "superseded"

\* Superseding an entry goes together with replacing it on the row: what is recorded,
\* by whomever, never leaves the row with an entry that has dropped out of the queue.
\* Only undoing the replacement does, a send-back or the reversal of a waiver.
OnlyUndoingUncovers ==
    [][Uncovered' => \/ Uncovered
                     \/ row.status = "waived" /\ row'.status # "waived"
                     \/ \E n \in DOMAIN items :
                           items[n].status = "pending" /\ items'[n].status = "sent_back"]_wvars

\* "At most one open item per reviewed row."
OneOpenItem == \A m, n \in OnRow : m = n

\* A send-back never rolls back "state the rejected entry no longer owns": if it
\* changes the row, the row was showing that very entry.
SendBackUndoesItsOwn ==
    [][\A n \in DOMAIN items :
          items[n].status = "pending" /\ items'[n].status = "sent_back" /\ row' # row
              => owner = n]_wvars

\* A send-back that reverts puts back the dates there were before the entry:
\* neither an earlier completion nor a deadline is lost with the rejected one.
SendBackRestoresDates ==
    [][\A n \in DOMAIN items :
          items[n].status = "pending" /\ items'[n].status = "sent_back" /\ row' # row
              => /\ row'.completed = items[n].rowBefore.completed
                 /\ row'.expires = items[n].rowBefore.expires
                 /\ row'.due = items[n].rowBefore.due]_wvars

\* "All three are terminal and there is no re-open."
ItemsAreTerminal ==
    [][\A n \in DOMAIN items :
          items[n].status # "pending" => items'[n].status = items[n].status]_wvars
===============================================================================
