------------------------------ MODULE Reminders ------------------------------
(***************************************************************************)
(* The reminder pass of one church: what the nightly sweep finds owed, the *)
(* row that claims each reminder, and the one digest that carries them     *)
(* (src/apps/notifications/services.py and models.py, driven by            *)
(* src/apps/core/tasks.py), over the requirement list of one volunteer.    *)
(*                                                                         *)
(* A worker's pass is several transactions: the list is brought up to date *)
(* and read once, every reminder is claimed on its own, the digest is      *)
(* logged, handed to the provider, and its outcome saved. Two passes may   *)
(* overlap (a second beat, a manual re-run, a redelivered task), and a     *)
(* pass may die anywhere. RequirementEngine has the interleavings inside   *)
(* the first part.                                                         *)
(***************************************************************************)
EXTENDS Requirements, FiniteSets

CONSTANTS
    Worker,              \* sweeps that may be under way at once
    LeadDays,            \* Tenant.lead_days
    AdultFrom,           \* the volunteer's 18th-birthday date
    Recorded,            \* the definitions whose work is recorded here
    Changing,            \* the roles that come and go; the others are held throughout
    Replayed,            \* dates an operator replays the sweep for
    Backlog,             \* what pending_summary may say: TRUE when an entry is stale
    Horizon,             \* bound: the last date the clock reaches
    MaxDigests,          \* bound: rows of the email log
    MaxMoves             \* bound: changes the office makes

ASSUME RemindersAssumption ==
    /\ IsFiniteSet(Worker)
    /\ LeadDays \subseteq Nat \ {0}
    /\ AdultFrom \in Nat
    /\ Recorded \subseteq Definition
    /\ Changing \subseteq Role /\ Changing # Role
    /\ Replayed \subseteq Date
    /\ Backlog \subseteq BOOLEAN
    /\ Horizon \in Date
    /\ MaxDigests \in Nat
    /\ MaxMoves \in Nat

VARIABLES
    inst,                \* the volunteer's requirement rows
    roles,               \* roles of the active assignments
    serving,             \* Volunteer.is_active
    today,
    claims,              \* ReminderLog rows
    worker,              \* the sweeps; lapsed is a ghost: what ran out, when it read the rows
    emails,              \* EmailLog rows, oldest first
    outbox,              \* ghost: the entries of each message the provider took
    moves                \* how many moves have been spent

rvars == <<inst, roles, serving, today, claims, worker, emails, outbox, moves>>

person == <<roles, serving, moves>>
post == <<emails, outbox>>

Entry == [instance : Definition, kind : {"lead_time", "overdue", "turning_18"},
          lead : Nat, date : Date]

\* One row per (instance, kind, lead_days, expiry_at_send), and when it was raised.
Claim == [entry : Entry, raised : Date]

Idle == [phase |-> "idle", asOf |-> NoDate, todo |-> {}, claimed |-> {}, email |-> 0,
         lapsed |-> {}]

ctx == [roles |-> roles, adultFrom |-> AdultFrom, active |-> Definition, gated |-> Gateable]

\* roles is what the volunteer carries when the list is first derived.
RInit ==
    /\ roles = Role
    /\ serving = TRUE
    /\ today = 1
    /\ inst = sync_volunteer_requirements([d \in Definition |-> Absent], ctx, today)
    /\ claims = {}
    /\ worker = [w \in Worker |-> Idle]
    /\ emails = <<>>
    /\ outbox = <<>>
    /\ moves = 0

-----------------------------------------------------------------------------
(* Choosing what to remind about.                                            *)

\* Mutant: only the renewal clock counts, and a null key is never a duplicate.
effective_due_date_renewal(i) == i.expires

effective_due_date(i) ==
    CASE i.expires = NoDate -> i.due
      [] i.due = NoDate -> i.expires
      [] OTHER -> IF i.due < i.expires THEN i.due ELSE i.expires

\* due_reason starts with "Turned 18": the deadline came from _activate.
TurnedEighteen(d, i) == d \in Crc \cap AdultsOnly /\ i.due # NoDate

Chased(i) == i.status \notin {"absent", "not_applicable", "waived"}

\* Whether row i has a date that falls n days after asOf.
Nears(i, n, asOf) ==
    \/ i.status = "complete" /\ i.expires = asOf + n
    \/ i.status \in {"not_started", "in_progress"} /\ i.due = asOf + n

approaching(rows, asOf) ==
    UNION {{[instance |-> d,
             kind |-> IF TurnedEighteen(d, rows[d]) THEN "turning_18" ELSE "lead_time",
             lead |-> n, date |-> effective_due_date(rows[d])] :
                d \in {d \in Definition : Nears(rows[d], n, asOf)}} : n \in LeadDays}

\* Mutant: the notice is looked for on the deadline itself.
newly_overdue_a_day_early(rows, asOf) ==
    {[instance |-> d, kind |-> "overdue", lead |-> 0, date |-> effective_due_date(rows[d])] :
        d \in {d \in Definition :
            /\ Chased(rows[d])
            /\ asOf \in {rows[d].expires, rows[d].due}
            /\ ~(rows[d].status = "complete" /\ rows[d].expires >= asOf)}}

newly_overdue(rows, asOf) ==
    {[instance |-> d, kind |-> "overdue", lead |-> 0, date |-> effective_due_date(rows[d])] :
        d \in {d \in Definition :
            /\ Chased(rows[d])
            /\ asOf > 1 /\ asOf - 1 \in {rows[d].expires, rows[d].due}
            /\ ~(rows[d].status = "complete" /\ rows[d].expires >= asOf)}}

\* Rows whose deadline, the date that governs, went by yesterday.
RanOut(rows, asOf) ==
    {d \in Definition :
        /\ serving /\ asOf > 1
        /\ Chased(rows[d])
        /\ rows[d].status # "complete"
        /\ effective_due_date(rows[d]) = asOf - 1}

find_due_reminders(rows, asOf) ==
    IF serving THEN approaching(rows, asOf) \cup newly_overdue(rows, asOf) ELSE {}

-----------------------------------------------------------------------------
(* One pass.                                                                 *)

Set(w, state) == worker' = [worker EXCEPT ![w] = state]

\* sweep_tenant up to the reminders: sync, turning-18 activation, recompute, and
\* the one read of what is owed. `asOf' is today, or an earlier date replayed.
sweep_tenant(w, asOf) ==
    /\ worker[w].phase = "idle"
    /\ asOf <= today
    /\ inst' = IF serving
               THEN LET rows == activate_turning_18_checks(
                                    sync_volunteer_requirements(inst, ctx, asOf), ctx, asOf)
                    IN  [d \in Definition |-> recompute(rows[d], asOf)]
               ELSE inst
    /\ Set(w, [Idle EXCEPT !.phase = "claiming", !.asOf = asOf,
                           !.todo = find_due_reminders(inst', asOf),
                           !.lapsed = RanOut(inst', asOf)])
    /\ UNCHANGED <<person, today, claims, post>>

\* Whether the unique index already has the reminder.
Raised(entry) == \E c \in claims : c.entry = entry

\* Mutant: the constraint is left to a look at the log when the pass began.
claim_blindly(w, entry) ==
    /\ claims' = claims \cup {[entry |-> entry, raised |-> today]}
    /\ Set(w, [worker[w] EXCEPT !.todo = @ \ {entry}, !.claimed = @ \cup {entry}])

ClaimEntry(w, entry) ==
    IF Raised(entry)
    THEN claims' = claims /\ Set(w, [worker[w] EXCEPT !.todo = @ \ {entry}])
    ELSE /\ claims' = claims \cup {[entry |-> entry, raised |-> today]}
         /\ Set(w, [worker[w] EXCEPT !.todo = @ \ {entry}, !.claimed = @ \cup {entry}])

raise_reminder(w, entry) ==
    /\ worker[w].phase = "claiming"
    /\ entry \in worker[w].todo
    /\ ClaimEntry(w, entry)
    /\ UNCHANGED <<inst, person, today, post>>

\* send_digest returns None: nothing newly claimed and no stale backlog,
\* notifications_enabled off, or no address in admin_recipients. The last three are
\* other components' state, read here once: each is either way. What was claimed
\* stays claimed.
send_nothing(w, staleBacklog, enabled, reachable) ==
    /\ worker[w].phase = "claiming" /\ worker[w].todo = {}
    /\ (worker[w].claimed # {} \/ staleBacklog) => ~(enabled /\ reachable)
    /\ Set(w, Idle)
    /\ UNCHANGED <<inst, person, today, claims, post>>

Mailing(w, n) ==
    Set(w, [Idle EXCEPT !.phase = "mailing", !.claimed = worker[w].claimed, !.email = n])

QueueRow(w) == [items |-> worker[w].claimed, status |-> "queued"]

\* Mutant: nothing is logged until the provider has answered.
queue_later(w) ==
    /\ Len(emails) < MaxDigests
    /\ emails' = emails
    /\ Mailing(w, Len(emails))

queue_digest(w) ==
    /\ Len(emails) < MaxDigests
    /\ emails' = Append(emails, QueueRow(w))
    /\ Mailing(w, Len(emails) + 1)

send_digest(w, staleBacklog) ==
    /\ worker[w].phase = "claiming" /\ worker[w].todo = {}
    /\ worker[w].claimed # {} \/ staleBacklog
    /\ queue_digest(w)
    /\ UNCHANGED <<inst, person, today, claims, outbox>>

provider_send(w) ==
    /\ worker[w].phase = "mailing"
    /\ outbox' = Append(outbox, worker[w].claimed)
    /\ Set(w, [worker[w] EXCEPT !.phase = "sent"])
    /\ UNCHANGED <<inst, person, today, claims, emails>>

Outcome(w, status) == emails' = [emails EXCEPT ![worker[w].email].status = status]

mark_sent(w) ==
    /\ worker[w].phase = "sent"
    /\ Outcome(w, "sent")
    /\ Set(w, Idle)
    /\ UNCHANGED <<inst, person, today, claims, outbox>>

\* The provider raises. A connection that breaks late has delivered all the same.
mark_failed(w, delivered) ==
    /\ worker[w].phase = "mailing"
    /\ outbox' = IF delivered THEN Append(outbox, worker[w].claimed) ELSE outbox
    /\ Outcome(w, "failed")
    /\ Set(w, Idle)
    /\ UNCHANGED <<inst, person, today, claims>>

\* The process dies, or the pass raises and sweep_all_tenants goes on.
Crash(w) ==
    /\ worker[w].phase # "idle"
    /\ Set(w, Idle)
    /\ UNCHANGED <<inst, person, today, claims, post>>

Pass ==
    \E w \in Worker :
        \/ \E asOf \in Replayed \cup {today} : sweep_tenant(w, asOf)
        \/ \E entry \in worker[w].todo : raise_reminder(w, entry)
        \/ \E stale \in Backlog : \/ send_digest(w, stale)
                                  \/ \E enabled, reachable \in BOOLEAN :
                                       send_nothing(w, stale, enabled, reachable)
        \/ \E delivered \in BOOLEAN : mark_failed(w, delivered)
        \/ provider_send(w) \/ mark_sent(w)
        \/ Crash(w)

-----------------------------------------------------------------------------
(* Meanwhile. What is recorded is RequirementEngine's, with the sync each    *)
(* request owes already run.                                                 *)

Move == moves < MaxMoves /\ moves' = moves + 1

Meanwhile == UNCHANGED <<today, claims, worker, post>>

mark_requirement_complete(d) ==
    /\ can_mark_complete(inst[d], d)
    /\ inst' = refresh_dependents([inst EXCEPT ![d] = mark_complete(@, d, today)],
                                  ctx, today, d)
    /\ Move /\ UNCHANGED <<roles, serving>> /\ Meanwhile

record_crc_cleared(d) ==
    /\ d \in Crc /\ inst[d].status # "absent"
    /\ inst' = refresh_dependents([inst EXCEPT ![d] = clear_crc(@, today)], ctx, today, d)
    /\ Move /\ UNCHANGED <<roles, serving>> /\ Meanwhile

\* assignment_create and assignment_end; the last assignment does not end here.
change_roles(r) ==
    /\ roles' = IF r \in roles THEN roles \ {r} ELSE roles \cup {r}
    /\ inst' = sync_volunteer_requirements(inst, [ctx EXCEPT !.roles = roles'], today)
    /\ Move /\ UNCHANGED serving /\ Meanwhile

volunteer_toggle_active ==
    /\ serving' = ~serving
    /\ Move /\ UNCHANGED <<inst, roles>> /\ Meanwhile

Tick ==
    /\ today < Horizon
    /\ today' = today + 1
    /\ UNCHANGED <<inst, person, claims, worker, post>>

Office ==
    \/ \E d \in Recorded : mark_requirement_complete(d) \/ record_crc_cleared(d)
    \/ \E r \in Changing : change_roles(r)
    \/ volunteer_toggle_active
    \/ Tick

RNext == Pass \/ Office

RSpec == RInit /\ [][RNext]_rvars

-----------------------------------------------------------------------------
(* Properties                                                                *)

\* Types; and every key has its date (the unique index lets null keys repeat).
RTypeOK ==
    /\ inst \in [Definition -> Instance]
    /\ roles \in SUBSET Role
    /\ serving \in BOOLEAN
    /\ today \in 1..Horizon
    /\ claims \subseteq [entry : Entry, raised : 1..Horizon]
    /\ \A w \in Worker :
         /\ worker[w].phase \in {"idle", "claiming", "mailing", "sent"}
         /\ worker[w].asOf \in 0..Horizon
         /\ worker[w].todo \subseteq Entry
         /\ worker[w].claimed \subseteq Entry
         /\ worker[w].email \in 0..Len(emails)
    /\ Len(emails) <= MaxDigests
    /\ moves \in 0..MaxMoves

\* ReminderLog's constraint: passes that overlap, are repeated, replayed or cut
\* short mail no administrator twice about the same reminder.
MailedAtMostOnce ==
    \A m, n \in DOMAIN outbox : m # n => outbox[m] \cap outbox[n] = {}

\* EmailLog: whatever the provider took is on record with all it covered, even if
\* the pass died before saving the outcome.
EverySendIsLogged ==
    \A m \in DOMAIN outbox : \E n \in DOMAIN emails : emails[n].items = outbox[m]

\* A notice about d was raised once the deadline `date' had passed.
RaisedAfter(d, date) ==
    \E c \in claims : c.entry.instance = d /\ c.entry.kind = "overdue" /\ c.raised > date

ClaimsDone(w) == worker[w].phase = "claiming" /\ worker[w].todo = {}

\* find_due_reminders and raise_reminder: a pass that has finished claiming leaves
\* no deadline that ran out the day before without its notice, in this cycle and
\* in the next, when the date that passed is the one the row is owed by.
DeadlineIsRaised ==
    \A w \in Worker : ClaimsDone(w) =>
        \A d \in worker[w].lapsed : RaisedAfter(d, worker[w].asOf - 1)
===============================================================================
