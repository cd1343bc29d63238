--------------------------- MODULE RequirementEngine ---------------------------
(***************************************************************************)
(* One volunteer's requirement list over time: administrators record work, *)
(* roles and configuration change, requests run the synchronisation that   *)
(* their commit hooks owe, and the nightly sweep goes over the list in     *)
(* three separate steps that requests may fall between or that may fail.   *)
(*                                                                         *)
(* Every service call is one transaction, hence one action.  A sync that   *)
(* runs after the commit (a post_save hook, or the view's own second call) *)
(* is owed: another request may come first, and it may be lost to an error *)
(* that _safe_sync swallows or to the process dying.                       *)
(***************************************************************************)
EXTENDS Requirements, FiniteSets

CONSTANTS
    Horizon,             \* bound: the last date the clock reaches
    BirthChoices,        \* the 18th-birthday dates an edit may record
    Editable,            \* bound: definitions whose configuration is edited
    Replayed,            \* bound: the dates gone by a sweep may be started for
    MaxOwed              \* bound: syncs owed at the same time

ASSUME EngineAssumption ==
    /\ Horizon \in Date
    /\ BirthChoices \subseteq Date
    /\ Editable \subseteq Definition
    /\ Replayed \subseteq Date
    /\ MaxOwed \in Nat \ {0}
    /\ IsFiniteSet(Role)

VARIABLES
    inst,                \* the volunteer's requirement rows
    roles,               \* roles of the active assignments
    adultFrom,           \* 18th-birthday date, NoDate when birth is unknown
    serving,             \* Volunteer.is_active
    active,              \* definitions with is_active
    gated,               \* definitions in GATE mode
    today,               \* timezone.localdate()
    owed,                \* syncs still to run after a commit
    sweep,               \* the nightly job: its phase and the date it works for
    stale                \* the list awaits a sync: a sync was lost, or the
                         \* configuration changed and nothing re-derives it

vars == <<inst, roles, adultFrom, serving, active, gated, today, owed, sweep, stale>>

config == <<active, gated>>
person == <<roles, adultFrom, serving>>

ctx == [roles |-> roles, adultFrom |-> adultFrom, active |-> active, gated |-> gated]

\* volunteer_create: a new volunteer has a starting role, and their list is
\* derived inside the same transaction; the assignment's hook is still owed.
Init ==
    /\ roles \in {{r} : r \in Role}
    /\ adultFrom \in BirthChoices \cup {NoDate}
    /\ serving = TRUE
    /\ active = Definition
    /\ gated = Gateable
    /\ today = 1
    /\ inst = sync_volunteer_requirements([d \in Definition |-> Absent], ctx, today)
    /\ owed = 1
    /\ sweep = [phase |-> "idle", asOf |-> NoDate]
    /\ stale = FALSE

-----------------------------------------------------------------------------
(* What an administrator records.                                            *)

Write(d, i) == inst' = refresh_dependents([inst EXCEPT ![d] = i], ctx, today, d)

Owe(n) == owed + n <= MaxOwed /\ owed' = owed + n

mark_requirement_complete(d, date) ==
    /\ can_mark_complete(inst[d], d)
    /\ date <= today
    /\ Write(d, mark_complete(inst[d], d, date))
    /\ UNCHANGED <<person, config, today, owed, sweep, stale>>

start_requirement(d) ==
    /\ inst[d].status \in {"not_started", "overdue"}
    /\ inst' = [inst EXCEPT ![d] = start(@)]
    /\ UNCHANGED <<person, config, today, owed, sweep, stale>>

waive_requirement(d) ==
    /\ d \notin Crc
    /\ inst[d].status # "absent"
    /\ Write(d, waive(inst[d]))
    /\ UNCHANGED <<person, config, today, owed, sweep, stale>>

\* The row is back in play, but the list is re-derived only if a gate follows it:
\* otherwise its own gate is not looked at before the next sync.
reverse_waiver(d) ==
    /\ inst[d].status = "waived"
    /\ Write(d, unwaive(inst[d], today))
    /\ stale' = (stale \/ ~has_dependents(ctx, d))
    /\ UNCHANGED <<person, config, today, owed, sweep>>

\* crc_instance_for: the first active criminal record check the volunteer has.
IsCrcInstance(d) ==
    /\ d \in Crc \cap active
    /\ inst[d].status # "absent"
    /\ \E k \in 1..Len(Order) :
         /\ Order[k] = d
         /\ \A j \in 1..(k-1) :
              Order[j] \in Crc \cap active => inst[Order[j]].status = "absent"

\* Lifting a Not Clear block saves the volunteer, whose hook is then owed.
record_crc_cleared(d, date) ==
    /\ IsCrcInstance(d)
    /\ date <= today
    /\ Write(d, clear_crc(inst[d], date))
    /\ \E lifted \in 0..1 : Owe(lifted)
    /\ UNCHANGED <<person, config, today, sweep, stale>>

record_crc_not_clear(d) ==
    /\ IsCrcInstance(d)
    /\ Write(d, block_crc(inst[d]))
    /\ Owe(1)
    /\ UNCHANGED <<person, config, today, sweep, stale>>

-----------------------------------------------------------------------------
(* Roles, the volunteer's own record, and the syncs these changes owe.       *)

\* The save's hook and then the view's own call each run the sync.
assignment_create(r) ==
    /\ r \notin roles
    /\ roles' = roles \cup {r}
    /\ Owe(2)
    /\ UNCHANGED <<inst, adultFrom, serving, config, today, sweep, stale>>

\* The last assignment to end takes the volunteer out of service.  The sync is
\* inside the transaction; the hooks of the rows it saved run after it.
assignment_end(r) ==
    /\ r \in roles
    /\ roles' = roles \ {r}
    /\ serving' = (serving /\ roles' # {})
    /\ inst' = sync_volunteer_requirements(inst, [ctx EXCEPT !.roles = roles'], today)
    /\ Owe(IF serving' = serving THEN 1 ELSE 2)
    /\ UNCHANGED <<adultFrom, config, today, sweep, stale>>

volunteer_edit(b) ==
    /\ adultFrom' = b
    /\ Owe(1)
    /\ UNCHANGED <<inst, roles, serving, config, today, sweep, stale>>

volunteer_deactivate(endAssignments) ==
    /\ serving
    /\ serving' = FALSE
    /\ roles' = IF endAssignments THEN {} ELSE roles
    /\ Owe(1 + Cardinality(roles \ roles'))
    /\ UNCHANGED <<inst, adultFrom, config, today, sweep, stale>>

volunteer_reactivate ==
    /\ serving' = TRUE
    /\ Owe(1)
    /\ UNCHANGED <<inst, roles, adultFrom, config, today, sweep, stale>>

Sync(asOf) == inst' = sync_volunteer_requirements(inst, ctx, asOf)

_safe_sync ==
    /\ owed > 0
    /\ owed' = owed - 1
    /\ stale' = FALSE
    /\ Sync(today)
    /\ UNCHANGED <<person, config, today, sweep>>

LoseSync ==
    /\ owed > 0
    /\ owed' = owed - 1
    /\ stale' = TRUE
    /\ UNCHANGED <<inst, person, config, today, sweep>>

volunteer_resync ==
    /\ stale' = FALSE
    /\ UNCHANGED <<person, config, today, owed, sweep>>
    /\ Sync(today)

-----------------------------------------------------------------------------
(* The church's configuration. Nothing re-derives the lists it affects.      *)

definition_toggle_active(d) ==
    /\ active' = IF d \in active THEN active \ {d} ELSE active \cup {d}
    /\ stale' = TRUE
    /\ UNCHANGED <<inst, person, gated, today, owed, sweep>>

\* An edit of dependency_mode.
definition_edit(d) ==
    /\ d \in Gateable
    /\ gated' = IF d \in gated THEN gated \ {d} ELSE gated \cup {d}
    /\ stale' = TRUE
    /\ UNCHANGED <<inst, person, active, today, owed, sweep>>

-----------------------------------------------------------------------------
(* The sweep of one church. The date it works for is fixed before it gets    *)
(* here; only volunteers in service are visited.                             *)

SweepSync(asOf) ==
    /\ sweep.phase = "idle"
    /\ sweep' = [phase |-> "synced", asOf |-> asOf]
    /\ IF serving THEN Sync(asOf) /\ stale' = FALSE ELSE UNCHANGED <<inst, stale>>
    /\ UNCHANGED <<person, config, today, owed>>

nightly_sweep == SweepSync(today)

\* Replayed by hand for as_of_iso, or the nightly fan-out reaching this church after
\* midnight or delivered again.
sweep_replayed == \E asOf \in Replayed : asOf <= today /\ SweepSync(asOf)

SweepActivate ==
    /\ sweep.phase = "synced"
    /\ sweep' = [sweep EXCEPT !.phase = "activated"]
    /\ inst' = IF serving THEN activate_turning_18_checks(inst, ctx, sweep.asOf) ELSE inst
    /\ UNCHANGED <<person, config, today, owed, stale>>

recompute_all_statuses ==
    /\ sweep.phase = "activated"
    /\ sweep' = [phase |-> "idle", asOf |-> NoDate]
    /\ inst' = IF serving THEN [d \in Definition |-> recompute(inst[d], sweep.asOf)] ELSE inst
    /\ UNCHANGED <<person, config, today, owed, stale>>

\* One church's sweep raises; the next run starts again.
SweepFails ==
    /\ sweep.phase # "idle"
    /\ sweep' = [phase |-> "idle", asOf |-> NoDate]
    /\ UNCHANGED <<inst, person, config, today, owed, stale>>

Tick ==
    /\ today < Horizon
    /\ today' = today + 1
    /\ UNCHANGED <<inst, person, config, owed, sweep, stale>>

-----------------------------------------------------------------------------
Record ==
    \E d \in Definition :
        \/ \E date \in 1..Horizon : mark_requirement_complete(d, date)
        \/ start_requirement(d)
        \/ waive_requirement(d)
        \/ reverse_waiver(d)
        \/ \E date \in 1..Horizon : record_crc_cleared(d, date)
        \/ record_crc_not_clear(d)

ChangePerson ==
    \/ \E r \in Role : assignment_create(r) \/ assignment_end(r)
    \/ \E b \in BirthChoices : volunteer_edit(b)
    \/ \E e \in BOOLEAN : volunteer_deactivate(e)
    \/ volunteer_reactivate

ChangeConfig ==
    \E d \in Editable : definition_toggle_active(d) \/ definition_edit(d)

RunSync == _safe_sync \/ LoseSync \/ volunteer_resync

\* A sweep in progress goes on, or ends.
SweepGoesOn == SweepActivate \/ recompute_all_statuses \/ SweepFails

Sweep == nightly_sweep \/ sweep_replayed \/ SweepGoesOn

Next == Record \/ ChangePerson \/ ChangeConfig \/ RunSync \/ Sweep \/ Tick

Spec == Init /\ [][Next]_vars

(* The nightly job is started every night (Celery beat), whatever is replayed  *)
(* meanwhile, and every sweep ends. A run may fail, but not every night's      *)
(* does: the later phases of those that work for today are strongly fair.     *)
FairSpec ==
    /\ Spec
    /\ WF_vars(SweepGoesOn)
    /\ SF_vars(nightly_sweep)
    /\ SF_vars(SweepActivate /\ sweep.asOf = today)
    /\ SF_vars(recompute_all_statuses /\ sweep.asOf = today)

-----------------------------------------------------------------------------
(* Properties                                                                *)

\* The rows, the volunteer and the job stay within their types.
TypeOK ==
    /\ inst \in [Definition -> Instance]
    /\ roles \in SUBSET Role
    /\ adultFrom \in Nat
    /\ serving \in BOOLEAN
    /\ active \in SUBSET Definition
    /\ gated \in SUBSET Gateable
    /\ today \in 1..Horizon
    /\ owed \in 0..MaxOwed
    /\ sweep \in [phase : {"idle", "synced", "activated"}, asOf : 0..Horizon]
    /\ stale \in BOOLEAN

\* Nothing invents a completion (RequirementInstance.recompute): a row that reads
\* complete has a completion date, not in the future, and renews only after it.
CompletionIsReal ==
    \A d \in Definition :
        inst[d].status = "complete" =>
            /\ inst[d].completed \in 1..today
            /\ inst[d].expires # NoDate => inst[d].expires > inst[d].completed

\* A completion that has not expired counts: whatever roles, ages, gates, waivers
\* and sweeps do, its row reads complete or waived, never owed or parked.
CurrentCompletionCounts ==
    \A d \in Definition :
        inst[d].completed # NoDate /\ ~Past(inst[d].expires, today) =>
            inst[d].status \in {"complete", "waived"}

\* d reads complete although its renewal date has passed.
Outlived(d) == inst[d].status = "complete" /\ Past(inst[d].expires, today)

\* mark_complete, waive_requirement and _hold_not_applicable all drop the one-off
\* deadline, so a row with nothing owed carries none into the reminders. The one
\* exception is a completion that has run out: a lapsed row may be given a new
\* deadline, and a sweep for a date before the lapse (recompute) turns it back to
\* complete with that deadline on it, until the next night.
SettledRowHasNoDeadline ==
    \A d \in Definition :
        inst[d].status \in satisfied_values /\ ~Outlived(d) => inst[d].due = NoDate

\* A row shows waiver details exactly while it is waived (instance_complete,
\* reverse_waiver): never a completed row still carrying someone's waiver.
WaiverShownIffWaived ==
    \A d \in Definition : inst[d].waived <=> inst[d].status = "waived"

\* The church numbers each prerequisite before what waits for it. Nothing enforces
\* that (RequirementDefinition.sequence), and a list in another order takes a second
\* pass to settle.
PrerequisitesFirst ==
    \A j, k \in 1..Len(Order) : MustFollow[Order[j]] = Order[k] => k < j

\* d is owed although the step it waits for has never been done.
GateLeaks(d) ==
    /\ d \in active
    /\ inst[d].status \in outstanding_values
    /\ inst[d].completed = NoDate
    /\ unmet_prerequisite(inst, ctx, d)

\* refresh_dependents is called by every write that can close a gate: once the
\* owed syncs have run, and short of a configuration edit or a reversed waiver on
\* the gated row itself, no gated requirement is owed ahead of its prerequisite,
\* provided that the church numbers prerequisites first.
GateHolds == owed = 0 /\ ~stale => \A d \in Definition : ~GateLeaks(d)

\* Completed history is kept (sync_volunteer_requirements): whatever roles, ages,
\* gates and sweeps do, a completion date goes only when a Not Clear check is
\* recorded against that very row. (A reviewer's send-back is module Review's.)
HistoryKept ==
    [][\A d \in Definition :
          inst[d].completed # NoDate /\ inst'[d].completed = NoDate
              => record_crc_not_clear(d)]_vars

\* A waiver is a recorded decision: only its reversal takes it away.
DecisionsStand ==
    [][\A d \in Definition :
          inst[d].status = "waived" /\ inst'[d].status # "waived"
              => reverse_waiver(d)]_vars

\* Nobody in service may be left with it.
Lapsed(d) == serving /\ Outlived(d)

\* Lapsed requirements are found (recompute_all_statuses): however many runs fail
\* half way, and whatever replays for an earlier date have hidden, a night comes that
\* leaves none.
LapseIsSeen == (\E d \in Definition : Lapsed(d)) ~> (\A d \in Definition : ~Lapsed(d))

\* A sync would change nothing.
Settled == serving => sync_volunteer_requirements(inst, ctx, today) = inst

\* Gates and lost syncs heal by themselves (unmet_prerequisite, _safe_sync): once
\* nobody edits or replays anything, the nights reach a list that no further pass
\* changes.
Converges == <>[][nightly_sweep \/ SweepGoesOn \/ Tick \/ RunSync]_vars => <>[]Settled
===============================================================================
