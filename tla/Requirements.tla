------------------------------ MODULE Requirements ------------------------------
(***************************************************************************)
(* The rules of the requirement engine, as pure operators: what one        *)
(* volunteer's requirement list becomes when it is synchronised, when the  *)
(* nightly job looks at it, and when an administrator records something.   *)
(*                                                                         *)
(* A list is a function `inst' from requirement definitions to instances   *)
(* (RequirementInstance rows); a definition with no row yet is "absent".   *)
(* Everything the rules read about the volunteer and about the church's    *)
(* configuration is gathered in a record `ctx':                            *)
(*                                                                         *)
(*   ctx.roles      roles of the volunteer's active assignments            *)
(*   ctx.adultFrom  the date they count as 18, NoDate if birth is unknown  *)
(*   ctx.active     the definitions with is_active set                     *)
(*   ctx.gated      the definitions whose must_follow is a GATE            *)
(*                                                                         *)
(* A date is a positive number of clock units and adding months adds       *)
(* units; NoDate is the null column.                                       *)
(***************************************************************************)
EXTENDS Integers, Sequences

CONSTANTS
    Definition,          \* the church's requirement definitions
    NoDefinition,        \* "no prerequisite": a null must_follow
    Order,               \* the definitions in (sequence, name) order
    Role,                \* ministry roles
    AppliesToRole,       \* AppliesToRole[d]: the roles d attaches to
    AdultsOnly,          \* definitions with age_rule ADULTS_ONLY
    Crc,                 \* definitions of type CRIMINAL_RECORD_CHECK
    MustFollow,          \* MustFollow[d]: prerequisite, or NoDefinition
    Interval,            \* renewal interval in months, 0 for one-time
    Offset,              \* due_months_after_prerequisite, 0 when null
    Turning18Months,     \* TURNING_18_CRC_DEADLINE_MONTHS
    CrcMonths            \* months a cleared check is good for

ASSUME RequirementsAssumption ==
    /\ NoDefinition \notin Definition
    /\ Order \in Seq(Definition)
    /\ \A d \in Definition : \E k \in 1..Len(Order) : Order[k] = d
    /\ AppliesToRole \in [Definition -> SUBSET Role]
    /\ AdultsOnly \subseteq Definition
    /\ Crc \subseteq Definition
    /\ MustFollow \in [Definition -> Definition \cup {NoDefinition}]
    /\ Interval \in [Definition -> Nat]
    /\ Offset \in [Definition -> Nat]
    /\ Turning18Months \in Nat
    /\ CrcMonths \in Nat \ {0}

NoDate == 0

Date == Nat \ {0}

\* The rows the church could mark as gated: GATE without must_follow is refused.
Gateable == {d \in Definition : MustFollow[d] # NoDefinition}

Status == {"not_started", "in_progress", "complete", "overdue",
           "not_applicable", "waived", "blocked"}

satisfied_values == {"complete", "not_applicable", "waived"}

outstanding_values == {"not_started", "in_progress", "overdue", "blocked"}

Instance ==
    [status    : Status \cup {"absent"},
     started   : BOOLEAN,              \* started_on is set
     completed : Nat,                  \* completed_on
     expires   : Nat,                  \* expires_on
     due       : Nat,                  \* due_on
     waived    : BOOLEAN]              \* waived_reason, waived_by, waived_on

Blank == [status |-> "not_started", started |-> FALSE, completed |-> NoDate,
          expires |-> NoDate, due |-> NoDate, waived |-> FALSE]

Absent == [Blank EXCEPT !.status = "absent"]

Context == [roles : SUBSET Role, adultFrom : Nat,
            active : SUBSET Definition, gated : SUBSET Gateable]

Past(date, asOf) == date # NoDate /\ date < asOf

expiry_for(d, date) == IF Interval[d] = 0 THEN NoDate ELSE date + Interval[d]

prerequisite_offset_months(d) == IF Offset[d] # 0 THEN Offset[d] ELSE Interval[d]

applies_to_volunteer(ctx, d) == AppliesToRole[d] \cap ctx.roles # {}

is_adult_on(ctx, asOf) == ctx.adultFrom # NoDate /\ ctx.adultFrom <= asOf

is_age_exempt(ctx, asOf, d) == d \in AdultsOnly /\ ~is_adult_on(ctx, asOf)

\* Whether d waits on its prerequisite. Everything fails open: only a live row
\* of an active prerequisite that was never completed, waived or ruled out holds.
unmet_prerequisite(inst, ctx, d) ==
    /\ d \in ctx.gated
    /\ MustFollow[d] \in ctx.active
    /\ LET prior == inst[MustFollow[d]]
       IN  /\ prior.status \notin {"absent", "waived"}
           /\ prior.completed = NoDate
           /\ prior.status = "not_applicable" => MustFollow[d] \in ctx.gated

_prerequisite_deadline(inst, d) ==
    LET prior == inst[MustFollow[d]]
    IN  IF prerequisite_offset_months(d) = 0 \/ prior.completed = NoDate
        THEN NoDate
        ELSE prior.completed + prerequisite_offset_months(d)

\* Mutant: parking a row throws its completion away.
hold_and_forget(i) ==
    [i EXCEPT !.status = "not_applicable", !.due = NoDate, !.completed = NoDate]

_hold_not_applicable(i) == [i EXCEPT !.status = "not_applicable", !.due = NoDate]

\* Turn a not-applicable requirement back on, with the deadline its clock gives.
_activate(inst, ctx, d) ==
    LET trigger18 == d \in Crc \cap AdultsOnly
        deadline  == IF trigger18
                     THEN IF ctx.adultFrom = NoDate THEN NoDate
                          ELSE ctx.adultFrom + Turning18Months
                     ELSE IF d \in ctx.gated THEN _prerequisite_deadline(inst, d)
                          ELSE NoDate
    IN  [inst[d] EXCEPT !.status = "not_started",
                        !.due = IF deadline = NoDate THEN @ ELSE deadline]

\* Keep a released gate's deadline in step with its prerequisite; the earlier of
\* two clocks governs.
_refresh_prerequisite_deadline(inst, d) ==
    LET deadline == _prerequisite_deadline(inst, d)
    IN  IF deadline = NoDate \/ Past(inst[d].due, deadline)
        THEN inst[d]
        ELSE [inst[d] EXCEPT !.due = deadline]

\* Mutant: without "still waiting on a prerequisite", a held row is switched on.
reconcile_without_waiting(inst, ctx, d, ageExempt, blocked) ==
    LET i == inst[d]
    IN  CASE (ageExempt \/ blocked) /\ i.status \in outstanding_values ->
                 _hold_not_applicable(i)
          [] ~ageExempt /\ i.status = "not_applicable" -> _activate(inst, ctx, d)
          [] OTHER -> i

_reconcile_existing(inst, ctx, d, ageExempt, blocked) ==
    LET i == inst[d]
    IN  CASE (ageExempt \/ blocked) /\ i.status \in outstanding_values ->
                 _hold_not_applicable(i)
          [] blocked /\ i.status \notin outstanding_values -> i
          [] ~ageExempt /\ ~blocked /\ i.status = "not_applicable" ->
                 _activate(inst, ctx, d)
          [] ~ageExempt /\ ~blocked /\ i.status \in outstanding_values
                 /\ d \in ctx.gated /\ i.completed = NoDate ->
                 _refresh_prerequisite_deadline(inst, d)
          [] OTHER -> i

\* Mutant: a role that goes away retires completed and waived rows too.
sync_one_retiring_history(inst, ctx, asOf, d) ==
    LET i         == inst[d]
        ageExempt == is_age_exempt(ctx, asOf, d)
        blocked   == ~ageExempt /\ unmet_prerequisite(inst, ctx, d)
    IN  CASE i.status = "absent" -> IF applies_to_volunteer(ctx, d) THEN Blank ELSE i
          [] i.status # "absent" /\ ~applies_to_volunteer(ctx, d) ->
                 _hold_not_applicable(i)
          [] OTHER -> _reconcile_existing(inst, ctx, d, ageExempt, blocked)

\* One iteration of the loop of sync_volunteer_requirements.
SyncOne(inst, ctx, asOf, d) ==
    LET i         == inst[d]
        ageExempt == is_age_exempt(ctx, asOf, d)
        blocked   == ~ageExempt /\ unmet_prerequisite(inst, ctx, d)
    IN  CASE ~applies_to_volunteer(ctx, d) ->
                 IF i.status \in outstanding_values THEN _hold_not_applicable(i) ELSE i
          [] applies_to_volunteer(ctx, d) /\ i.status = "absent" ->
                 IF ageExempt \/ blocked
                 THEN [Blank EXCEPT !.status = "not_applicable"] ELSE Blank
          [] OTHER -> _reconcile_existing(inst, ctx, d, ageExempt, blocked)

\* The whole pass: active definitions in order, each one seeing the rows the
\* earlier ones have already written.
sync_volunteer_requirements(inst, ctx, asOf) ==
    LET after[k \in 0..Len(Order)] ==
            IF k = 0 THEN inst
            ELSE LET rows == after[k-1]
                 IN  IF Order[k] \notin ctx.active THEN rows
                     ELSE [rows EXCEPT ![Order[k]] = SyncOne(rows, ctx, asOf, Order[k])]
    IN  after[Len(Order)]

has_dependents(ctx, d) == \E f \in ctx.gated \cap ctx.active : MustFollow[f] = d

\* Mutant: the write forgets the rows behind it.
refresh_nothing(inst, ctx, asOf, d) == inst

\* A write to d re-derives the list only when some active gate follows d.
refresh_dependents(inst, ctx, asOf, d) ==
    IF has_dependents(ctx, d)
    THEN sync_volunteer_requirements(inst, ctx, asOf)
    ELSE inst

Turn18One(inst, ctx, asOf, d) ==
    IF /\ inst[d].status = "not_applicable"
       /\ d \in AdultsOnly \cap ctx.active
       /\ is_adult_on(ctx, asOf)
       /\ applies_to_volunteer(ctx, d)
       /\ ~unmet_prerequisite(inst, ctx, d)
    THEN _activate(inst, ctx, d)
    ELSE inst[d]

activate_turning_18_checks(inst, ctx, asOf) ==
    LET after[k \in 0..Len(Order)] ==
            IF k = 0 THEN inst
            ELSE LET rows == after[k-1]
                 IN  [rows EXCEPT ![Order[k]] = Turn18One(rows, ctx, asOf, Order[k])]
    IN  after[Len(Order)]

\* Mutant: an overdue row heals although nobody ever completed it.
recompute_inventing(i, asOf) ==
    CASE i.status = "complete" /\ Past(i.expires, asOf) -> [i EXCEPT !.status = "overdue"]
      [] i.status = "overdue" /\ ~Past(i.expires, asOf) -> [i EXCEPT !.status = "complete"]
      [] i.status \in {"not_started", "in_progress"} /\ Past(i.due, asOf) ->
             [i EXCEPT !.status = "overdue"]
      [] OTHER -> i

\* Mutant: a lapsed completion is looked for in the deadline, not in the renewal date.
recompute_by_deadline(i, asOf) ==
    IF i.status \in {"not_started", "in_progress", "complete"} /\ Past(i.due, asOf)
    THEN [i EXCEPT !.status = "overdue"] ELSE i

\* Mutant: the sweep only ever lets rows lapse.
recompute_one_way(i, asOf) ==
    CASE i.status = "complete" /\ Past(i.expires, asOf) -> [i EXCEPT !.status = "overdue"]
      [] i.status \in {"not_started", "in_progress"} /\ Past(i.due, asOf) ->
             [i EXCEPT !.status = "overdue"]
      [] OTHER -> i

\* Mutant: a lapsed row is given a status that RequirementStatus does not list.
recompute_expired(i, asOf) ==
    IF i.status = "complete" /\ Past(i.expires, asOf) THEN [i EXCEPT !.status = "expired"] ELSE i

recompute(i, asOf) ==
    CASE /\ i.status = "complete"
         /\ \/ Past(i.expires, asOf)
            \/ Past(i.due, asOf) /\ i.completed = NoDate ->
             [i EXCEPT !.status = "overdue"]
      [] /\ i.status = "overdue"
         /\ i.completed # NoDate
         /\ ~Past(i.expires, asOf) ->
             [i EXCEPT !.status = "complete"]
      [] i.status \in {"not_started", "in_progress"} /\ Past(i.due, asOf) ->
             [i EXCEPT !.status = "overdue"]
      [] OTHER -> i

mark_complete(i, d, date) ==
    [i EXCEPT !.completed = date, !.expires = expiry_for(d, date),
              !.status = "complete", !.due = NoDate]

start(i) ==
    [i EXCEPT !.started = TRUE,
              !.status = IF @ = "not_started" THEN "in_progress" ELSE @]

\* Mutant: a waiver keeps the deadline.
waive_keeping_deadline(i) == [i EXCEPT !.status = "waived", !.waived = TRUE]

waive(i) == [i EXCEPT !.status = "waived", !.waived = TRUE, !.due = NoDate]

_status_after_reversal(i) ==
    CASE i.completed # NoDate -> "complete"
      [] i.completed = NoDate /\ i.started -> "in_progress"
      [] OTHER -> "not_started"

\* Mutant: a reversal leaves the waiver's details on the row.
unwaive_keeping_details(i, asOf) ==
    recompute([i EXCEPT !.status = _status_after_reversal(i)], asOf)

unwaive(i, asOf) ==
    recompute([i EXCEPT !.status = _status_after_reversal(i), !.waived = FALSE], asOf)

\* What record_crc does to the criminal record check's own row.
clear_crc(i, date) ==
    [i EXCEPT !.completed = date, !.expires = date + CrcMonths,
              !.status = "complete", !.due = NoDate]

block_crc(i) ==
    [i EXCEPT !.status = "blocked", !.completed = NoDate, !.expires = NoDate]

\* A row an administrator or a document may complete.
can_mark_complete(i, d) ==
    d \notin Crc /\ i.status \notin {"absent", "waived", "not_applicable", "blocked"}
===============================================================================
