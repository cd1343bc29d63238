------------------------------- MODULE Screening -------------------------------
(***************************************************************************)
(* Criminal record checks for one volunteer: results, convictions,         *)
(* leadership decisions, the screening block, the roles it takes away, the *)
(* requirement rows it moves, and the review that may retract a check.     *)
(*                                                                         *)
(* A request works on the Volunteer object it loaded when it began: each   *)
(* handler takes that object's columns as `seen'.  Here a request loads    *)
(* and commits in one step (seen is the row itself); module ScreeningRaces *)
(* lets other requests commit in between.  Rows other than the volunteer's *)
(* are queried by the service functions when they run.                     *)
(***************************************************************************)
EXTENDS Requirements, FiniteSets

CONSTANTS
    AdultFrom,           \* when this volunteer counts as 18
    Today,               \* the date of the requests; the clock stands still
    ReportDates,         \* bound: dates a check may carry
    MaxChecks,           \* bound: checks on file
    RecorderIsScoped     \* which recorders there are: TRUE needs review

ASSUME ScreeningAssumption ==
    /\ AdultFrom \in Nat
    /\ Today \in Date
    /\ ReportDates \subseteq Date
    /\ MaxChecks \in Nat
    /\ RecorderIsScoped \in SUBSET BOOLEAN

VARIABLES
    block,               \* Volunteer.screening_block
    serving,             \* Volunteer.is_active
    roles,               \* roles of the active assignments
    inst,                \* the volunteer's requirement rows
    checks               \* CRCRecord rows in the order they were recorded: result and date,
                         \* the check that superseded it (0 when operative) and the one it
                         \* displaced, convictions (flags), whether a decision exists, its
                         \* outcome, its review item with the snapshot of the row

svars == <<block, serving, roles, inst, checks>>

volunteer == [block |-> block, serving |-> serving]

sctx == [roles |-> roles, adultFrom |-> AdultFrom, active |-> Definition,
         gated |-> Gateable]

SInit ==
    /\ block = "none"
    /\ serving = TRUE
    /\ roles \in {{r} : r \in Role}
    /\ inst = sync_volunteer_requirements([d \in Definition |-> Absent], sctx, Today)
    /\ checks = <<>>

Operative == {n \in DOMAIN checks : checks[n].supersededBy = 0}

\* crc_instance_for: the first criminal record check row there is.
crc_instance_for ==
    LET at == {k \in DOMAIN Order : Order[k] \in Crc /\ inst[Order[k]].status # "absent"}
    IN  IF at = {} THEN NoDefinition
        ELSE Order[CHOOSE k \in at : \A j \in at : k <= j]

\* Write row d, then re-derive what is gated behind it.
WriteRow(d, i) ==
    inst' = IF d = NoDefinition THEN inst
            ELSE refresh_dependents([inst EXCEPT ![d] = i], sctx, Today, d)

\* Mutant: the permanent block is no different from the others.
set_any_block(seen, b) == block' = b

\* set_screening_block: refuses on the object it was called on.
set_screening_block(seen, b) ==
    /\ seen.block = "disqualified" => b = "disqualified"
    /\ block' = b

\* Mutant: a withdrawal is lifted as well.
lift_any_block(seen) ==
    IF seen.block \in {"crc_not_clear", "withdrawn"} THEN set_screening_block(seen, "none")
                                                    ELSE UNCHANGED block

lift_screening_block(seen) ==
    IF seen.block = "crc_not_clear" THEN set_screening_block(seen, "none")
                                    ELSE UNCHANGED block

\* The check a new one displaces: the operative one with the latest report date.
Displaced(n) == n \in Operative /\ \A m \in Operative : checks[m].date <= checks[n].date

record_crc(seen, result, date, scoped) ==
    /\ seen.block # "disqualified"
    /\ date <= Today
    /\ Len(checks) < MaxChecks
    /\ LET d == crc_instance_for
           old == IF d = NoDefinition THEN Absent ELSE inst[d]
           new(prev) ==
               [result |-> result, date |-> date, supersededBy |-> 0, flags |-> {},
                decided |-> FALSE,
                outcome |-> IF result = "not_clear" THEN "pending" ELSE "",
                item |-> IF scoped THEN "pending" ELSE "none",
                row |-> d, rowBefore |-> old,
                previous |-> prev]
       IN  /\ IF Operative = {}
              THEN checks' = Append(checks, new(0))
              ELSE \E n \in DOMAIN checks :
                     /\ Displaced(n)
                     /\ checks' = Append([checks EXCEPT ![n].supersededBy = Len(checks) + 1],
                                         new(n))
           /\ WriteRow(d, IF result = "cleared" THEN clear_crc(old, date) ELSE block_crc(old))
    /\ IF result = "cleared" THEN lift_screening_block(seen)
                             ELSE set_screening_block(seen, "crc_not_clear")
    /\ UNCHANGED <<serving, roles>>

\* An automatic conviction disqualifies: every assignment ends, every row still
\* owed is blocked. It does not look at the block there was.
record_convictions(n, flag) ==
    /\ checks[n].result = "not_clear"
    /\ checks' = [checks EXCEPT ![n].flags = @ \cup {flag}]
    /\ IF flag = "automatic"
       THEN /\ roles' = {}
            /\ block' = "disqualified"
            /\ inst' = [d \in Definition |->
                          IF inst[d].status \in outstanding_values
                          THEN [inst[d] EXCEPT !.status = "blocked"] ELSE inst[d]]
       ELSE UNCHANGED <<roles, block, inst>>
    /\ UNCHANGED serving

record_discretionary_override(seen, n, decision) ==
    /\ "discretionary" \in checks[n].flags
    /\ seen.block # "disqualified"
    /\ checks' = [checks EXCEPT ![n].decided = TRUE]
    /\ IF decision = "declined"
       THEN set_screening_block(seen, "withdrawn") /\ roles' = {}
       ELSE lift_screening_block(seen) /\ UNCHANGED roles
    /\ UNCHANGED <<serving, inst>>

resolve_not_clear(seen, n, outcome) ==
    /\ checks[n].result = "not_clear"
    /\ checks' = [checks EXCEPT ![n].outcome = outcome]
    /\ IF outcome = "withdrew"
       THEN set_screening_block(seen, "withdrawn") /\ roles' = {}
       ELSE UNCHANGED <<block, roles>>
    /\ UNCHANGED <<serving, inst>>

-----------------------------------------------------------------------------
(* The volunteer's record and assignments.                                   *)

Resynced(rs) == sync_volunteer_requirements(inst, [sctx EXCEPT !.roles = rs], Today)

\* Mutant: RoleAssignment.clean is not called.
assignment_create_unchecked(seen, r) ==
    /\ r \notin roles
    /\ roles' = roles \cup {r}
    /\ inst' = Resynced(roles')
    /\ UNCHANGED <<block, serving, checks>>

\* RoleAssignment.clean refuses a disqualified volunteer.
assignment_create(seen, r) ==
    /\ r \notin roles
    /\ seen.block # "disqualified"
    /\ roles' = roles \cup {r}
    /\ inst' = Resynced(roles')
    /\ UNCHANGED <<block, serving, checks>>

assignment_end(r) ==
    /\ r \in roles
    /\ roles' = roles \ {r}
    /\ serving' = (serving /\ roles' # {})
    /\ inst' = Resynced(roles')
    /\ UNCHANGED <<block, checks>>

\* form.save() writes every column of the object, the block included.
volunteer_edit(seen) ==
    /\ block' = seen.block
    /\ serving' = seen.serving
    /\ inst' = Resynced(roles)
    /\ UNCHANGED <<roles, checks>>

volunteer_deactivate(endAssignments) ==
    /\ serving
    /\ serving' = FALSE
    /\ roles' = IF endAssignments THEN {} ELSE roles
    /\ UNCHANGED <<block, inst, checks>>

volunteer_reactivate(seen) ==
    /\ seen.block # "disqualified"
    /\ serving' = TRUE
    /\ inst' = Resynced(roles)
    /\ UNCHANGED <<block, roles, checks>>

\* Commit hooks, the nightly sweep and the resync button all come to this.
Resync ==
    /\ inst' = Resynced(roles)
    /\ UNCHANGED <<block, serving, roles, checks>>

-----------------------------------------------------------------------------
(* Review of a check recorded by a department administrator.                 *)

affirm(n) ==
    /\ checks[n].item = "pending"
    /\ checks' = [checks EXCEPT ![n].item = "affirmed"]
    /\ UNCHANGED <<block, serving, roles, inst>>

Retractable(n) ==
    /\ checks[n].flags = {}
    /\ ~checks[n].decided
    /\ checks[n].supersededBy = 0

\* _restore_from_snapshot: the dates go back, the rules decide the status.
RestoredRow(i, before) ==
    LET dated == [i EXCEPT !.completed = before.completed, !.expires = before.expires,
                           !.due = before.due, !.started = before.started \/ @]
    IN  recompute([dated EXCEPT !.status = _status_after_reversal(dated)], Today)

\* Mutant: the check this one displaced is not put back.
send_back_leaving_none(n) ==
    /\ checks[n].item = "pending"
    /\ Retractable(n)
    /\ checks' = [checks EXCEPT ![n].item = "sent_back"]
    /\ WriteRow(checks[n].row,
                IF checks[n].row = NoDefinition THEN Absent
                ELSE RestoredRow(inst[checks[n].row], checks[n].rowBefore))
    /\ lift_screening_block(volunteer)
    /\ UNCHANGED <<serving, roles>>

_send_back_crc(n) ==
    /\ checks[n].item = "pending"
    /\ IF Retractable(n)
       THEN /\ checks' = [m \in DOMAIN checks |->
                 CASE m = n -> [checks[m] EXCEPT !.item = "sent_back"]
                   [] m # n /\ m = checks[n].previous -> [checks[m] EXCEPT !.supersededBy = 0]
                   [] OTHER -> checks[m]]
            /\ WriteRow(checks[n].row,
                        IF checks[n].row = NoDefinition THEN Absent
                        ELSE RestoredRow(inst[checks[n].row], checks[n].rowBefore))
            /\ lift_screening_block(volunteer)
       ELSE /\ checks' = [checks EXCEPT ![n].item = "sent_back"]
            /\ UNCHANGED <<inst, block>>
    /\ UNCHANGED <<serving, roles>>

-----------------------------------------------------------------------------
\* The requests that depend on the volunteer object they loaded.
Request(seen) ==
    \/ \E result \in {"cleared", "not_clear"}, date \in ReportDates,
          scoped \in RecorderIsScoped : record_crc(seen, result, date, scoped)
    \/ \E n \in DOMAIN checks, decision \in {"approved", "declined"} :
          record_discretionary_override(seen, n, decision)
    \/ \E n \in DOMAIN checks, outcome \in {"fingerprint", "withdrew"} :
          resolve_not_clear(seen, n, outcome)
    \/ \E r \in Role : assignment_create(seen, r)
    \/ volunteer_edit(seen)
    \/ volunteer_reactivate(seen)

\* The requests that do not.
OtherRequest ==
    \/ \E n \in DOMAIN checks, flag \in {"automatic", "discretionary"} :
          record_convictions(n, flag)
    \/ \E r \in Role : assignment_end(r)
    \/ \E e \in BOOLEAN : volunteer_deactivate(e)
    \/ Resync
    \/ \E n \in DOMAIN checks : affirm(n) \/ _send_back_crc(n)

SNext == Request(volunteer) \/ OtherRequest

SSpec == SInit /\ [][SNext]_svars

-----------------------------------------------------------------------------
(* Properties                                                                *)

\* A disqualified volunteer holds no role: the disqualification ends them all and
\* RoleAssignment.clean lets nobody place them again.
DisqualifiedHoldNoRole == block = "disqualified" => roles = {}

\* An automatic disqualifier is terminal: nothing anywhere reverses it.
DisqualificationIsPermanent ==
    [][block = "disqualified" => block' = "disqualified"]_svars

\* The block and the roles move only as the policy allows.
Policy == INSTANCE ScreeningPolicy
FollowsPolicy == Policy!PSpec

\* Each check was reported after those recorded before it.
InDateOrder == \A m, n \in DOMAIN checks : m < n => checks[m].date < checks[n].date

\* The completion on the check's row is that of an operative cleared check, through
\* retractions, parked rows and new checks, for checks recorded in the order of their
\* dates.
ClearanceIsBacked ==
    LET d == crc_instance_for
    IN  InDateOrder /\ d # NoDefinition /\ inst[d].completed # NoDate =>
            \E n \in Operative :
                checks[n].result = "cleared" /\ checks[n].date = inst[d].completed
===============================================================================
