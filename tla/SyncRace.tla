------------------------------- MODULE SyncRace -------------------------------
(***************************************************************************)
(* One volunteer's rows as the server writes them: a request, a sync and   *)
(* the nightly recompute each work on objects they loaded earlier (READ    *)
(* COMMITTED, nothing locked on reading) and save only the columns named   *)
(* in update_fields, so what one of them decides may rest on rows another  *)
(* has replaced.                                                           *)
(*                                                                         *)
(* The first save of a row locks it until the transaction ends.  Nobody    *)
(* else's save comes between a save and its commit, so a transaction is    *)
(* two steps: what it loads, and what it commits.  The recompute has no    *)
(* transaction: it reads all rows and then saves them one at a time.       *)
(***************************************************************************)
EXTENDS Requirements

CONSTANTS
    Worker,              \* bound: requests and jobs in flight at the same time
    Kinds,               \* bound: what the office records
    AdultFrom,           \* the volunteer's 18th-birthday date, or NoDate
    Horizon              \* bound: the last date the clock reaches

ASSUME SyncRaceAssumption ==
    /\ Kinds \subseteq {"completion", "start", "waiver", "reversal"}
    /\ AdultFrom \in Nat
    /\ Horizon \in Date

VARIABLES
    rows,                \* the RequirementInstance rows
    roles,               \* roles of the active assignments
    today,
    job                  \* what each worker is doing, and the objects it loaded

vars == <<rows, roles, today, job>>

ctx(r) == [roles |-> r, adultFrom |-> AdultFrom, active |-> Definition, gated |-> Gateable]

Nothing == [on |-> "nothing", rows |-> [d \in Definition |-> Absent], roles |-> {},
            asOf |-> NoDate, todo |-> {}]

Init ==
    /\ roles = Role
    /\ today = 1
    /\ rows = sync_volunteer_requirements([d \in Definition |-> Absent], ctx(roles), today)
    /\ job = [w \in Worker |-> Nothing]

-----------------------------------------------------------------------------
(* Loading and saving.                                                       *)

\* The objects of some of the rows.
Objects(list, S) == [d \in Definition |-> IF d \in S THEN list[d] ELSE Absent]

Load(w, on, S) ==
    /\ job[w].on = "nothing"
    /\ job' = [job EXCEPT ![w] =
                  [on |-> on, rows |-> Objects(rows, S), todo |-> S,
                   roles |-> IF on = "sync" THEN roles ELSE {},
                   asOf |-> IF on = "request" THEN NoDate ELSE today]]
    /\ UNCHANGED <<rows, roles, today>>

\* A request gets the row it will write; a sync the list and the roles; the recompute
\* opens its cursor. The jobs keep the date they started with.
LoadRequest(w) == \E d \in Definition : Load(w, "request", {d})
LoadSync(w) == Load(w, "sync", Definition)
LoadRecompute(w) == Load(w, "recompute", Definition)

Done(w) == job' = [job EXCEPT ![w] = Nothing]

\* Mutant: save() without update_fields.
save_everything(row, object, fields) == object

\* save(update_fields=fields): the object's columns over whatever the row holds.
save(row, object, fields) == [c \in DOMAIN row |-> IF c \in fields THEN object[c] ELSE row[c]]

\* What one turn of the sync saves: a status with its deadline, or a deadline.
SyncFields(before, after) ==
    IF after = before THEN {} ELSE IF after.status = before.status THEN {"due"}
    ELSE {"status", "due"}

\* The loop over the objects of loaded. The prerequisite of each is queried when its
\* turn comes, so gates and their dates are read from the rows as they are by then.
Synced(list, loaded, r, asOf) ==
    LET turn(l, d) ==
            LET after == SyncOne([l EXCEPT ![d] = loaded[d]], ctx(r), asOf, d)
            IN  [l EXCEPT ![d] = save(@, after, SyncFields(loaded[d], after))]
        upto[k \in 0..Len(Order)] == IF k = 0 THEN list ELSE turn(upto[k-1], Order[k])
    IN  upto[Len(Order)]

-----------------------------------------------------------------------------
(* An office request commits: its own columns, then what is gated behind.    *)

Write(w, d, object, fields) ==
    LET written == [rows EXCEPT ![d] = save(@, object, fields)]
    IN  /\ job[w].on = "request" /\ d \in job[w].todo
        /\ rows' = refresh_dependents(written, ctx(roles), today, d)
        /\ Done(w)
        /\ UNCHANGED <<roles, today>>

\* Mutant: the columns to save leave out the one a renewal also changes.
CompletionFieldsShort == {"completed", "status", "due"}

CompletionFields == {"completed", "expires", "status", "due"}

mark_requirement_complete(w, d, date) ==
    /\ "completion" \in Kinds
    /\ can_mark_complete(job[w].rows[d], d)
    /\ date <= today
    /\ Write(w, d, mark_complete(job[w].rows[d], d, date), CompletionFields)

start_requirement(w, d) ==
    /\ "start" \in Kinds
    /\ job[w].rows[d].status \in {"not_started", "overdue"}
    /\ Write(w, d, start(job[w].rows[d]), {"started", "status"})

waive_requirement(w, d) ==
    /\ "waiver" \in Kinds
    /\ d \notin Crc
    /\ Write(w, d, waive(job[w].rows[d]), {"status", "waived", "due"})

reverse_waiver(w, d) ==
    /\ "reversal" \in Kinds
    /\ job[w].rows[d].status = "waived"
    /\ Write(w, d, unwaive(job[w].rows[d], today), {"status", "waived"})

-----------------------------------------------------------------------------
(* The jobs.                                                                 *)

sync_commit(w) ==
    /\ job[w].on = "sync"
    /\ rows' = Synced(rows, job[w].rows, job[w].roles, job[w].asOf)
    /\ Done(w)
    /\ UNCHANGED <<roles, today>>

\* A row's status is saved only when the object's own status changed.
recompute_one(w, d) ==
    /\ job[w].on = "recompute" /\ d \in job[w].todo
    /\ LET object == recompute(job[w].rows[d], job[w].asOf)
       IN  rows' = IF object = job[w].rows[d] THEN rows
                   ELSE [rows EXCEPT ![d] = save(@, object, {"status"})]
    /\ LET rest == [job[w] EXCEPT !.todo = @ \ {d}, !.rows[d] = Absent]
       IN  job' = [job EXCEPT ![w] = IF job[w].todo = {d} THEN Nothing ELSE rest]
    /\ UNCHANGED <<roles, today>>

\* A form is refused, a hook's exception is swallowed, a job dies.
Abandon(w) ==
    /\ job[w].on # "nothing"
    /\ Done(w)
    /\ UNCHANGED <<rows, roles, today>>

-----------------------------------------------------------------------------
(* Assignments come and go (the syncs they owe: LoadSync, sync_commit).    *)

Assign ==
    /\ roles' \in SUBSET Role
    /\ UNCHANGED <<rows, today, job>>

Tick ==
    /\ today < Horizon
    /\ today' = today + 1
    /\ UNCHANGED <<rows, roles, job>>

Record(w) ==
    \E d \in Definition :
        \/ \E date \in 1..Horizon : mark_requirement_complete(w, d, date)
        \/ start_requirement(w, d)
        \/ waive_requirement(w, d)
        \/ reverse_waiver(w, d)

RecomputeNext(w) == \E d \in Definition : recompute_one(w, d)

Next ==
    \/ \E w \in Worker : LoadRequest(w) \/ Record(w)
    \/ \E w \in Worker : LoadSync(w) \/ sync_commit(w)
    \/ \E w \in Worker : LoadRecompute(w) \/ RecomputeNext(w) \/ Abandon(w)
    \/ Assign
    \/ Tick

Spec == Init /\ [][Next]_vars

(* No request or hook lives for ever, the recompute is run every night, and it does   *)
(* not die every night.                                                               *)
FairSpec ==
    /\ Spec
    /\ \A w \in Worker : /\ WF_vars(Abandon(w))
                          /\ SF_vars(LoadRecompute(w))
                          /\ SF_vars(RecomputeNext(w))

-----------------------------------------------------------------------------
(* Properties                                                                *)

\* No lost update of what somebody recorded: whatever they had loaded, syncs and
\* nights never change a completion, its expiry, a start or a waiver's details.
OnlyRequestsRecord ==
    [][\A d \in Definition :
          (\E c \in {"completed", "expires", "started", "waived"} : rows'[d][c] # rows[d][c])
              => \E w \in Worker : job[w].on = "request" /\ job'[w].on = "nothing"]_vars

\* A row is never put together from two recordings, however the columns of several
\* saves are mixed: what reads complete was completed, and the renewal date on file is
\* that of the completion on file.
DatesBelongTogether ==
    \A d \in Definition :
        /\ rows[d].status = "complete" => rows[d].completed \in 1..today
        /\ rows[d].completed # NoDate =>
              rows[d].expires = expiry_for(d, rows[d].completed)

\* "A renewal recorded since the last sweep pulls it back into compliance": whatever
\* saved an old status over it, a current completion does not read overdue for good.
LateOverdueHeals ==
    \A d \in Definition :
        rows[d].status = "overdue" /\ rows[d].completed # NoDate /\ ~Past(rows[d].expires, today)
            ~> \/ rows[d].status # "overdue"
               \/ Past(rows[d].expires, today)
===============================================================================
