------------------------ MODULE RequirementEngineProofs ------------------------
(***************************************************************************)
(* The requirement list of one volunteer, for every church configuration,  *)
(* any horizon and any number of roles, definitions and owed syncs.        *)
(***************************************************************************)
EXTENDS RequirementEngine, RequirementsProofs, FiniteSetTheorems

(***************************************************************************)
(* What is true of one row on date t.  One clause strengthens the          *)
(* properties: a completed row that no longer reads complete or waived has *)
(* lapsed by t.  So parking it loses nothing, and a sweep that works for   *)
(* an earlier date and turns it complete leaves a row that has outlived    *)
(* its renewal date.                                                       *)
(***************************************************************************)
RowOK(i, t) ==
    /\ i \in Instance
    /\ i.completed <= t
    /\ i.status = "complete" => i.completed # NoDate
    /\ i.status = "absent" => i.completed = NoDate
    /\ i.expires # NoDate => i.completed # NoDate /\ i.completed < i.expires
    /\ i.status \in satisfied_values /\ ~(i.status = "complete" /\ Past(i.expires, t))
          => i.due = NoDate
    /\ i.waived <=> i.status = "waived"
    /\ i.status \notin {"complete", "waived"} /\ i.completed # NoDate => Past(i.expires, t)

\* The lists whose rows are all right; no criminal record check is ever waived.
Rows(t) ==
    {l \in [Definition -> Instance] :
        \A d \in Definition : RowOK(l[d], t) /\ (d \in Crc => ~l[d].waived)}

-----------------------------------------------------------------------------
(* One row.                                                                  *)

LEMMA HoldKeepsRow ==
    ASSUME NEW t \in Nat, NEW i, RowOK(i, t),
           i.status \in outstanding_values
    PROVE  RowOK(_hold_not_applicable(i), t) /\ ~_hold_not_applicable(i).waived
  BY DEF RowOK, _hold_not_applicable, Instance, Status, outstanding_values,
         satisfied_values, NoDate, Past

LEMMA RecomputeKeepsRow ==
    ASSUME NEW t \in Nat, NEW asOf \in Nat, asOf <= t, NEW i, RowOK(i, t)
    PROVE  RowOK(recompute(i, asOf), t) /\ recompute(i, asOf).waived = i.waived
  BY SMTT(60) DEF RowOK, recompute, Instance, Status, satisfied_values, NoDate, Past

LEMMA ActivateKeepsRow ==
    ASSUME NEW t \in Nat, NEW l \in [Definition -> Instance],
           NEW c \in Context, NEW d \in Definition,
           RowOK(l[d], t), l[d].status = "not_applicable"
    PROVE  RowOK(_activate(l, c, d), t) /\ ~_activate(l, c, d).waived
<1> DEFINE due == _activate(l, c, d).due
<1>1. _activate(l, c, d) = [l[d] EXCEPT !.status = "not_started", !.due = due]
  BY DEF _activate, Instance
<1>2. due \in Nat
  <2>1. l[d].due \in Nat
    BY DEF Instance
  <2>2. c.adultFrom \in Nat /\ c.gated \subseteq Gateable /\ Turning18Months \in Nat
    BY RequirementsAssumption DEF RequirementsAssumption, Context
  <2>3. d \in c.gated => _prerequisite_deadline(l, d) \in Nat
    BY <2>2, DeadlineIsNat DEF List
  <2>4. QED  BY <2>1, <2>2, <2>3 DEF _activate, NoDate, Instance
<1> HIDE DEF due
<1>3. QED
  BY <1>1, <1>2 DEF RowOK, Instance, Status, satisfied_values, NoDate, Past

LEMMA RefreshKeepsRow ==
    ASSUME NEW t \in Nat, NEW l \in [Definition -> Instance],
           NEW d \in Gateable, RowOK(l[d], t),
           l[d].status \in outstanding_values, l[d].completed = NoDate
    PROVE  /\ RowOK(_refresh_prerequisite_deadline(l, d), t)
           /\ ~_refresh_prerequisite_deadline(l, d).waived
  BY DeadlineIsNat
  DEF List, _refresh_prerequisite_deadline, RowOK, Instance, Status, outstanding_values,
      satisfied_values, NoDate, Past, Gateable

\* A row as it is created, whatever status the sync gives it at once.
LEMMA BlankIsOK ==
    ASSUME NEW t \in Nat,
           NEW i \in {Blank, Absent, [Blank EXCEPT !.status = "not_applicable"]}
    PROVE  RowOK(i, t) /\ ~i.waived
<1>1. i.completed = 0 /\ i.expires = 0 /\ i.due = 0
  BY DEF Blank, Absent, NoDate
<1>2. i.waived = FALSE
  BY DEF Blank, Absent
<1>3. i.status \in {"absent", "not_started", "not_applicable"}
  BY DEF Blank, Absent
<1>4. i \in Instance
  <2>1. Blank \in Instance
    BY DEF Blank, Instance, Status, NoDate
  <2>2. [Blank EXCEPT !.status = "not_applicable"] \in Instance
    BY <2>1 DEF Instance, Status
  <2>3. Absent \in Instance
    BY <2>1 DEF Absent, Instance, Status
  <2>4. QED  BY <2>1, <2>2, <2>3
<1>5. i.status \notin {"complete", "waived", "overdue"}
  BY <1>3
<1>6. QED
  BY <1>1, <1>2, <1>4, <1>5 DEF RowOK, NoDate

-----------------------------------------------------------------------------
(* What an administrator does to a row.                                      *)

LEMMA CompleteKeepsRow ==
    ASSUME NEW t \in Nat, NEW i, RowOK(i, t),
           NEW d \in Definition, NEW date \in Date, date <= t, can_mark_complete(i, d)
    PROVE  RowOK(mark_complete(i, d, date), t) /\ ~mark_complete(i, d, date).waived
<1>1. expiry_for(d, date) \in Nat /\ (expiry_for(d, date) # 0 => date < expiry_for(d, date))
  <2>1. Interval[d] \in Nat
    BY RequirementsAssumption DEF RequirementsAssumption
  <2>2. QED  BY <2>1 DEF expiry_for, Date, NoDate
<1>2. ~i.waived
  BY DEF RowOK, can_mark_complete
<1>3. QED
  BY <1>1, <1>2 DEF mark_complete, RowOK, Instance, Status, Date, NoDate

LEMMA StartKeepsRow ==
    ASSUME NEW t \in Nat, NEW i, RowOK(i, t),
           i.status \in {"not_started", "overdue"}
    PROVE  RowOK(start(i), t) /\ start(i).waived = i.waived
  BY DEF start, RowOK, Instance, Status, satisfied_values, NoDate, Past

LEMMA WaiveKeepsRow ==
    ASSUME NEW t \in Nat, NEW i, RowOK(i, t), i.status # "absent"
    PROVE  RowOK(waive(i), t)
  BY DEF waive, RowOK, Instance, Status, satisfied_values, NoDate

LEMMA UnwaiveKeepsRow ==
    ASSUME NEW t \in Nat, NEW i, RowOK(i, t), i.status = "waived"
    PROVE  RowOK(unwaive(i, t), t) /\ ~unwaive(i, t).waived
<1> DEFINE j == [i EXCEPT !.status = _status_after_reversal(i), !.waived = FALSE]
<1>1. /\ j \in Instance
      /\ ~j.waived
      /\ j.status \in {"complete", "in_progress", "not_started"}
      /\ j.status = "complete" <=> j.completed # NoDate
      /\ j.due = NoDate
      /\ j.completed = i.completed /\ j.expires = i.expires
  BY DEF _status_after_reversal, RowOK, Instance, Status, satisfied_values
<1> HIDE DEF j
<1>2. RowOK(recompute(j, t), t) /\ ~recompute(j, t).waived
  BY <1>1 DEF RowOK, recompute, Instance, Status, satisfied_values, NoDate, Past
<1>3. QED  BY <1>2 DEF unwaive, j

LEMMA ClearKeepsRow ==
    ASSUME NEW t \in Nat, NEW i, RowOK(i, t), ~i.waived,
           NEW date \in Date, date <= t
    PROVE  RowOK(clear_crc(i, date), t) /\ ~clear_crc(i, date).waived
<1>1. date + CrcMonths \in Nat /\ date < date + CrcMonths
  BY RequirementsAssumption DEF RequirementsAssumption, Date
<1>2. QED
  BY <1>1 DEF clear_crc, RowOK, Instance, Status, Date, NoDate

LEMMA BlockKeepsRow ==
    ASSUME NEW t \in Nat, NEW i, RowOK(i, t), ~i.waived
    PROVE  RowOK(block_crc(i), t) /\ ~block_crc(i).waived
<1> DEFINE j == block_crc(i)
<1>1. /\ j \in Instance /\ ~j.waived
      /\ j.status = "blocked" /\ j.completed = 0 /\ j.expires = 0
  BY DEF block_crc, RowOK, Instance, Status, NoDate
<1> HIDE DEF j
<1>2. RowOK(j, t)
  BY <1>1 DEF RowOK, satisfied_values, NoDate
<1>3. QED  BY <1>1, <1>2 DEF j

-----------------------------------------------------------------------------
(* One iteration of a pass, and the whole pass.                              *)

\* Replacing a row by one that is all right keeps the list all right.
LEMMA ReplaceKeepsRows ==
    ASSUME NEW t, NEW l \in Rows(t), NEW d \in Definition, NEW i,
           RowOK(i, t), d \in Crc => ~i.waived
    PROVE  [l EXCEPT ![d] = i] \in Rows(t)
<1>1. i \in Instance
  BY DEF RowOK
<1>2. QED  BY <1>1 DEF Rows

LEMMA SyncOneKeepsRows ==
    ASSUME NEW t \in Nat, NEW c \in Context, NEW asOf,
           NEW l \in Rows(t), NEW d \in Definition
    PROVE  [l EXCEPT ![d] = SyncOne(l, c, asOf, d)] \in Rows(t)
<1> DEFINE ageExempt == is_age_exempt(c, asOf, d)
           blocked   == ~ageExempt /\ unmet_prerequisite(l, c, d)
           Kept(i)   == RowOK(i, t) /\ (d \in Crc => ~i.waived)
<1>1. l \in [Definition -> Instance] /\ Kept(l[d])
  BY DEF Rows
<1>2. Kept(Blank) /\ Kept([Blank EXCEPT !.status = "not_applicable"])
  BY BlankIsOK
<1>3. l[d].status \in outstanding_values => Kept(_hold_not_applicable(l[d]))
  BY <1>1, HoldKeepsRow
<1>4. l[d].status = "not_applicable" => Kept(_activate(l, c, d))
  BY <1>1, ActivateKeepsRow
<1>5. d \in c.gated /\ l[d].status \in outstanding_values /\ l[d].completed = NoDate
      => Kept(_refresh_prerequisite_deadline(l, d))
  <2>1. d \in c.gated => d \in Gateable
    BY DEF Context
  <2>2. QED  BY <1>1, <2>1, RefreshKeepsRow
<1> HIDE DEF Kept, ageExempt, blocked
<1>6. Kept(_reconcile_existing(l, c, d, ageExempt, blocked))
  <2> DEFINE out == l[d].status \in outstanding_values
             result == _reconcile_existing(l, c, d, ageExempt, blocked)
  <2>1. CASE (ageExempt \/ blocked) /\ out
    <3>1. result = _hold_not_applicable(l[d])
      BY <2>1 DEF _reconcile_existing
    <3>2. QED  BY <1>3, <2>1, <3>1
  <2>2. CASE ~ageExempt /\ ~blocked /\ l[d].status = "not_applicable"
    <3>1. result = _activate(l, c, d)
      BY <2>2 DEF _reconcile_existing, outstanding_values
    <3>2. QED  BY <1>4, <2>2, <3>1
  <2>3. CASE ~ageExempt /\ ~blocked /\ out /\ d \in c.gated /\ l[d].completed = NoDate
    <3>1. result = _refresh_prerequisite_deadline(l, d)
      BY <2>3 DEF _reconcile_existing, outstanding_values
    <3>2. QED  BY <1>5, <2>3, <3>1
  <2>4. CASE /\ ~((ageExempt \/ blocked) /\ out)
             /\ ~(~ageExempt /\ ~blocked /\ l[d].status = "not_applicable")
             /\ ~(~ageExempt /\ ~blocked /\ out /\ d \in c.gated /\ l[d].completed = NoDate)
    <3>1. result = l[d]
      BY <2>4 DEF _reconcile_existing
    <3>2. QED  BY <1>1, <3>1
  <2>5. QED  BY <2>1, <2>2, <2>3, <2>4
<1>7. Kept(SyncOne(l, c, asOf, d))
  BY <1>1, <1>2, <1>3, <1>6 DEF SyncOne, ageExempt, blocked
<1>8. QED  BY <1>7, ReplaceKeepsRows DEF Kept

LEMMA SyncKeepsRows ==
    ASSUME NEW t \in Nat, NEW c \in Context, NEW asOf,
           NEW l \in Rows(t)
    PROVE  sync_volunteer_requirements(l, c, asOf) \in Rows(t)
  BY SyncOneKeepsRows, SyncKeeps

LEMMA Turn18KeepsRows ==
    ASSUME NEW t \in Nat, NEW c \in Context, NEW asOf,
           NEW l \in Rows(t)
    PROVE  activate_turning_18_checks(l, c, asOf) \in Rows(t)
<1>1. ASSUME NEW k \in Rows(t), NEW d \in Definition
      PROVE  [k EXCEPT ![d] = Turn18One(k, c, asOf, d)] \in Rows(t)
  <2>1. /\ k \in [Definition -> Instance]
        /\ RowOK(k[d], t)
        /\ d \in Crc => ~k[d].waived
    BY DEF Rows
  <2>2. k[d].status = "not_applicable"
        => RowOK(_activate(k, c, d), t) /\ ~_activate(k, c, d).waived
    BY <2>1, ActivateKeepsRow
  <2>3. /\ RowOK(Turn18One(k, c, asOf, d), t)
        /\ d \in Crc => ~Turn18One(k, c, asOf, d).waived
    BY <2>1, <2>2 DEF Turn18One
  <2>4. QED  BY <2>3, ReplaceKeepsRows
<1>2. QED  BY <1>1, Turn18Keeps

\* A write of a good row, followed by the rows behind it.
LEMMA WriteKeepsRows ==
    ASSUME NEW t \in Nat, NEW c \in Context, NEW asOf,
           NEW l \in Rows(t), NEW d \in Definition, NEW i,
           RowOK(i, t), d \in Crc => ~i.waived
    PROVE  refresh_dependents([l EXCEPT ![d] = i], c, asOf, d) \in Rows(t)
<1>1. [l EXCEPT ![d] = i] \in Rows(t)
  BY ReplaceKeepsRows
<1>2. QED  BY <1>1, SyncKeepsRows DEF refresh_dependents

-----------------------------------------------------------------------------
(* The inductive invariant.                                                  *)

IInv ==
    /\ TypeOK
    /\ sweep.asOf <= today
    /\ inst \in Rows(today)

\* What the invariant gives every action to work with.
LEMMA InvFacts ==
    ASSUME IInv
    PROVE  /\ ctx \in Context
           /\ today \in Nat
           /\ \A d \in Definition :
                 RowOK(inst[d], today) /\ (d \in Crc => ~inst[d].waived)
  BY EngineAssumption DEF IInv, TypeOK, ctx, Context, Rows, EngineAssumption, Date

\* Rows that are all right stay so as the day goes on.
LEMMA RowsGrow ==
    ASSUME NEW t \in Nat, NEW u \in Nat, t <= u, NEW l \in Rows(t)
    PROVE  l \in Rows(u)
<1>1. ASSUME NEW d \in Definition PROVE RowOK(l[d], u)
  <2>1. RowOK(l[d], t)
    BY DEF Rows
  <2>2. l[d].completed \in Nat /\ l[d].expires \in Nat
    BY <2>1 DEF RowOK, Instance
  <2>3. Past(l[d].expires, t) => Past(l[d].expires, u)
    BY <2>2 DEF Past
  <2>4. l[d].completed <= u
    BY <2>1, <2>2 DEF RowOK
  <2>5. QED  BY <2>1, <2>3, <2>4 DEF RowOK
<1>2. QED  BY <1>1 DEF Rows

LEMMA InitInv == Init => IInv
<1> SUFFICES ASSUME Init PROVE IInv
  OBVIOUS
<1> DEFINE none == [d \in Definition |-> Absent]
<1>1. today = 1 /\ sweep.asOf = 0
  BY DEF Init, NoDate
<1>2. /\ roles \in SUBSET Role /\ adultFrom \in Nat
      /\ active \in SUBSET Definition /\ gated \in SUBSET Gateable
  <2>1. roles \in SUBSET Role
    BY DEF Init
  <2>2. adultFrom \in Nat
    BY EngineAssumption DEF Init, EngineAssumption, Date, NoDate
  <2>3. QED  BY <2>1, <2>2 DEF Init
<1>2a. ctx \in Context
  BY <1>2 DEF ctx, Context
<1>3. none \in Rows(1)
  <2>1. RowOK(Absent, 1) /\ ~Absent.waived
    BY BlankIsOK
  <2>2. Absent \in Instance
    BY <2>1 DEF RowOK
  <2>3. QED  BY <2>1, <2>2 DEF Rows
<1>4. inst \in Rows(1)
  <2>1. inst = sync_volunteer_requirements(none, ctx, today)
    BY DEF Init
  <2> HIDE DEF none
  <2>2. QED  BY <1>1, <1>3, <1>2a, <2>1, SyncKeepsRows
<1>5. TypeOK
  <2>1. inst \in [Definition -> Instance]
    BY <1>4 DEF Rows
  <2>2. /\ 1 \in 1..Horizon /\ 1 \in 0..MaxOwed
        /\ sweep \in [phase : {"idle", "synced", "activated"}, asOf : 0..Horizon]
    BY EngineAssumption DEF Init, EngineAssumption, Date, NoDate
  <2>3. QED  BY <1>2, <2>1, <2>2 DEF Init, TypeOK
<1>6. QED  BY <1>1, <1>4, <1>5 DEF IInv

(***************************************************************************)
(* Recording: one row is written, and the rows behind it follow.           *)
(***************************************************************************)

\* An action that writes a good row and leaves person, clock and sweep alone.
LEMMA WriteStep ==
    ASSUME IInv, NEW d \in Definition, NEW i,
           RowOK(i, today), d \in Crc => ~i.waived,
           Write(d, i), UNCHANGED <<person, config, today, sweep>>,
           owed' \in 0..MaxOwed, stale' \in BOOLEAN
    PROVE  IInv'
<1>1. inst' \in Rows(today)
  BY InvFacts, WriteKeepsRows DEF Write, IInv
<1>2. inst' \in [Definition -> Instance]
  BY <1>1 DEF Rows
<1>3. QED  BY <1>1, <1>2 DEF IInv, TypeOK, person, config

LEMMA RecordStep ==
    ASSUME IInv, Record
    PROVE  IInv'
<1> USE InvFacts
<1>0. owed \in 0..MaxOwed /\ stale \in BOOLEAN /\ MaxOwed \in Nat
  BY EngineAssumption DEF IInv, TypeOK, EngineAssumption
<1>1. ASSUME NEW d \in Definition, NEW date \in 1..Horizon,
             mark_requirement_complete(d, date)
      PROVE  IInv'
  <2>1. date \in Date /\ date <= today /\ can_mark_complete(inst[d], d)
    BY <1>1 DEF mark_requirement_complete, Date
  <2>2. RowOK(mark_complete(inst[d], d, date), today)
        /\ ~mark_complete(inst[d], d, date).waived
    BY <2>1, CompleteKeepsRow
  <2>3. QED  BY <1>0, <1>1, <2>2, WriteStep DEF mark_requirement_complete
<1>2. ASSUME NEW d \in Definition, start_requirement(d)
      PROVE  IInv'
  <2>1. RowOK(start(inst[d]), today) /\ start(inst[d]).waived = inst[d].waived
    BY <1>2, StartKeepsRow DEF start_requirement
  <2>2. inst' \in Rows(today)
    BY <1>2, <2>1, ReplaceKeepsRows DEF start_requirement, IInv
  <2>3. inst' \in [Definition -> Instance]
    BY <2>2 DEF Rows
  <2>4. QED  BY <1>2, <2>2, <2>3 DEF start_requirement, IInv, TypeOK, person, config
<1>3. ASSUME NEW d \in Definition, waive_requirement(d)
      PROVE  IInv'
  <2>1. RowOK(waive(inst[d]), today) /\ d \notin Crc
    BY <1>3, WaiveKeepsRow DEF waive_requirement
  <2>2. QED  BY <1>0, <1>3, <2>1, WriteStep DEF waive_requirement
<1>4. ASSUME NEW d \in Definition, reverse_waiver(d)
      PROVE  IInv'
  <2>1. RowOK(unwaive(inst[d], today), today) /\ ~unwaive(inst[d], today).waived
    BY <1>4, UnwaiveKeepsRow DEF reverse_waiver
  <2>2. QED  BY <1>0, <1>4, <2>1, WriteStep DEF reverse_waiver
<1>5. ASSUME NEW d \in Definition, NEW date \in 1..Horizon, record_crc_cleared(d, date)
      PROVE  IInv'
  <2>1. date \in Date /\ date <= today /\ ~inst[d].waived
    BY <1>5 DEF record_crc_cleared, IsCrcInstance, Date
  <2>2. RowOK(clear_crc(inst[d], date), today) /\ ~clear_crc(inst[d], date).waived
    BY <2>1, ClearKeepsRow
  <2>3. owed' \in 0..MaxOwed
    BY <1>0, <1>5 DEF record_crc_cleared, Owe
  <2>4. QED  BY <1>0, <1>5, <2>2, <2>3, WriteStep DEF record_crc_cleared
<1>6. ASSUME NEW d \in Definition, record_crc_not_clear(d)
      PROVE  IInv'
  <2>1. RowOK(block_crc(inst[d]), today) /\ ~block_crc(inst[d]).waived
    BY <1>6, BlockKeepsRow DEF record_crc_not_clear, IsCrcInstance
  <2>2. owed' \in 0..MaxOwed
    BY <1>0, <1>6 DEF record_crc_not_clear, Owe
  <2>3. QED  BY <1>0, <1>6, <2>1, <2>2, WriteStep DEF record_crc_not_clear
<1>7. QED  BY <1>1, <1>2, <1>3, <1>4, <1>5, <1>6 DEF Record

(***************************************************************************)
(* Everything else either runs the pass over the rows or leaves them be.   *)
(***************************************************************************)

\* The rows are still all right, and neither the clock nor the sweep moved.
LEMMA RowsStep ==
    ASSUME IInv, inst' \in Rows(today), UNCHANGED <<today, sweep>>,
           roles' \in SUBSET Role, adultFrom' \in Nat, serving' \in BOOLEAN,
           active' \in SUBSET Definition, gated' \in SUBSET Gateable,
           owed' \in 0..MaxOwed, stale' \in BOOLEAN
    PROVE  IInv'
<1>1. inst' \in [Definition -> Instance]
  BY DEF Rows
<1>2. QED  BY <1>1 DEF IInv, TypeOK

LEMMA ChangePersonStep ==
    ASSUME IInv, ChangePerson
    PROVE  IInv'
<1>0. /\ roles \in SUBSET Role /\ adultFrom \in Nat /\ serving \in BOOLEAN
      /\ active \in SUBSET Definition /\ gated \in SUBSET Gateable
      /\ owed \in 0..MaxOwed /\ MaxOwed \in Nat /\ stale \in BOOLEAN
      /\ inst \in Rows(today)
  BY EngineAssumption DEF IInv, TypeOK, EngineAssumption
<1>1. ASSUME NEW r \in Role, assignment_create(r)
      PROVE  IInv'
  BY <1>0, <1>1, RowsStep DEF assignment_create, config, Owe
<1>2. ASSUME NEW r \in Role, assignment_end(r)
      PROVE  IInv'
  <2> DEFINE c == [ctx EXCEPT !.roles = roles']
  <2>1. roles' \in SUBSET Role /\ serving' \in BOOLEAN
    BY <1>0, <1>2 DEF assignment_end
  <2>2. c \in Context
    BY <2>1, InvFacts DEF Context
  <2>3. inst' \in Rows(today)
    <3>1. inst' = sync_volunteer_requirements(inst, c, today)
      BY <1>2 DEF assignment_end
    <3> HIDE DEF c
    <3>2. QED  BY <1>0, <2>2, <3>1, InvFacts, SyncKeepsRows
  <2>4. owed' \in 0..MaxOwed
    BY <1>0, <1>2 DEF assignment_end, Owe
  <2>5. QED  BY <1>0, <1>2, <2>1, <2>3, <2>4, RowsStep DEF assignment_end, config
<1>3. ASSUME NEW b \in BirthChoices, volunteer_edit(b)
      PROVE  IInv'
  <2>1. b \in Nat
    BY EngineAssumption DEF EngineAssumption, Date
  <2>2. owed' \in 0..MaxOwed
    BY <1>0, <1>3 DEF volunteer_edit, Owe
  <2>3. QED  BY <1>0, <1>3, <2>1, <2>2, RowsStep DEF volunteer_edit, config
<1>4. ASSUME NEW e \in BOOLEAN, volunteer_deactivate(e)
      PROVE  IInv'
  <2>1. roles' \in SUBSET Role
    BY <1>0, <1>4 DEF volunteer_deactivate
  <2>2. owed' \in 0..MaxOwed
    <3>1. roles \ roles' \in SUBSET Role /\ IsFiniteSet(Role)
      BY <1>0, EngineAssumption DEF EngineAssumption
    <3>2. Cardinality(roles \ roles') \in Nat
      BY <3>1, FS_Subset, FS_CardinalityType
    <3>3. QED  BY <1>0, <1>4, <3>2 DEF volunteer_deactivate, Owe
  <2>3. QED  BY <1>0, <1>4, <2>1, <2>2, RowsStep DEF volunteer_deactivate, config
<1>5. ASSUME volunteer_reactivate
      PROVE  IInv'
  <2>1. owed' \in 0..MaxOwed
    BY <1>0, <1>5 DEF volunteer_reactivate, Owe
  <2>2. QED  BY <1>0, <1>5, <2>1, RowsStep DEF volunteer_reactivate, config
<1>6. QED  BY <1>1, <1>2, <1>3, <1>4, <1>5 DEF ChangePerson

LEMMA ChangeConfigStep ==
    ASSUME IInv, ChangeConfig
    PROVE  IInv'
<1>0. /\ roles \in SUBSET Role /\ adultFrom \in Nat /\ serving \in BOOLEAN
      /\ active \in SUBSET Definition /\ gated \in SUBSET Gateable
      /\ owed \in 0..MaxOwed /\ inst \in Rows(today)
  BY DEF IInv, TypeOK
<1>1. ASSUME NEW d \in Editable, definition_toggle_active(d)
      PROVE  IInv'
  <2>1. active' \in SUBSET Definition
    BY <1>0, <1>1, EngineAssumption DEF definition_toggle_active, EngineAssumption
  <2>2. QED  BY <1>0, <1>1, <2>1, RowsStep DEF definition_toggle_active, person
<1>2. ASSUME NEW d \in Editable, definition_edit(d)
      PROVE  IInv'
  <2>1. gated' \in SUBSET Gateable
    BY <1>0, <1>2 DEF definition_edit
  <2>2. QED  BY <1>0, <1>2, <2>1, RowsStep DEF definition_edit, person
<1>3. QED  BY <1>1, <1>2 DEF ChangeConfig

LEMMA RunSyncStep ==
    ASSUME IInv, RunSync
    PROVE  IInv'
<1>0. /\ roles \in SUBSET Role /\ adultFrom \in Nat /\ serving \in BOOLEAN
      /\ active \in SUBSET Definition /\ gated \in SUBSET Gateable
      /\ owed \in 0..MaxOwed /\ MaxOwed \in Nat /\ inst \in Rows(today)
  BY EngineAssumption DEF IInv, TypeOK, EngineAssumption
<1>1. Sync(today) => inst' \in Rows(today)
  BY <1>0, InvFacts, SyncKeepsRows DEF Sync
<1>2. CASE _safe_sync
  <2>1. owed' \in 0..MaxOwed
    BY <1>0, <1>2 DEF _safe_sync
  <2>2. QED  BY <1>0, <1>1, <1>2, <2>1, RowsStep DEF _safe_sync, person, config
<1>3. CASE LoseSync
  <2>1. owed' \in 0..MaxOwed
    BY <1>0, <1>3 DEF LoseSync
  <2>2. QED  BY <1>0, <1>3, <2>1, RowsStep DEF LoseSync, person, config
<1>4. CASE volunteer_resync
  BY <1>0, <1>1, <1>4, RowsStep DEF volunteer_resync, person, config
<1>5. QED  BY <1>2, <1>3, <1>4 DEF RunSync

\* The sweep moves on, and the rows are still all right.
LEMMA SweepMoves ==
    ASSUME IInv, inst' \in Rows(today),
           sweep' \in [phase : {"idle", "synced", "activated"}, asOf : 0..Horizon],
           sweep'.asOf <= today,
           UNCHANGED <<person, config, today, owed>>, stale' \in BOOLEAN
    PROVE  IInv'
<1>1. inst' \in [Definition -> Instance]
  BY DEF Rows
<1>2. QED  BY <1>1 DEF IInv, TypeOK, person, config

LEMMA SweepStep ==
    ASSUME IInv, Sweep
    PROVE  IInv'
<1> DEFINE Phases == {"idle", "synced", "activated"}
<1>0. /\ inst \in Rows(today)
      /\ today \in 1..Horizon /\ Horizon \in Nat /\ today \in Nat
      /\ sweep \in [phase : Phases, asOf : 0..Horizon] /\ sweep.asOf <= today
      /\ serving \in BOOLEAN /\ stale \in BOOLEAN
  BY EngineAssumption DEF IInv, TypeOK, EngineAssumption, Date
<1>1. ASSUME NEW asOf \in Nat, asOf <= today, SweepSync(asOf)
      PROVE  IInv'
  <2>1. inst' \in Rows(today) /\ stale' \in BOOLEAN
    <3>1. CASE serving
      <4>1. inst' = sync_volunteer_requirements(inst, ctx, asOf) /\ stale' = FALSE
        BY <1>1, <3>1 DEF SweepSync, Sync
      <4>2. QED  BY <1>0, <4>1, InvFacts, SyncKeepsRows
    <3>2. CASE ~serving
      BY <1>0, <1>1, <3>2 DEF SweepSync
    <3>3. QED  BY <3>1, <3>2
  <2>2. sweep' \in [phase : Phases, asOf : 0..Horizon] /\ sweep'.asOf <= today
    BY <1>0, <1>1 DEF SweepSync
  <2>3. QED  BY <1>1, <2>1, <2>2, SweepMoves DEF SweepSync
<1>2. CASE nightly_sweep
  BY <1>0, <1>1, <1>2 DEF nightly_sweep
<1>3. CASE sweep_replayed
  BY <1>1, <1>3, EngineAssumption DEF sweep_replayed, EngineAssumption, Date
<1>4. CASE SweepActivate
  <2>1. inst' \in Rows(today)
    BY <1>0, <1>4, InvFacts, Turn18KeepsRows DEF SweepActivate
  <2>2. sweep' \in [phase : Phases, asOf : 0..Horizon] /\ sweep'.asOf <= today
    BY <1>0, <1>4 DEF SweepActivate
  <2>3. QED  BY <1>0, <1>4, <2>1, <2>2, SweepMoves DEF SweepActivate
<1>5. CASE recompute_all_statuses
  <2>1. inst' \in Rows(today)
    <3>1. CASE serving
      <4>1. inst' = [d \in Definition |-> recompute(inst[d], sweep.asOf)]
        BY <1>5, <3>1 DEF recompute_all_statuses
      <4>2. ASSUME NEW d \in Definition
            PROVE  /\ RowOK(recompute(inst[d], sweep.asOf), today)
                   /\ d \in Crc => ~recompute(inst[d], sweep.asOf).waived
        BY <1>0, InvFacts, RecomputeKeepsRow
      <4>3. \A d \in Definition : recompute(inst[d], sweep.asOf) \in Instance
        BY <4>2 DEF RowOK
      <4>4. QED  BY <4>1, <4>2, <4>3 DEF Rows
    <3>2. CASE ~serving
      BY <1>0, <1>5, <3>2 DEF recompute_all_statuses
    <3>3. QED  BY <3>1, <3>2
  <2>2. sweep' \in [phase : Phases, asOf : 0..Horizon] /\ sweep'.asOf <= today
    BY <1>0, <1>5 DEF recompute_all_statuses, NoDate
  <2>3. QED  BY <1>0, <1>5, <2>1, <2>2, SweepMoves DEF recompute_all_statuses
<1>6. CASE SweepFails
  <2>1. sweep' \in [phase : Phases, asOf : 0..Horizon] /\ sweep'.asOf <= today
    BY <1>0, <1>6 DEF SweepFails, NoDate
  <2>2. QED  BY <1>0, <1>6, <2>1, SweepMoves DEF SweepFails
<1>7. QED  BY <1>2, <1>3, <1>4, <1>5, <1>6 DEF Sweep, SweepGoesOn

LEMMA TickStep ==
    ASSUME IInv, Tick
    PROVE  IInv'
<1>0. today \in 1..Horizon /\ Horizon \in Nat /\ sweep.asOf \in Nat /\ sweep.asOf <= today
  BY EngineAssumption DEF IInv, TypeOK, EngineAssumption, Date
<1>1. today' = today + 1 /\ today' \in 1..Horizon
  BY <1>0 DEF Tick
<1>2. inst' \in Rows(today')
  <2>1. today \in Nat /\ today' \in Nat /\ today <= today'
    BY <1>0, <1>1
  <2>2. inst' = inst /\ inst \in Rows(today)
    BY DEF Tick, IInv
  <2>3. QED  BY <2>1, <2>2, RowsGrow
<1>3. QED  BY <1>0, <1>1, <1>2 DEF Tick, IInv, TypeOK, person, config

LEMMA InvStep == IInv /\ [Next]_vars => IInv'
<1> SUFFICES ASSUME IInv, [Next]_vars PROVE IInv'
  OBVIOUS
<1>1. CASE UNCHANGED vars
  BY <1>1 DEF vars, IInv, TypeOK
<1>2. QED
  BY <1>1, RecordStep, ChangePersonStep, ChangeConfigStep, RunSyncStep, SweepStep,
     TickStep DEF Next

LEMMA Invariance == Spec => []IInv
  BY InitInv, InvStep, PTL DEF Spec

-----------------------------------------------------------------------------
(* What follows for every church.                                            *)

\* The rows, the volunteer and the job stay within their types.
THEOREM EngineTypes == Spec => []TypeOK
<1>1. IInv => TypeOK
  BY DEF IInv
<1>2. QED  BY <1>1, Invariance, PTL

\* Nothing invents a completion, whatever the nightly recompute, a reversed waiver
\* or a role change makes of the row (RequirementInstance.recompute).
THEOREM CompletionsAreReal == Spec => []CompletionIsReal
<1>1. IInv => CompletionIsReal
  BY InvFacts DEF CompletionIsReal, RowOK, Instance, NoDate
<1>2. QED  BY <1>1, Invariance, PTL

\* No completion that is still valid is ever shown as owed or parked
\* (_reconcile_existing leaves completed history alone).
THEOREM CompletionsCount == Spec => []CurrentCompletionCounts
<1>1. IInv => CurrentCompletionCounts
  BY InvFacts DEF CurrentCompletionCounts, RowOK
<1>2. QED  BY <1>1, Invariance, PTL

\* Nothing that is settled carries a deadline, unless it reads complete although its
\* completion has run out: that a sweep for an earlier date may bring about, and
\* nothing else does (mark_complete, waive_requirement, recompute).
THEOREM SettledRowsHaveNoDeadline == Spec => []SettledRowHasNoDeadline
<1>1. IInv => SettledRowHasNoDeadline
  BY InvFacts DEF SettledRowHasNoDeadline, Outlived, RowOK
<1>2. QED  BY <1>1, Invariance, PTL

\* A row shows a waiver's details exactly while it is waived (reverse_waiver).
THEOREM WaiversAreShown == Spec => []WaiverShownIffWaived
<1>1. IInv => WaiverShownIffWaived
  BY InvFacts DEF WaiverShownIffWaived, RowOK
<1>2. QED  BY <1>1, Invariance, PTL

-----------------------------------------------------------------------------
(* What no pass over the list ever takes away.                               *)

\* Row j keeps what row i holds: that it was completed, and that it is waived.
RowPreserved(i, j) ==
    /\ i.completed # NoDate => j.completed # NoDate
    /\ i.status = "waived" => j.status = "waived"

Preserved(base, l) == \A d \in Definition : RowPreserved(base[d], l[d])

LEMMA SyncOnePreserves ==
    ASSUME NEW i, NEW l, NEW c, NEW asOf, NEW d, i = l[d], i \in Instance,
           i.status = "absent" => i.completed = NoDate
    PROVE  RowPreserved(i, SyncOne(l, c, asOf, d))
<1> DEFINE out == i.status \in outstanding_values
<1>1. out => RowPreserved(i, _hold_not_applicable(i))
  BY DEF RowPreserved, _hold_not_applicable, outstanding_values, Instance
<1>2. i.status = "not_applicable" => RowPreserved(i, _activate(l, c, d))
  BY DEF RowPreserved, _activate, Instance
<1>3. out => RowPreserved(i, _refresh_prerequisite_deadline(l, d))
  BY DEF RowPreserved, _refresh_prerequisite_deadline, outstanding_values, Instance
<1>4. RowPreserved(i, i)
  BY DEF RowPreserved
<1>5. i.status = "absent" => \A j : RowPreserved(i, j)
  BY DEF RowPreserved
<1>6. ASSUME NEW ageExempt, NEW blocked
      PROVE  RowPreserved(i, _reconcile_existing(l, c, d, ageExempt, blocked))
  <2> DEFINE result == _reconcile_existing(l, c, d, ageExempt, blocked)
  <2>1. \/ out /\ result = _hold_not_applicable(i)
        \/ i.status = "not_applicable" /\ result = _activate(l, c, d)
        \/ out /\ result = _refresh_prerequisite_deadline(l, d)
        \/ result = i
    BY DEF _reconcile_existing
  <2> HIDE DEF out, result
  <2>2. QED  BY <1>1, <1>2, <1>3, <1>4, <2>1 DEF result
<1> HIDE DEF out
<1>7. QED  BY <1>1, <1>4, <1>5, <1>6 DEF SyncOne, out

LEMMA SyncPreserves ==
    ASSUME NEW t \in Nat, NEW c \in Context, NEW asOf,
           NEW base \in Rows(t)
    PROVE  Preserved(base, sync_volunteer_requirements(base, c, asOf))
<1> DEFINE J == {l \in Rows(t) : Preserved(base, l)}
<1>1. base \in J
  BY DEF Preserved, RowPreserved
<1>2. ASSUME NEW l \in J, NEW d \in Definition
      PROVE  [l EXCEPT ![d] = SyncOne(l, c, asOf, d)] \in J
  <2> DEFINE m == [l EXCEPT ![d] = SyncOne(l, c, asOf, d)]
  <2>1. m \in Rows(t)
    BY SyncOneKeepsRows
  <2>2. RowPreserved(l[d], SyncOne(l, c, asOf, d))
    <3>1. l[d] \in Instance /\ (l[d].status = "absent" => l[d].completed = NoDate)
      BY DEF Rows, RowOK
    <3>2. QED  BY <3>1, SyncOnePreserves
  <2>3. Preserved(base, m)
    <3>1. ASSUME NEW e \in Definition PROVE RowPreserved(base[e], m[e])
      <4>1. RowPreserved(base[e], l[e])
        BY DEF Preserved
      <4>2. m[e] = IF e = d THEN SyncOne(l, c, asOf, d) ELSE l[e]
        BY DEF Rows
      <4>3. QED  BY <2>2, <4>1, <4>2 DEF RowPreserved
    <3>2. QED  BY <3>1 DEF Preserved
  <2>4. QED  BY <2>1, <2>3
<1>3. sync_volunteer_requirements(base, c, asOf) \in J
  <2> HIDE DEF J
  <2>1. QED  BY <1>1, <1>2, SyncKeeps
<1>4. QED  BY <1>3

LEMMA Turn18Preserves ==
    ASSUME NEW t \in Nat, NEW c \in Context, NEW asOf,
           NEW base \in Rows(t)
    PROVE  Preserved(base, activate_turning_18_checks(base, c, asOf))
<1> DEFINE J == {l \in Rows(t) : Preserved(base, l)}
<1>1. base \in J
  BY DEF Preserved, RowPreserved
<1>2. ASSUME NEW l \in J, NEW d \in Definition
      PROVE  [l EXCEPT ![d] = Turn18One(l, c, asOf, d)] \in J
  <2> DEFINE m == [l EXCEPT ![d] = Turn18One(l, c, asOf, d)]
  <2>0. /\ l \in [Definition -> Instance]
        /\ l[d] \in Instance /\ RowOK(l[d], t) /\ (d \in Crc => ~l[d].waived)
    BY DEF Rows
  <2>1. m \in Rows(t)
    <3>1. l[d].status = "not_applicable"
          => RowOK(_activate(l, c, d), t) /\ ~_activate(l, c, d).waived
      BY <2>0, ActivateKeepsRow
    <3>2. /\ RowOK(Turn18One(l, c, asOf, d), t)
          /\ d \in Crc => ~Turn18One(l, c, asOf, d).waived
      BY <2>0, <3>1 DEF Turn18One
    <3>3. QED  BY <3>2, ReplaceKeepsRows
  <2>2. RowPreserved(l[d], Turn18One(l, c, asOf, d))
    BY <2>0 DEF RowPreserved, Turn18One, _activate, Instance
  <2>3. Preserved(base, m)
    <3>1. ASSUME NEW e \in Definition PROVE RowPreserved(base[e], m[e])
      <4>1. RowPreserved(base[e], l[e])
        BY DEF Preserved
      <4>2. m[e] = IF e = d THEN Turn18One(l, c, asOf, d) ELSE l[e]
        BY DEF Rows
      <4>3. QED  BY <2>2, <4>1, <4>2 DEF RowPreserved
    <3>2. QED  BY <3>1 DEF Preserved
  <2>4. QED  BY <2>1, <2>3
<1>3. activate_turning_18_checks(base, c, asOf) \in J
  <2> HIDE DEF J
  <2>1. QED  BY <1>1, <1>2, Turn18Keeps
<1>4. QED  BY <1>3

\* Row d after row e was written and the rows behind it re-derived.
LEMMA WritePreserves ==
    ASSUME IInv, NEW e \in Definition, NEW i, RowOK(i, today),
           e \in Crc => ~i.waived, Write(e, i), NEW d \in Definition
    PROVE  RowPreserved(IF d = e THEN i ELSE inst[d], inst'[d])
<1> DEFINE written == [inst EXCEPT ![e] = i]
<1>1. written \in Rows(today)
  BY ReplaceKeepsRows DEF IInv
<1>2. written[d] = IF d = e THEN i ELSE inst[d]
  BY DEF IInv, TypeOK
<1>3. Preserved(written, inst')
  <2>1. inst' = refresh_dependents(written, ctx, today, e)
    BY DEF Write
  <2> HIDE DEF written
  <2>2. Preserved(written, sync_volunteer_requirements(written, ctx, today))
    BY <1>1, InvFacts, SyncPreserves
  <2>3. Preserved(written, written)
    BY DEF Preserved, RowPreserved
  <2>4. QED  BY <2>1, <2>2, <2>3 DEF refresh_dependents
<1> HIDE DEF written
<1>4. QED  BY <1>2, <1>3 DEF Preserved

LEMMA RecordPreserves ==
    ASSUME IInv, Record, NEW d \in Definition
    PROVE  /\ inst[d].completed # NoDate /\ inst'[d].completed = NoDate
                => record_crc_not_clear(d)
           /\ inst[d].status = "waived" /\ inst'[d].status # "waived" => reverse_waiver(d)
<1> USE InvFacts
<1>0. inst[d] \in Instance
  BY DEF RowOK
<1>1. ASSUME NEW e \in Definition, NEW date \in 1..Horizon,
             mark_requirement_complete(e, date)
      PROVE  RowPreserved(inst[d], inst'[d])
  <2> DEFINE i == mark_complete(inst[e], e, date)
  <2>1. date \in Date /\ date <= today /\ can_mark_complete(inst[e], e)
    BY <1>1 DEF mark_requirement_complete, Date
  <2>2. RowOK(i, today) /\ ~i.waived
    BY <2>1, CompleteKeepsRow
  <2>3. Write(e, i)
    BY <1>1 DEF mark_requirement_complete
  <2>4. i.completed # NoDate /\ inst[e].status # "waived"
    <3>1. inst[e] \in Instance
      BY DEF RowOK
    <3>2. QED  BY <2>1, <3>1 DEF mark_complete, can_mark_complete, Instance, Date, NoDate
  <2> HIDE DEF i
  <2>5. RowPreserved(IF d = e THEN i ELSE inst[d], inst'[d])
    BY <2>2, <2>3, WritePreserves
  <2>6. QED  BY <2>4, <2>5 DEF RowPreserved
<1>2. ASSUME NEW e \in Definition, start_requirement(e)
      PROVE  RowPreserved(inst[d], inst'[d])
  <2>1. inst'[d] = IF d = e THEN start(inst[d]) ELSE inst[d]
    BY <1>2 DEF start_requirement, IInv, TypeOK
  <2>2. QED  BY <1>0, <1>2, <2>1 DEF start_requirement, start, RowPreserved, Instance
<1>3. ASSUME NEW e \in Definition, waive_requirement(e)
      PROVE  RowPreserved(inst[d], inst'[d])
  <2> DEFINE i == waive(inst[e])
  <2>1. RowOK(i, today) /\ e \notin Crc
    BY <1>3, WaiveKeepsRow DEF waive_requirement
  <2>2. Write(e, i)
    BY <1>3 DEF waive_requirement
  <2>3. i.completed = inst[e].completed /\ i.status = "waived"
    <3>1. inst[e] \in Instance
      BY DEF RowOK
    <3>2. QED  BY <3>1 DEF waive, Instance
  <2> HIDE DEF i
  <2>4. RowPreserved(IF d = e THEN i ELSE inst[d], inst'[d])
    BY <2>1, <2>2, WritePreserves
  <2>5. QED  BY <2>3, <2>4 DEF RowPreserved
<1>4. ASSUME NEW e \in Definition, reverse_waiver(e)
      PROVE  /\ inst[d].completed # NoDate => inst'[d].completed # NoDate
             /\ e # d => RowPreserved(inst[d], inst'[d])
  <2> DEFINE i == unwaive(inst[e], today)
  <2>1. RowOK(i, today) /\ ~i.waived
    BY <1>4, UnwaiveKeepsRow DEF reverse_waiver
  <2>2. Write(e, i)
    BY <1>4 DEF reverse_waiver
  <2>3. i.completed = inst[e].completed
    <3>1. inst[e] \in Instance
      BY DEF RowOK
    <3>2. QED  BY <3>1 DEF unwaive, recompute, Instance
  <2> HIDE DEF i
  <2>4. RowPreserved(IF d = e THEN i ELSE inst[d], inst'[d])
    BY <2>1, <2>2, WritePreserves
  <2>5. QED  BY <2>3, <2>4 DEF RowPreserved
<1>5. ASSUME NEW e \in Definition, NEW date \in 1..Horizon, record_crc_cleared(e, date)
      PROVE  RowPreserved(inst[d], inst'[d])
  <2> DEFINE i == clear_crc(inst[e], date)
  <2>1. date \in Date /\ date <= today /\ ~inst[e].waived
    BY <1>5 DEF record_crc_cleared, IsCrcInstance, Date
  <2>2. RowOK(i, today) /\ ~i.waived
    BY <2>1, ClearKeepsRow
  <2>3. Write(e, i)
    BY <1>5 DEF record_crc_cleared
  <2>4. i.completed # NoDate /\ inst[e].status # "waived"
    <3>1. inst[e] \in Instance /\ (inst[e].waived <=> inst[e].status = "waived")
      BY DEF RowOK
    <3>2. QED  BY <2>1, <3>1 DEF clear_crc, Instance, Date, NoDate
  <2> HIDE DEF i
  <2>5. RowPreserved(IF d = e THEN i ELSE inst[d], inst'[d])
    BY <2>2, <2>3, WritePreserves
  <2>6. QED  BY <2>4, <2>5 DEF RowPreserved
<1>6. ASSUME NEW e \in Definition, record_crc_not_clear(e)
      PROVE  /\ e # d => RowPreserved(inst[d], inst'[d])
             /\ e = d => inst[d].status # "waived"
  <2> DEFINE i == block_crc(inst[e])
  <2>1. ~inst[e].waived /\ inst[e].status # "waived"
    <3>1. e \in Crc /\ (inst[e].waived <=> inst[e].status = "waived")
      BY <1>6 DEF record_crc_not_clear, IsCrcInstance, RowOK
    <3>2. QED  BY <3>1
  <2>2. RowOK(i, today) /\ ~i.waived
    BY <2>1, BlockKeepsRow
  <2>3. Write(e, i)
    BY <1>6 DEF record_crc_not_clear
  <2> HIDE DEF i
  <2>4. RowPreserved(IF d = e THEN i ELSE inst[d], inst'[d])
    BY <2>2, <2>3, WritePreserves
  <2>5. QED  BY <2>1, <2>4
<1>7. RowPreserved(inst[d], inst'[d]) \/ record_crc_not_clear(d)
      \/ (reverse_waiver(d) /\ (inst[d].completed # NoDate => inst'[d].completed # NoDate))
  BY <1>1, <1>2, <1>3, <1>4, <1>5, <1>6 DEF Record
<1>8. record_crc_not_clear(d) => inst[d].status # "waived"
  BY <1>6
<1>9. QED  BY <1>7, <1>8 DEF RowPreserved

\* Every other action preserves every row.
LEMMA OthersPreserve ==
    ASSUME IInv, ChangePerson \/ ChangeConfig \/ RunSync \/ Sweep \/ Tick
    PROVE  Preserved(inst, inst')
<1>0. inst \in Rows(today) /\ \A d \in Definition : inst[d] \in Instance
  BY InvFacts DEF IInv, RowOK
<1>1. Preserved(inst, inst)
  BY DEF Preserved, RowPreserved
<1>2. \A asOf : \A c \in Context : Preserved(inst, sync_volunteer_requirements(inst, c, asOf))
  BY <1>0, InvFacts, SyncPreserves
<1>3. CASE ChangePerson
  <2>1. ASSUME NEW r \in Role, assignment_end(r)
        PROVE  Preserved(inst, inst')
    <3> DEFINE c == [ctx EXCEPT !.roles = roles']
    <3>1. inst' = sync_volunteer_requirements(inst, c, today)
      BY <2>1 DEF assignment_end
    <3>2. c \in Context
      BY <2>1, InvFacts DEF assignment_end, Context, ctx
    <3> HIDE DEF c
    <3>3. QED  BY <1>2, <3>1, <3>2
  <2>2. QED
    BY <1>1, <1>3, <2>1 DEF ChangePerson, assignment_create, volunteer_edit,
       volunteer_deactivate, volunteer_reactivate
<1>4. CASE ChangeConfig
  BY <1>1, <1>4 DEF ChangeConfig, definition_toggle_active, definition_edit
<1>5. CASE RunSync
  BY <1>1, <1>2, <1>5, InvFacts DEF RunSync, _safe_sync, LoseSync, volunteer_resync, Sync
<1>6. CASE Sweep
  <2>1. CASE nightly_sweep \/ sweep_replayed
    BY <1>1, <1>2, <2>1, InvFacts DEF nightly_sweep, sweep_replayed, SweepSync, Sync
  <2>2. CASE SweepActivate
    BY <1>0, <1>1, <2>2, InvFacts, Turn18Preserves DEF SweepActivate
  <2>3. CASE recompute_all_statuses
    <3>1. ASSUME NEW d \in Definition PROVE RowPreserved(inst[d], recompute(inst[d], sweep.asOf))
      BY <1>0 DEF RowPreserved, recompute, Instance
    <3>2. QED  BY <1>1, <2>3, <3>1 DEF recompute_all_statuses, Preserved
  <2>4. CASE SweepFails
    BY <1>1, <2>4 DEF SweepFails
  <2>5. QED  BY <1>6, <2>1, <2>2, <2>3, <2>4 DEF Sweep, SweepGoesOn
<1>7. CASE Tick
  BY <1>1, <1>7 DEF Tick
<1>8. QED  BY <1>3, <1>4, <1>5, <1>6, <1>7

\* What one step can take from one row.
LEMMA StepKeepsRow ==
    ASSUME IInv, [Next]_vars, NEW d \in Definition
    PROVE  /\ inst[d].completed # NoDate /\ inst'[d].completed = NoDate
                => record_crc_not_clear(d)
           /\ inst[d].status = "waived" /\ inst'[d].status # "waived" => reverse_waiver(d)
<1>1. CASE Record
  BY <1>1, RecordPreserves
<1>2. CASE ChangePerson \/ ChangeConfig \/ RunSync \/ Sweep \/ Tick
  <2>1. Preserved(inst, inst')
    BY <1>2, OthersPreserve
  <2>2. QED  BY <2>1 DEF Preserved, RowPreserved
<1>3. CASE UNCHANGED vars
  BY <1>3 DEF vars
<1>4. QED  BY <1>1, <1>2, <1>3 DEF Next

\* Completed history is kept: role changes, ages, gates and sweeps never remove a
\* completion date (sync_volunteer_requirements, "completed history untouched").
THEOREM HistoryIsKept == Spec => HistoryKept
<1>1. IInv /\ [Next]_vars
      => [\A d \in Definition :
            inst[d].completed # NoDate /\ inst'[d].completed = NoDate
                => record_crc_not_clear(d)]_vars
  BY StepKeepsRow
<1>2. QED  BY <1>1, Invariance, PTL DEF Spec, HistoryKept

\* A waiver is a recorded decision and only its reversal takes it away: no sync,
\* sweep, completion or check overturns it (complete_backing_requirement).
THEOREM WaiversStand == Spec => DecisionsStand
<1>1. IInv /\ [Next]_vars
      => [\A d \in Definition :
            inst[d].status = "waived" /\ inst'[d].status # "waived"
                => reverse_waiver(d)]_vars
  BY StepKeepsRow
<1>2. QED  BY <1>1, Invariance, PTL DEF Spec, DecisionsStand

-----------------------------------------------------------------------------
(***************************************************************************)
(* Gates.  One pass settles every row for good when prerequisites come     *)
(* first: the row a gate looks at is written before the row behind it and  *)
(* not again in that pass.  The nightly activation, which does not look at *)
(* what it switches on in front of other rows, must then find nothing to   *)
(* do; that is the clause of GateInv about a sweep between its two steps.  *)
(***************************************************************************)

\* Row d is not owed while it waits.
Released(l, c, d) ==
    l[d].status \in outstanding_values /\ l[d].completed = NoDate
        => ~unmet_prerequisite(l, c, d)

\* Row d is parked for a reason.
ParkedRightly(l, c, asOf, d) ==
    l[d].status = "not_applicable" =>
        \/ ~applies_to_volunteer(c, d)
        \/ is_age_exempt(c, asOf, d)
        \/ unmet_prerequisite(l, c, d)

GatesRight(l, c, asOf) ==
    \A d \in c.active : Released(l, c, d) /\ ParkedRightly(l, c, asOf, d)

\* What a gate reads of the row it waits for.
LEMMA UnmetReads ==
    ASSUME NEW l, NEW m, NEW c, NEW d,
           d \in c.gated =>
              /\ m[MustFollow[d]].completed = l[MustFollow[d]].completed
              /\ \A s \in {"absent", "waived", "not_applicable"} :
                    m[MustFollow[d]].status = s <=> l[MustFollow[d]].status = s
    PROVE  unmet_prerequisite(m, c, d) <=> unmet_prerequisite(l, c, d)
  BY DEF unmet_prerequisite

\* The row an iteration writes is right, judged by the list it was derived from.
LEMMA SyncOneRight ==
    ASSUME NEW l \in List, NEW c \in Context, NEW asOf, NEW d \in Definition
    PROVE  LET i == SyncOne(l, c, asOf, d)
           IN  /\ i.status \in outstanding_values => ~unmet_prerequisite(l, c, d)
               /\ i.status = "not_applicable" =>
                     \/ ~applies_to_volunteer(c, d)
                     \/ is_age_exempt(c, asOf, d)
                     \/ unmet_prerequisite(l, c, d)
<1> DEFINE exempt == is_age_exempt(c, asOf, d)
           unmet == unmet_prerequisite(l, c, d)
           blocked == ~exempt /\ unmet
           i == SyncOne(l, c, asOf, d)
           Right(j) == /\ j.status \in outstanding_values => ~unmet
                       /\ j.status = "not_applicable" =>
                             ~applies_to_volunteer(c, d) \/ exempt \/ unmet
<1> SUFFICES Right(i)
  OBVIOUS
<1>1. l[d] \in Instance
  BY DEF List
<1>2. _hold_not_applicable(l[d]).status = "not_applicable"
  BY <1>1 DEF _hold_not_applicable, Instance
<1>3. _activate(l, c, d).status = "not_started"
  BY <1>1 DEF _activate, Instance
<1>4. _refresh_prerequisite_deadline(l, d).status = l[d].status
  BY <1>1 DEF _refresh_prerequisite_deadline, Instance
<1>5. Blank.status = "not_started" /\ [Blank EXCEPT !.status = "not_applicable"].status = "not_applicable"
  BY DEF Blank
<1>6. CASE ~applies_to_volunteer(c, d)
  BY <1>2, <1>6 DEF SyncOne, outstanding_values
<1>7. CASE applies_to_volunteer(c, d) /\ l[d].status = "absent"
  <2>1. i = IF exempt \/ blocked THEN [Blank EXCEPT !.status = "not_applicable"] ELSE Blank
    BY <1>7 DEF SyncOne
  <2> HIDE DEF exempt, unmet, i
  <2>2. QED  BY <1>5, <2>1 DEF outstanding_values
<1>8. CASE applies_to_volunteer(c, d) /\ l[d].status # "absent"
  <2>1. i = _reconcile_existing(l, c, d, exempt, blocked)
    BY <1>8 DEF SyncOne
  <2> HIDE DEF exempt, unmet, i
  <2>2. QED  BY <1>2, <1>3, <1>4, <2>1 DEF _reconcile_existing, outstanding_values
<1>9. QED  BY <1>6, <1>7, <1>8

\* One whole pass leaves every gate right for the day it was made for.
LEMMA SyncSettlesGates ==
    ASSUME PrerequisitesFirst, NEW list \in List, NEW c \in Context, NEW asOf
    PROVE  GatesRight(sync_volunteer_requirements(list, c, asOf), c, asOf)
<1> DEFINE n == Len(Order)
<1>1. /\ n \in Nat
      /\ \A k \in 1..n : Order[k] \in Definition
      /\ \A d \in Definition : \E k \in 1..n : Order[k] = d
  BY RequirementsAssumption DEF RequirementsAssumption
<1>2. ASSUME NEW k \in List, NEW d \in Definition
      PROVE  [k EXCEPT ![d] = SyncOne(k, c, asOf, d)] \in List
  <2>1. SyncOne(k, c, asOf, d) \in Instance
    BY <1>2, SyncOneIsInstance
  <2>2. QED  BY <1>2, <2>1 DEF List
<1>3. PICK f \in SyncRuns(List, list, c, asOf) :
        sync_volunteer_requirements(list, c, asOf) = f[Len(Order)]
  BY <1>2, SyncTrace
<1>4. /\ f \in [0..n -> List]
      /\ \A k \in 1..n : f[k] = IF Order[k] \notin c.active THEN f[k-1]
                                ELSE [f[k-1] EXCEPT ![Order[k]] = SyncOne(f[k-1], c, asOf, Order[k])]
  BY DEF SyncRuns
<1> DEFINE Done(k) == {d \in c.active : \E j \in 1..k : Order[j] = d}
           Right(k, d) == Released(f[k], c, d) /\ ParkedRightly(f[k], c, asOf, d)
           Good == {k \in 0..n : \A d \in Done(k) : Right(k, d)}
<1>5. 0 \in Good
  BY <1>1
<1>6. ASSUME NEW k \in 1..n, (k-1) \in Good
      PROVE  k \in Good
  <2> DEFINE e == Order[k]
  <2>1. /\ k-1 \in 0..n /\ k \in 0..n /\ e \in Definition
        /\ f[k-1] \in List /\ f[k] \in List
    BY <1>1, <1>4
  <2>2. \A d \in Done(k-1) : Right(k-1, d)
    BY <1>6
  <2>3. CASE e \notin c.active
    <3>1. f[k] = f[k-1]
      BY <1>4, <2>3
    <3>2. \A d \in Done(k) : d \in Done(k-1)
      <4>1. ASSUME NEW d \in c.active, NEW j \in 1..k, Order[j] = d
            PROVE  d \in Done(k-1)
        <5>1. j # k
          BY <2>3, <4>1
        <5>2. j \in 1..(k-1)
          BY <5>1
        <5>3. QED  BY <4>1, <5>2
      <4>2. QED  BY <4>1
    <3> HIDE DEF Done
    <3>3. \A d \in Done(k) : Right(k, d)
      BY <2>2, <3>1, <3>2
    <3>4. QED  BY <2>1, <3>3
  <2>4. CASE e \in c.active
    <3>1. f[k] = [f[k-1] EXCEPT ![e] = SyncOne(f[k-1], c, asOf, e)]
      BY <1>4, <2>4
    <3>2. f[k][e] = SyncOne(f[k-1], c, asOf, e) /\ \A d \in Definition \ {e} : f[k][d] = f[k-1][d]
      BY <2>1, <3>1 DEF List
    <3>3. ASSUME NEW d \in Done(k)
          PROVE  unmet_prerequisite(f[k], c, d) <=> unmet_prerequisite(f[k-1], c, d)
      <4>1. PICK j \in 1..k : Order[j] = d
        OBVIOUS
      <4>2. d \in c.gated => MustFollow[d] \in Definition
        BY RequirementsAssumption DEF RequirementsAssumption, Context, Gateable
      <4>3. d \in c.gated => MustFollow[d] # e
        <5>1. j \in 1..n /\ ~(k < j)
          BY <1>1
        <5>2. QED  BY <1>1, <4>1, <5>1 DEF PrerequisitesFirst
      <4> HIDE DEF e, Done
      <4>4. d \in c.gated => f[k][MustFollow[d]] = f[k-1][MustFollow[d]]
        BY <3>2, <4>2, <4>3
      <4>5. QED  BY <4>4, UnmetReads
    <3>4. ASSUME NEW d \in Done(k)
          PROVE  Right(k, d)
      <4>1. d \in c.active /\ d \in Definition
        BY DEF Context
      <4>2. CASE d = e
        <5>1. SyncOne(f[k-1], c, asOf, e).status \in outstanding_values
              => ~unmet_prerequisite(f[k-1], c, e)
          BY <2>1, SyncOneRight
        <5>2. SyncOne(f[k-1], c, asOf, e).status = "not_applicable" =>
                 \/ ~applies_to_volunteer(c, e)
                 \/ is_age_exempt(c, asOf, e)
                 \/ unmet_prerequisite(f[k-1], c, e)
          BY <2>1, SyncOneRight
        <5> HIDE DEF e, Done
        <5>3. QED  BY <3>2, <3>3, <4>2, <5>1, <5>2 DEF Released, ParkedRightly
      <4>3. CASE d # e
        <5>1. d \in Done(k-1)
          <6>1. PICK j \in 1..k : Order[j] = d
            OBVIOUS
          <6>2. j \in 1..(k-1)
            BY <4>3, <6>1
          <6>3. QED  BY <4>1, <6>1, <6>2
        <5> HIDE DEF e, Done
        <5>2. f[k][d] = f[k-1][d]
          BY <3>2, <4>1, <4>3
        <5>3. Right(k-1, d)
          BY <2>2, <5>1
        <5>4. QED  BY <3>3, <5>2, <5>3 DEF Released, ParkedRightly
      <4>4. QED  BY <4>2, <4>3
    <3> HIDE DEF Done, Right
    <3>5. QED  BY <2>1, <3>4
  <2>5. QED  BY <2>3, <2>4
<1>7. n \in Good
  <2> HIDE DEF Good
  <2>1. \A k \in 0..n : k \in Good
    BY <1>1, <1>5, <1>6, LoopInduction
  <2>2. QED  BY <1>1, <2>1
<1>8. \A d \in c.active : d \in Done(n)
  BY <1>1 DEF Context
<1>9. \A d \in c.active : Right(n, d)
  <2> HIDE DEF Done, Right
  <2>1. QED  BY <1>7, <1>8
<1>10. QED  BY <1>3, <1>9 DEF GatesRight

\* Whenever GateHolds speaks, and between the two steps of a sweep besides: nothing
\* is parked that the activation would switch on.
GateClause ==
    owed = 0 /\ ~stale =>
        /\ \A d \in active : Released(inst, ctx, d)
        /\ sweep.phase = "synced" /\ serving =>
              \A d \in active : ParkedRightly(inst, ctx, sweep.asOf, d)

GateInv == IInv /\ GateClause

\* Nobody is younger on a later day.
LEMMA ParkedEarlier ==
    ASSUME NEW l, NEW c \in Context, NEW t \in Nat, NEW asOf \in Nat, asOf <= t, NEW d,
           ParkedRightly(l, c, t, d)
    PROVE  ParkedRightly(l, c, asOf, d)
<1>1. c.adultFrom \in Nat
  BY DEF Context
<1>2. is_age_exempt(c, t, d) => is_age_exempt(c, asOf, d)
  BY <1>1 DEF is_age_exempt, is_adult_on
<1>3. QED  BY <1>2 DEF ParkedRightly

\* A step that ends in a pass over the list settles every gate; a sweep between its
\* two steps works for the day of the pass or an earlier one.
LEMMA GateBySync ==
    ASSUME PrerequisitesFirst, IInv, IInv', NEW l \in List, NEW asOf \in Nat,
           inst' = sync_volunteer_requirements(l, ctx, asOf), sweep'.asOf <= asOf,
           UNCHANGED <<roles, adultFrom, config>>
    PROVE  GateClause'
<1>1. ctx \in Context
  BY InvFacts
<1>2. ctx' = ctx /\ active' = active /\ ctx.active = active
  BY DEF ctx, config
<1>3. sweep'.asOf \in Nat
  BY DEF IInv, TypeOK
<1>4. GatesRight(inst', ctx, asOf)
  BY <1>1, SyncSettlesGates
<1>5. \A d \in active : Released(inst', ctx, d) /\ ParkedRightly(inst', ctx, asOf, d)
  BY <1>2, <1>4 DEF GatesRight
<1>6. \A d \in active : ParkedRightly(inst', ctx, sweep'.asOf, d)
  BY <1>1, <1>3, <1>5, ParkedEarlier
<1>7. QED  BY <1>2, <1>5, <1>6 DEF GateClause

\* The same of a pass for today that leaves the sweep where it was.
LEMMA GateByTodaysSync ==
    ASSUME PrerequisitesFirst, IInv, IInv', NEW l \in List,
           inst' = sync_volunteer_requirements(l, ctx, today),
           UNCHANGED <<person, config, sweep>>
    PROVE  GateClause'
<1>1. today \in Nat /\ sweep.asOf <= today
  BY InvFacts DEF IInv
<1>2. sweep'.asOf <= today /\ UNCHANGED <<roles, adultFrom, config>>
  BY <1>1 DEF person
<1>3. QED  BY <1>1, <1>2, GateBySync

\* A step that neither owes more, nor shuts a gate, nor puts a row behind one.
LEMMA GateByNothingNew ==
    ASSUME GateClause, UNCHANGED <<person, config>>,
           owed' = 0 /\ ~stale' => owed = 0 /\ ~stale,
           sweep'.phase = "synced" => sweep' = sweep,
           \A d \in active :
              /\ unmet_prerequisite(inst', ctx, d) <=> unmet_prerequisite(inst, ctx, d)
              /\ inst'[d].status \in outstanding_values /\ inst'[d].completed = NoDate
                    => inst[d].status \in outstanding_values /\ inst[d].completed = NoDate
              /\ inst'[d].status = "not_applicable" => inst[d].status = "not_applicable"
    PROVE  GateClause'
<1>1. ctx' = ctx /\ active' = active /\ serving' = serving
  BY DEF ctx, config, person
<1>2. SUFFICES ASSUME owed' = 0, ~stale'
      PROVE  /\ \A d \in active : Released(inst', ctx, d)
             /\ sweep'.phase = "synced" /\ serving =>
                   \A d \in active : ParkedRightly(inst', ctx, sweep'.asOf, d)
  BY <1>1 DEF GateClause
<1>3. \A d \in active : Released(inst', ctx, d)
  BY <1>2 DEF GateClause, Released
<1>4. ASSUME sweep'.phase = "synced", serving, NEW d \in active
      PROVE  ParkedRightly(inst', ctx, sweep'.asOf, d)
  <2>1. ParkedRightly(inst, ctx, sweep.asOf, d) /\ sweep' = sweep
    BY <1>2, <1>4 DEF GateClause
  <2>2. QED  BY <2>1 DEF ParkedRightly
<1>5. QED  BY <1>3, <1>4

\* A write that settles its own row, with the refresh of the rows behind it.
LEMMA GateByWrite ==
    ASSUME PrerequisitesFirst, GateInv, IInv', NEW d \in Definition, NEW i \in Instance,
           i.status \in {"complete", "waived"}, Write(d, i),
           UNCHANGED <<person, config, today, sweep>>,
           owed' = 0 /\ ~stale' => owed = 0 /\ ~stale
    PROVE  GateClause'
<1> DEFINE l == [inst EXCEPT ![d] = i]
<1>1. inst \in List /\ l \in List
  BY DEF GateInv, IInv, TypeOK, List
<1>2. CASE has_dependents(ctx, d)
  <2>1. inst' = sync_volunteer_requirements(l, ctx, today)
    BY <1>2 DEF Write, refresh_dependents
  <2> HIDE DEF l
  <2>2. QED  BY <1>1, <2>1, GateByTodaysSync DEF GateInv, person
<1>3. CASE ~has_dependents(ctx, d)
  <2>1. inst' = l
    BY <1>3 DEF Write, refresh_dependents
  <2>2. \A e \in Definition : inst'[e] = IF e = d THEN i ELSE inst[e]
    BY <1>1, <2>1 DEF List
  <2>3. ASSUME NEW e \in active
        PROVE  unmet_prerequisite(inst', ctx, e) <=> unmet_prerequisite(inst, ctx, e)
    <3>1. ctx \in Context /\ ctx.active = active
      BY InvFacts DEF GateInv, ctx
    <3>2. e \in ctx.gated => MustFollow[e] \in Definition /\ MustFollow[e] # d
      BY <1>3, <3>1, RequirementsAssumption
      DEF RequirementsAssumption, Context, Gateable, has_dependents
    <3>3. QED  BY <2>2, <3>2, UnmetReads
  <2>4. \A e \in active : e \in Definition
    BY DEF GateInv, IInv, TypeOK
  <2>5. QED  BY <2>2, <2>3, <2>4, GateByNothingNew DEF GateInv, outstanding_values
<1>4. QED  BY <1>2, <1>3

LEMMA RecordGates ==
    ASSUME PrerequisitesFirst, GateInv, IInv', Record
    PROVE  GateClause'
<1>0. /\ IInv /\ GateClause /\ inst \in List /\ owed \in Nat
      /\ \A d \in Definition : RowOK(inst[d], today) /\ inst[d] \in Instance
      /\ today \in Nat
  BY InvFacts DEF GateInv, IInv, TypeOK, List
<1>1. ASSUME NEW d \in Definition, NEW date \in 1..Horizon, mark_requirement_complete(d, date)
      PROVE  GateClause'
  <2> DEFINE i == mark_complete(inst[d], d, date)
  <2>1. date \in Date /\ date <= today /\ can_mark_complete(inst[d], d)
    BY <1>1 DEF mark_requirement_complete, Date
  <2>2. i \in Instance
    BY <1>0, <2>1, CompleteKeepsRow DEF RowOK
  <2>3. i.status = "complete"
    BY <1>0 DEF mark_complete, Instance
  <2> HIDE DEF i
  <2>4. Write(d, i)
    BY <1>1 DEF mark_requirement_complete, i
  <2>5. QED  BY <1>1, <2>2, <2>3, <2>4, GateByWrite DEF mark_requirement_complete
<1>2. ASSUME NEW d \in Definition, start_requirement(d)
      PROVE  GateClause'
  <2>1. /\ inst[d].status \in {"not_started", "overdue"}
        /\ \A e \in Definition : inst'[e] = IF e = d THEN start(inst[d]) ELSE inst[e]
    BY <1>0, <1>2 DEF start_requirement, List
  <2>2. /\ start(inst[d]).status \in {"in_progress", "overdue"}
        /\ start(inst[d]).completed = inst[d].completed
    BY <1>0, <2>1 DEF start, Instance
  <2>3. ASSUME NEW e \in active
        PROVE  unmet_prerequisite(inst', ctx, e) <=> unmet_prerequisite(inst, ctx, e)
    <3>1. e \in ctx.gated => MustFollow[e] \in Definition
      BY <1>0, InvFacts, RequirementsAssumption DEF RequirementsAssumption, Context, Gateable
    <3>2. QED  BY <2>1, <2>2, <3>1, UnmetReads
  <2>4. \A e \in active : e \in Definition
    BY <1>0 DEF IInv, TypeOK
  <2>5. QED
    BY <1>0, <1>2, <2>1, <2>2, <2>3, <2>4, GateByNothingNew
    DEF start_requirement, outstanding_values
<1>3. ASSUME NEW d \in Definition, waive_requirement(d)
      PROVE  GateClause'
  <2> DEFINE i == waive(inst[d])
  <2>1. i \in Instance /\ i.status = "waived"
    BY <1>0 DEF waive, Instance, Status, NoDate
  <2> HIDE DEF i
  <2>2. Write(d, i)
    BY <1>3 DEF waive_requirement, i
  <2>3. QED  BY <1>3, <2>1, <2>2, GateByWrite DEF waive_requirement
<1>4. ASSUME NEW d \in Definition, reverse_waiver(d)
      PROVE  GateClause'
  <2> DEFINE l == [inst EXCEPT ![d] = unwaive(inst[d], today)]
  <2>1. CASE has_dependents(ctx, d)
    <3>1. inst' = sync_volunteer_requirements(l, ctx, today)
      BY <1>4, <2>1 DEF reverse_waiver, Write, refresh_dependents
    <3>2. unwaive(inst[d], today) \in Instance
      BY <1>0, <1>4, UnwaiveKeepsRow DEF RowOK, reverse_waiver
    <3>3. l \in List
      BY <1>0, <3>2 DEF List
    <3> HIDE DEF l
    <3>4. QED  BY <1>0, <1>4, <3>1, <3>3, GateByTodaysSync DEF reverse_waiver, person
  <2>2. CASE ~has_dependents(ctx, d)
    BY <1>4, <2>2 DEF reverse_waiver, GateClause
  <2>3. QED  BY <2>1, <2>2
<1>5. ASSUME NEW d \in Definition, NEW date \in 1..Horizon, record_crc_cleared(d, date)
      PROVE  GateClause'
  <2> DEFINE i == clear_crc(inst[d], date)
  <2>1. date + CrcMonths \in Nat /\ date \in Nat
    BY RequirementsAssumption DEF RequirementsAssumption
  <2>2. i \in Instance /\ i.status = "complete"
    BY <1>0, <2>1 DEF clear_crc, Instance, Status, NoDate
  <2> HIDE DEF i
  <2>3. Write(d, i)
    BY <1>5 DEF record_crc_cleared, i
  <2>4. owed' = 0 /\ ~stale' => owed = 0 /\ ~stale
    BY <1>0, <1>5 DEF record_crc_cleared, Owe
  <2>5. QED  BY <1>5, <2>2, <2>3, <2>4, GateByWrite DEF record_crc_cleared
<1>6. ASSUME NEW d \in Definition, record_crc_not_clear(d)
      PROVE  GateClause'
  BY <1>0, <1>6 DEF record_crc_not_clear, Owe, GateClause
<1>7. QED  BY <1>1, <1>2, <1>3, <1>4, <1>5, <1>6 DEF Record

\* Whatever changes a person or the configuration either owes a sync or leaves the
\* list waiting for one.
LEMMA ChangeGates ==
    ASSUME GateInv, ChangePerson \/ ChangeConfig
    PROVE  GateClause'
<1>0. owed \in Nat /\ roles \in SUBSET Role /\ IsFiniteSet(Role)
  BY EngineAssumption DEF GateInv, IInv, TypeOK, EngineAssumption
<1>1. ASSUME NEW r \in Role, assignment_create(r) \/ assignment_end(r)
      PROVE  GateClause'
  BY <1>0, <1>1 DEF assignment_create, assignment_end, Owe, GateClause
<1>2. ASSUME NEW b \in BirthChoices, volunteer_edit(b)
      PROVE  GateClause'
  BY <1>0, <1>2 DEF volunteer_edit, Owe, GateClause
<1>3. ASSUME NEW e \in BOOLEAN, volunteer_deactivate(e)
      PROVE  GateClause'
  <2>1. roles \ roles' \in SUBSET Role
    BY <1>0
  <2>2. Cardinality(roles \ roles') \in Nat
    BY <1>0, <2>1, FS_Subset, FS_CardinalityType
  <2>3. owed' = owed + (1 + Cardinality(roles \ roles'))
    BY <1>3 DEF volunteer_deactivate, Owe
  <2>4. owed' # 0
    BY <1>0, <2>2, <2>3
  <2>5. QED  BY <2>4 DEF GateClause
<1>4. ASSUME volunteer_reactivate
      PROVE  GateClause'
  BY <1>0, <1>4 DEF volunteer_reactivate, Owe, GateClause
<1>5. ASSUME NEW d \in Editable, definition_toggle_active(d) \/ definition_edit(d)
      PROVE  GateClause'
  BY <1>5 DEF definition_toggle_active, definition_edit, GateClause
<1>6. QED  BY <1>1, <1>2, <1>3, <1>4, <1>5 DEF ChangePerson, ChangeConfig

LEMMA RunSyncGates ==
    ASSUME PrerequisitesFirst, GateInv, IInv', RunSync
    PROVE  GateClause'
<1>1. IInv /\ inst \in List
  BY DEF GateInv, IInv, TypeOK, List
<1>2. CASE _safe_sync
  BY <1>1, <1>2, GateByTodaysSync DEF _safe_sync, Sync
<1>3. CASE LoseSync
  BY <1>3 DEF LoseSync, GateClause
<1>4. CASE volunteer_resync
  BY <1>1, <1>4, GateByTodaysSync DEF volunteer_resync, Sync
<1>5. QED  BY <1>2, <1>3, <1>4 DEF RunSync

\* In a list whose rows are parked rightly the nightly activation changes nothing.
LEMMA NothingToActivate ==
    ASSUME NEW l \in List, NEW c, NEW asOf, \A d \in c.active : ParkedRightly(l, c, asOf, d)
    PROVE  activate_turning_18_checks(l, c, asOf) = l
<1>1. ASSUME NEW d \in Definition
      PROVE  [l EXCEPT ![d] = Turn18One(l, c, asOf, d)] = l
  <2>1. Turn18One(l, c, asOf, d) = l[d]
    BY DEF Turn18One, ParkedRightly, is_age_exempt
  <2>2. QED  BY <2>1 DEF List
<1>2. \A k \in {l}, d \in Definition : [k EXCEPT ![d] = Turn18One(k, c, asOf, d)] \in {l}
  BY <1>1
<1>3. activate_turning_18_checks(l, c, asOf) \in {l}
  BY <1>2, Turn18Keeps
<1>4. QED  BY <1>3

LEMMA SweepGates ==
    ASSUME PrerequisitesFirst, GateInv, IInv', Sweep
    PROVE  GateClause'
<1>0. /\ IInv /\ GateClause /\ inst \in List /\ ctx \in Context /\ active \subseteq Definition
      /\ \A d \in Definition : RowOK(inst[d], today) /\ inst[d] \in Instance
  BY InvFacts DEF GateInv, IInv, TypeOK, List
<1>1. CASE nightly_sweep \/ sweep_replayed
  <2>1. PICK asOf \in Nat : SweepSync(asOf)
    BY <1>1, InvFacts, EngineAssumption
    DEF nightly_sweep, sweep_replayed, EngineAssumption, Date, GateInv
  <2>2. CASE serving
    BY <1>0, <2>1, <2>2, GateBySync DEF SweepSync, Sync, person
  <2>3. CASE ~serving
    <3>1. inst' = inst /\ ctx' = ctx /\ active' = active /\ ~serving'
      BY <2>1, <2>3 DEF SweepSync, person, config, ctx
    <3>2. owed' = owed /\ stale' = stale
      BY <2>1, <2>3 DEF SweepSync
    <3>3. QED  BY <1>0, <3>1, <3>2 DEF GateClause
  <2>4. QED  BY <2>2, <2>3
<1>2. CASE SweepActivate
  <2>1. owed' = 0 /\ ~stale' => inst' = inst
    <3>1. owed' = owed /\ stale' = stale /\ sweep.phase = "synced"
      BY <1>2 DEF SweepActivate
    <3>2. CASE owed = 0 /\ ~stale /\ serving
      <4>1. \A d \in ctx.active : ParkedRightly(inst, ctx, sweep.asOf, d)
        BY <1>0, <3>1, <3>2 DEF GateClause, ctx
      <4>2. inst' = activate_turning_18_checks(inst, ctx, sweep.asOf)
        BY <1>2, <3>2 DEF SweepActivate
      <4>3. QED  BY <1>0, <4>1, <4>2, NothingToActivate
    <3>3. CASE ~serving
      BY <1>2, <3>3 DEF SweepActivate
    <3>4. QED  BY <3>1, <3>2, <3>3
  <2>2. sweep'.phase # "synced"
    BY <1>2 DEF SweepActivate, IInv, TypeOK, GateInv
  <2>3. ctx' = ctx /\ active' = active /\ owed' = owed /\ stale' = stale
    BY <1>2 DEF SweepActivate, person, config, ctx
  <2>4. QED  BY <1>0, <2>1, <2>2, <2>3 DEF GateClause
<1>3. CASE recompute_all_statuses
  <2>1. ASSUME NEW d \in Definition
        PROVE  /\ inst'[d].completed = inst[d].completed
               /\ \A s \in {"absent", "waived", "not_applicable"} :
                     inst'[d].status = s <=> inst[d].status = s
               /\ inst'[d].status \in outstanding_values /\ inst'[d].completed = NoDate
                     => inst[d].status \in outstanding_values
    <3>1. inst'[d] \in {inst[d], recompute(inst[d], sweep.asOf)}
      BY <1>3 DEF recompute_all_statuses
    <3>2. inst[d] \in Instance /\ (inst[d].status = "complete" => inst[d].completed # NoDate)
      BY <1>0 DEF RowOK
    <3>3. QED  BY <3>1, <3>2 DEF recompute, Instance, outstanding_values
  <2>2. ASSUME NEW d \in active
        PROVE  unmet_prerequisite(inst', ctx, d) <=> unmet_prerequisite(inst, ctx, d)
    <3>1. d \in ctx.gated => MustFollow[d] \in Definition
      BY <1>0, RequirementsAssumption DEF RequirementsAssumption, Context, Gateable
    <3>2. QED  BY <2>1, <3>1, UnmetReads
  <2>3. sweep'.phase # "synced" /\ owed' = owed /\ stale' = stale
    BY <1>3 DEF recompute_all_statuses
  <2>4. UNCHANGED <<person, config>>
    BY <1>3 DEF recompute_all_statuses
  <2>5. QED  BY <1>0, <2>1, <2>2, <2>3, <2>4, GateByNothingNew
<1>4. CASE SweepFails
  BY <1>0, <1>4, GateByNothingNew DEF SweepFails
<1>5. QED  BY <1>1, <1>2, <1>3, <1>4 DEF Sweep, SweepGoesOn

LEMMA GateInvariance == ASSUME PrerequisitesFirst PROVE Spec => []GateInv
<1>1. Init => GateInv
  BY InitInv DEF Init, GateInv, GateClause
<1>2. IInv /\ [Next]_vars => IInv'
  BY InvStep
<1>3. GateInv /\ [Next]_vars => GateInv'
  <2> SUFFICES ASSUME GateInv, [Next]_vars PROVE GateClause'
    BY <1>2 DEF GateInv
  <2>1. IInv'
    BY <1>2 DEF GateInv
  <2>2. CASE Record
    BY <2>1, <2>2, RecordGates
  <2>3. CASE ChangePerson \/ ChangeConfig
    BY <2>3, ChangeGates
  <2>4. CASE RunSync
    BY <2>1, <2>4, RunSyncGates
  <2>5. CASE Sweep
    BY <2>1, <2>5, SweepGates
  <2>6. CASE Tick \/ UNCHANGED vars
    BY <2>6, GateByNothingNew DEF Tick, vars, person, config, GateInv
  <2>7. QED  BY <2>2, <2>3, <2>4, <2>5, <2>6 DEF Next
<1>4. QED  BY <1>1, <1>3, PTL DEF Spec

\* Once the owed syncs have run, no gated requirement is owed ahead of its
\* prerequisite (unmet_prerequisite, refresh_dependents): in a church that numbers
\* prerequisites first, whatever is recorded, lost, swept or half swept in between.
THEOREM GateHoldsInOrder == ASSUME PrerequisitesFirst PROVE Spec => []GateHolds
<1>1. GateInv => GateHolds
  BY DEF GateInv, GateClause, GateHolds, GateLeaks, Released
<1>2. QED  BY <1>1, GateInvariance, PTL
===============================================================================
