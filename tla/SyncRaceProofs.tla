---------------------------- MODULE SyncRaceProofs ----------------------------
(***************************************************************************)
(* One volunteer's rows under racing writers, for any number of workers,   *)
(* definitions and days.  Whatever a worker loaded may be long replaced by *)
(* the time it saves; what makes that harmless is that a completion, once  *)
(* on file, is never taken off again, and that its date and its renewal    *)
(* are always saved together.                                              *)
(***************************************************************************)
EXTENDS SyncRace, RequirementsProofs

\* The columns a pass or a night never saves.
Recorded == {"completed", "expires", "started", "waived"}

RowFine(i, d, t) ==
    /\ i \in Instance
    /\ i.completed <= t
    /\ i.status = "complete" => i.completed # NoDate
    /\ i.status = "absent" => i.completed = NoDate
    /\ i.completed # NoDate => i.expires = expiry_for(d, i.completed)

Fine(t) == {l \in List : \A d \in Definition : RowFine(l[d], d, t)}

\* What somebody read of a row that has been saved since: a completion stays on file.
Behind(object, row) == object.completed # NoDate => row.completed # NoDate

Job == [on : {"nothing", "request", "sync", "recompute"}, rows : List,
        roles : SUBSET Role, asOf : Nat, todo : SUBSET Definition]

RaceInv ==
    /\ today \in Date
    /\ roles \in SUBSET Role
    /\ rows \in Fine(today)
    /\ job \in [Worker -> Job]
    /\ \A w \in Worker :
          /\ job[w].rows \in Fine(today)
          /\ \A d \in Definition : Behind(job[w].rows[d], rows[d])

-----------------------------------------------------------------------------
(* Saving.                                                                   *)

LEMMA SaveColumns ==
    ASSUME NEW row \in Instance, NEW object \in Instance, NEW fields
    PROVE  /\ save(row, object, fields) \in Instance
           /\ \A c \in {"status", "started", "completed", "expires", "due", "waived"} :
                 save(row, object, fields)[c] = IF c \in fields THEN object[c] ELSE row[c]
<1> DEFINE pick(c) == IF c \in fields THEN object[c] ELSE row[c]
           new == [status |-> pick("status"), started |-> pick("started"),
                   completed |-> pick("completed"), expires |-> pick("expires"),
                   due |-> pick("due"), waived |-> pick("waived")]
<1>1. DOMAIN row = {"status", "started", "completed", "expires", "due", "waived"}
  BY DEF Instance
<1>2. save(row, object, fields) = [c \in DOMAIN row |-> pick(c)]
  BY DEF save
<1>3. new \in Instance
  BY DEF Instance
<1>4. save(row, object, fields) = new
  BY <1>1, <1>2
<1>5. QED  BY <1>1, <1>2, <1>3, <1>4

\* A save that leaves the recorded columns alone and no status but a plausible one.
LEMMA SaveKeepsFine ==
    ASSUME NEW d \in Definition, NEW t \in Nat, NEW row, RowFine(row, d, t),
           NEW object \in Instance, NEW fields \in SUBSET {"status", "due", "started", "waived"},
           "status" \in fields =>
              /\ object.status # "absent"
              /\ object.status = "complete" => object.completed # NoDate,
           Behind(object, row)
    PROVE  /\ RowFine(save(row, object, fields), d, t)
           /\ save(row, object, fields).completed = row.completed
<1> DEFINE new == save(row, object, fields)
<1>1. row \in Instance
  BY DEF RowFine
<1>2. /\ new \in Instance
      /\ new.completed = row.completed /\ new.expires = row.expires
      /\ new.status = IF "status" \in fields THEN object.status ELSE row.status
  BY <1>1, SaveColumns
<1> HIDE DEF new
<1>3. QED  BY <1>2 DEF RowFine, Behind, new

-----------------------------------------------------------------------------
(* A turn of the pass.                                                       *)

\* What a turn does to a row that is there, and to one that is not.
LEMMA SyncOneTurns ==
    ASSUME NEW l \in List, NEW c \in Context, NEW asOf, NEW d \in Definition
    PROVE  LET i == SyncOne(l, c, asOf, d)
           IN  /\ i \in Instance
               /\ i.status \in {l[d].status, "not_started", "not_applicable"}
               /\ l[d].status # "absent" =>
                     /\ i.completed = l[d].completed /\ i.expires = l[d].expires
                     /\ i.started = l[d].started /\ i.waived = l[d].waived
               /\ l[d].status = "absent" /\ i # l[d] =>
                     i.completed = NoDate /\ i.status # "absent"
<1> DEFINE exempt == is_age_exempt(c, asOf, d)
           blocked == ~exempt /\ unmet_prerequisite(l, c, d)
           Kept(i) == /\ i.status \in {l[d].status, "not_started", "not_applicable"}
                      /\ i.completed = l[d].completed /\ i.expires = l[d].expires
                      /\ i.started = l[d].started /\ i.waived = l[d].waived
<1>1. l[d] \in Instance
  BY DEF List
<1>2. Kept(l[d]) /\ Kept(_hold_not_applicable(l[d])) /\ Kept(_activate(l, c, d))
  BY <1>1 DEF _hold_not_applicable, _activate, Instance
<1>3. Kept(_refresh_prerequisite_deadline(l, d))
  BY <1>1 DEF _refresh_prerequisite_deadline, Instance
<1>4. Kept(_reconcile_existing(l, c, d, exempt, blocked))
  <2> HIDE DEF Kept, exempt, blocked
  <2>1. QED  BY <1>2, <1>3 DEF _reconcile_existing
<1>5. /\ Blank.status = "not_started" /\ Blank.completed = NoDate
      /\ [Blank EXCEPT !.status = "not_applicable"].status = "not_applicable"
      /\ [Blank EXCEPT !.status = "not_applicable"].completed = NoDate
  BY DEF Blank
<1>6. SyncOne(l, c, asOf, d) \in Instance
  BY SyncOneIsInstance
<1>7. CASE l[d].status # "absent"
  <2>1. SyncOne(l, c, asOf, d) \in
           {l[d], _hold_not_applicable(l[d]), _reconcile_existing(l, c, d, exempt, blocked)}
    BY <1>7 DEF SyncOne
  <2> HIDE DEF Kept, exempt, blocked
  <2>2. Kept(SyncOne(l, c, asOf, d))
    BY <1>2, <1>4, <2>1
  <2>3. QED  BY <1>6, <1>7, <2>2 DEF Kept
<1>8. CASE l[d].status = "absent"
  <2>1. SyncOne(l, c, asOf, d) \in {l[d], Blank, [Blank EXCEPT !.status = "not_applicable"]}
    BY <1>8 DEF SyncOne, outstanding_values
  <2>2. QED  BY <1>5, <1>6, <1>8, <2>1
<1>9. QED  BY <1>7, <1>8

LEMMA SyncOneFine ==
    ASSUME NEW t \in Nat, NEW c \in Context, NEW asOf, NEW l \in Fine(t), NEW d \in Definition
    PROVE  [l EXCEPT ![d] = SyncOne(l, c, asOf, d)] \in Fine(t)
<1> DEFINE i == SyncOne(l, c, asOf, d)
<1>1. l \in List /\ RowFine(l[d], d, t)
  BY DEF Fine
<1>2. /\ i \in Instance
      /\ i.status \in {l[d].status, "not_started", "not_applicable"}
      /\ l[d].status # "absent" => i.completed = l[d].completed /\ i.expires = l[d].expires
      /\ l[d].status = "absent" /\ i # l[d] => i.completed = NoDate /\ i.status # "absent"
  BY <1>1, SyncOneTurns
<1> HIDE DEF i
<1>3. RowFine(i, d, t)
  BY <1>1, <1>2 DEF RowFine, NoDate
<1>4. [l EXCEPT ![d] = i] \in Fine(t)
  BY <1>1, <1>2, <1>3 DEF Fine, List
<1>5. QED  BY <1>4 DEF i

\* A whole pass keeps the rows fine and every completion on file.
LEMMA PassIsFine ==
    ASSUME NEW t \in Nat, NEW c \in Context, NEW asOf, NEW l \in Fine(t)
    PROVE  /\ sync_volunteer_requirements(l, c, asOf) \in Fine(t)
           /\ \A d \in Definition :
                 sync_volunteer_requirements(l, c, asOf)[d].completed = l[d].completed
<1>1. sync_volunteer_requirements(l, c, asOf) \in Fine(t)
  BY SyncOneFine, SyncKeeps
<1>2. l \in List /\ NoRowNoDate(l)
  BY DEF Fine, RowFine, NoRowNoDate
<1>3. sync_volunteer_requirements(l, c, asOf) \in Keeping(l)
  BY <1>2, SyncKeepsFile
<1>4. QED  BY <1>1, <1>3 DEF Keeping

-----------------------------------------------------------------------------
(* The pass over objects loaded earlier.                                     *)

\* One turn of it, as in Synced.
Turn(l, loaded, r, asOf, d) ==
    LET after == SyncOne([l EXCEPT ![d] = loaded[d]], ctx(r), asOf, d)
    IN  [l EXCEPT ![d] = save(@, after, SyncFields(loaded[d], after))]

LEMMA SyncedKeeps ==
    ASSUME NEW J, NEW list \in J, NEW loaded, NEW r, NEW asOf,
           \A l \in J, d \in Definition : Turn(l, loaded, r, asOf, d) \in J
    PROVE  Synced(list, loaded, r, asOf) \in J
<1> DEFINE n == Len(Order)
           step == [k \in 1..n |-> [l \in J |-> Turn(l, loaded, r, asOf, Order[k])]]
           turn(l, d) ==
             LET after == SyncOne([l EXCEPT ![d] = loaded[d]], ctx(r), asOf, d)
             IN  [l EXCEPT ![d] = save(@, after, SyncFields(loaded[d], after))]
           upto[k \in 0..Len(Order)] == IF k = 0 THEN list ELSE turn(upto[k-1], Order[k])
<1>1. n \in Nat /\ \A k \in 1..n : Order[k] \in Definition
  BY RequirementsAssumption DEF RequirementsAssumption
<1>2. \A l, d : turn(l, d) = Turn(l, loaded, r, asOf, d)
  BY DEF Turn
<1> HIDE DEF turn
<1>3. step \in [1..n -> [J -> J]]
  <2> HIDE DEF n
  <2>1. QED  BY <1>1
<1>4. PICK f \in [0..n -> J] : f[0] = list /\ \A k \in 1..n : f[k] = step[k][f[k-1]]
  <2>1. Runs(n, J, list, step) # {}
    <3> HIDE DEF step, n, upto
    <3>1. QED  BY <1>1, <1>3, LoopExists
  <2>2. PICK f \in Runs(n, J, list, step) : TRUE
    BY <2>1
  <2> HIDE DEF step, n, upto
  <2>3. f \in [0..n -> J] /\ f[0] = list /\ \A k \in 1..n : f[k] = step[k][f[k-1]]
    BY DEF Runs
  <2>4. QED  BY <2>3
<1>5. f = [k \in 0..Len(Order) |-> IF k = 0 THEN list ELSE turn(f[k-1], Order[k])]
  <2>1. ASSUME NEW k \in 0..n, k # 0
        PROVE  f[k] = turn(f[k-1], Order[k])
    <3>1. k \in 1..n /\ k-1 \in 0..n
      BY <1>1, <2>1
    <3> HIDE DEF n
    <3>2. f[k-1] \in J
      BY <3>1
    <3>3. QED  BY <1>2, <1>4, <3>1, <3>2
  <2>2. QED  BY <1>4, <2>1
<1>6. upto = [k \in 0..Len(Order) |-> IF k = 0 THEN list ELSE turn(upto[k-1], Order[k])]
  BY <1>5
<1>7. \A k \in 0..n : upto[k] \in J
  <2> DEFINE Good == {k \in 0..n : upto[k] \in J}
  <2>1. upto[0] = list /\ \A k \in 1..n : upto[k] = turn(upto[k-1], Order[k])
    <3>1. 0 \in 0..Len(Order) /\ \A k \in 1..n : k \in 0..Len(Order) /\ k # 0
      BY <1>1
    <3> HIDE DEF upto
    <3>2. QED  BY <1>6, <3>1
  <2> HIDE DEF upto, n
  <2>2. 0 \in Good
    BY <1>1, <2>1
  <2>3. ASSUME NEW k \in 1..n, (k-1) \in Good
        PROVE  k \in Good
    <3>1. k \in 0..n /\ upto[k-1] \in J
      BY <1>1, <2>3
    <3>2. upto[k] \in J
      BY <1>1, <1>2, <2>1, <3>1
    <3>3. QED  BY <3>1, <3>2
  <2>4. \A k \in 0..n : k \in Good
    <3> HIDE DEF Good
    <3>1. QED  BY <1>1, <2>2, <2>3, LoopInduction
  <2>5. QED  BY <2>4
<1>8. Synced(list, loaded, r, asOf) = upto[n]
  BY DEF Synced, turn
<1>9. QED
  <2>1. n \in 0..n
    BY <1>1
  <2> HIDE DEF upto, n
  <2>2. QED  BY <1>7, <1>8, <2>1

\* The lists with a fine row for d that records what the old one did.
Resaved(l, d, t) ==
    {[l EXCEPT ![d] = row] : row \in {i \in Instance : /\ RowFine(i, d, t)
                                                    /\ \A c \in Recorded : i[c] = l[d][c]}}

\* A turn saves a status with its deadline, or a deadline, or nothing.
LEMMA TurnSaves ==
    ASSUME NEW t \in Nat, NEW l \in Fine(t), NEW loaded \in Fine(t),
           NEW r \in SUBSET Role, NEW asOf, NEW d \in Definition,
           Behind(loaded[d], l[d])
    PROVE  Turn(l, loaded, r, asOf, d) \in Resaved(l, d, t)
<1> DEFINE mixed == [l EXCEPT ![d] = loaded[d]]
           after == SyncOne(mixed, ctx(r), asOf, d)
           fields == SyncFields(loaded[d], after)
           row == save(l[d], after, fields)
<1>1. /\ l \in List /\ mixed \in List /\ mixed[d] = loaded[d]
      /\ RowFine(l[d], d, t) /\ RowFine(loaded[d], d, t)
      /\ l[d] \in Instance
  BY DEF Fine, List, RowFine
<1>2. ctx(r) \in Context
  <2>1. \/ AdultFrom \in Nat
    BY SyncRaceAssumption DEF SyncRaceAssumption
  <2>2. QED  BY <2>1 DEF ctx, Context, Gateable
<1>3. /\ after \in Instance
      /\ after.status \in {loaded[d].status, "not_started", "not_applicable"}
      /\ loaded[d].status # "absent" => after.completed = loaded[d].completed
      /\ loaded[d].status = "absent" /\ after # loaded[d] =>
            after.completed = NoDate /\ after.status # "absent"
  <2> HIDE DEF mixed
  <2>1. QED  BY <1>1, <1>2, SyncOneTurns
<1>4. fields \in SUBSET {"status", "due"}
  BY DEF SyncFields
<1>5. Turn(l, loaded, r, asOf, d) = [l EXCEPT ![d] = row]
  BY DEF Turn
<1> HIDE DEF mixed, after
<1>6. Behind(after, l[d])
  BY <1>1, <1>3 DEF Behind, RowFine
<1>7. "status" \in fields =>
         /\ after.status # "absent"
         /\ after.status = "complete" => after.completed # NoDate
  BY <1>1, <1>3 DEF SyncFields, RowFine
<1> HIDE DEF fields
<1>8. RowFine(row, d, t)
  BY <1>1, <1>3, <1>4, <1>6, <1>7, SaveKeepsFine
<1>9. \A c \in Recorded : row[c] = l[d][c]
  BY <1>1, <1>3, <1>4, SaveColumns DEF Recorded
<1> HIDE DEF row
<1>10. row \in Instance
  BY <1>8 DEF RowFine
<1>11. QED  BY <1>5, <1>8, <1>9, <1>10 DEF Resaved

\* Whatever it had loaded, the pass leaves what was recorded as it is.
SameRecord(list) == {l \in List : \A d \in Definition : \A c \in Recorded : l[d][c] = list[d][c]}

LEMMA SyncedLeavesRecords ==
    ASSUME NEW t \in Nat, NEW list \in Fine(t), NEW loaded \in Fine(t),
           NEW r \in SUBSET Role, NEW asOf,
           \A d \in Definition : Behind(loaded[d], list[d])
    PROVE  Synced(list, loaded, r, asOf) \in Fine(t) \cap SameRecord(list)
<1> DEFINE J == Fine(t) \cap SameRecord(list)
<1>1. list \in J
  BY DEF Fine, SameRecord
<1>2. ASSUME NEW l \in J, NEW d \in Definition
      PROVE  Turn(l, loaded, r, asOf, d) \in J
  <2>1. l \in Fine(t) /\ l \in List /\ \A e \in Definition : \A c \in Recorded : l[e][c] = list[e][c]
    BY DEF SameRecord
  <2>2. Behind(loaded[d], l[d])
    BY <2>1 DEF Behind, Recorded
  <2> HIDE DEF J
  <2>3. PICK row \in Instance : /\ Turn(l, loaded, r, asOf, d) = [l EXCEPT ![d] = row]
                               /\ RowFine(row, d, t)
                               /\ \A c \in Recorded : row[c] = l[d][c]
    <3>1. Turn(l, loaded, r, asOf, d) \in Resaved(l, d, t)
      BY <2>1, <2>2, TurnSaves
    <3>2. QED  BY <3>1 DEF Resaved
  <2>4. row \in Instance
    BY <2>3 DEF RowFine
  <2>5. [l EXCEPT ![d] = row] \in Fine(t)
    BY <2>1, <2>3, <2>4 DEF Fine, List
  <2>6. [l EXCEPT ![d] = row] \in SameRecord(list)
    BY <2>1, <2>3, <2>4 DEF SameRecord, List
  <2>7. QED  BY <2>3, <2>5, <2>6 DEF J
<1> HIDE DEF J
<1>3. Synced(list, loaded, r, asOf) \in J
  BY <1>1, <1>2, SyncedKeeps
<1>4. QED  BY <1>3 DEF J

-----------------------------------------------------------------------------
(* The invariant.                                                            *)

LEMMA NothingIsFine ==
    ASSUME NEW t \in Nat
    PROVE  /\ [d \in Definition |-> Absent] \in Fine(t)
           /\ Absent.completed = NoDate
           /\ Nothing \in Job
<1>1. Absent \in Instance
  BY BlankIsInstance
<1>2. Absent.status = "absent" /\ Absent.completed = NoDate
  BY DEF Absent, Blank
<1>3. \A d \in Definition : RowFine(Absent, d, t)
  BY <1>1, <1>2 DEF RowFine, NoDate
<1>4. [d \in Definition |-> Absent] \in Fine(t)
  BY <1>1, <1>3 DEF Fine, List
<1>5. Nothing \in Job
  BY <1>1 DEF Nothing, Job, List, NoDate
<1>6. QED  BY <1>2, <1>4, <1>5

\* Rows may age.
LEMMA FineLater ==
    ASSUME NEW t \in Nat, NEW u \in Nat, t <= u, NEW l \in Fine(t)
    PROVE  l \in Fine(u)
  BY DEF Fine, RowFine, Instance

LEMMA RaceInit == Init => RaceInv
<1> SUFFICES ASSUME Init PROVE RaceInv
  OBVIOUS
<1> DEFINE none == [d \in Definition |-> Absent]
<1>1. today = 1 /\ today \in Date /\ roles = Role /\ roles \in SUBSET Role
  BY DEF Init, Date
<1>2. ctx(roles) \in Context
  BY <1>1, SyncRaceAssumption DEF ctx, Context, Gateable, SyncRaceAssumption
<1>3. none \in Fine(1) /\ Nothing \in Job
  BY NothingIsFine
<1>4. rows \in Fine(1)
  <2>1. rows = sync_volunteer_requirements(none, ctx(roles), today)
    BY DEF Init
  <2> HIDE DEF none
  <2>2. QED  BY <1>2, <1>3, <2>1, PassIsFine
<1>5. \A w \in Worker : job[w] = Nothing
  BY DEF Init
<1>6. job \in [Worker -> Job]
  BY <1>3 DEF Init
<1>7. \A w \in Worker : job[w].rows = none
  BY <1>5 DEF Nothing
<1>8. \A d \in Definition : Behind(none[d], rows[d])
  BY NothingIsFine DEF Behind
<1> HIDE DEF none
<1>9. QED  BY <1>1, <1>3, <1>4, <1>6, <1>7, <1>8 DEF RaceInv

\* What the rows and a worker's objects are to every step.
LEMMA RaceFacts ==
    ASSUME RaceInv, NEW w \in Worker
    PROVE  /\ today \in Nat /\ today \in Date /\ roles \in SUBSET Role
           /\ ctx(roles) \in Context
           /\ rows \in Fine(today) /\ rows \in List
           /\ job[w] \in Job /\ job[w].rows \in Fine(today) /\ job[w].rows \in List
           /\ \A d \in Definition :
                 /\ RowFine(rows[d], d, today) /\ rows[d] \in Instance
                 /\ RowFine(job[w].rows[d], d, today) /\ job[w].rows[d] \in Instance
                 /\ Behind(job[w].rows[d], rows[d])
<1>1. rows \in Fine(today) /\ job[w].rows \in Fine(today) /\ job[w] \in Job
  BY DEF RaceInv
<1>2. today \in Nat /\ today \in Date /\ roles \in SUBSET Role
  BY DEF RaceInv, Date
<1>3. ctx(roles) \in Context
  BY <1>2, SyncRaceAssumption DEF ctx, Context, Gateable, SyncRaceAssumption
<1>4. \A d \in Definition : Behind(job[w].rows[d], rows[d])
  BY DEF RaceInv
<1>5. QED  BY <1>1, <1>2, <1>3, <1>4 DEF Fine, RowFine

\* A step after which the rows are fine, no completion has gone, and whose worker holds
\* what is fine.
LEMMA RaceStep ==
    ASSUME RaceInv, UNCHANGED today, roles' \in SUBSET Role, rows' \in Fine(today),
           \A d \in Definition : rows'[d].completed = NoDate => rows[d].completed = NoDate,
           NEW w \in Worker, NEW new \in Job, job' = job \/ job' = [job EXCEPT ![w] = new],
           new.rows \in Fine(today), \A d \in Definition : Behind(new.rows[d], rows'[d])
    PROVE  RaceInv'
<1>1. \A v \in Worker : job'[v] = job[v] \/ job'[v] = new
  BY DEF RaceInv
<1>2. job' \in [Worker -> Job]
  BY DEF RaceInv
<1>3. ASSUME NEW v \in Worker
      PROVE  /\ job'[v].rows \in Fine(today)
             /\ \A d \in Definition : Behind(job'[v].rows[d], rows'[d])
  BY <1>1 DEF RaceInv, Behind
<1>4. QED  BY <1>2, <1>3 DEF RaceInv

\* A step after which the worker holds nothing.
LEMMA RaceDone ==
    ASSUME RaceInv, UNCHANGED <<roles, today>>, rows' \in Fine(today),
           \A d \in Definition : rows'[d].completed = NoDate => rows[d].completed = NoDate,
           NEW w \in Worker, Done(w)
    PROVE  RaceInv'
<1>1. today \in Nat /\ roles \in SUBSET Role
  BY DEF RaceInv, Date
<1>2. Nothing \in Job /\ Nothing.rows \in Fine(today)
      /\ \A d \in Definition : Behind(Nothing.rows[d], rows'[d])
  <2>1. Nothing.rows = [d \in Definition |-> Absent]
    BY DEF Nothing
  <2>2. QED  BY <1>1, <2>1, NothingIsFine DEF Behind
<1>3. job' = [job EXCEPT ![w] = Nothing]
  BY DEF Done
<1>4. QED  BY <1>1, <1>2, <1>3, RaceStep

\* A request's own save, with the refresh of the rows behind it.
LEMMA WriteIsFine ==
    ASSUME RaceInv, NEW w \in Worker, NEW d \in Definition, NEW object, NEW fields,
           Write(w, d, object, fields),
           RowFine(save(rows[d], object, fields), d, today),
           save(rows[d], object, fields).completed = NoDate => rows[d].completed = NoDate
    PROVE  RaceInv'
<1> DEFINE new == save(rows[d], object, fields)
           written == [rows EXCEPT ![d] = new]
<1>1. /\ rows' = refresh_dependents(written, ctx(roles), today, d)
      /\ Done(w) /\ UNCHANGED <<roles, today>>
  BY DEF Write
<1>2. /\ today \in Nat /\ ctx(roles) \in Context
      /\ rows \in Fine(today) /\ rows \in List
  BY RaceFacts
<1> HIDE DEF new
<1>3. new \in Instance /\ RowFine(new, d, today)
  BY DEF RowFine, new
<1>4. written \in Fine(today) /\ written \in List
  BY <1>2, <1>3 DEF Fine, List
<1>5. \A e \in Definition : written[e].completed = NoDate => rows[e].completed = NoDate
  BY <1>2 DEF List, new
<1> HIDE DEF written
<1>6. /\ rows' \in Fine(today)
      /\ \A e \in Definition : rows'[e].completed = written[e].completed
  BY <1>1, <1>2, <1>4, PassIsFine DEF refresh_dependents
<1>7. QED  BY <1>1, <1>5, <1>6, RaceDone

LEMMA RecordIsFine ==
    ASSUME RaceInv, NEW w \in Worker, Record(w)
    PROVE  RaceInv'
<1> DEFINE object(d) == job[w].rows[d]
<1>1. /\ today \in Nat
      /\ \A d \in Definition :
            /\ RowFine(rows[d], d, today) /\ rows[d] \in Instance
            /\ RowFine(object(d), d, today) /\ object(d) \in Instance
            /\ Behind(object(d), rows[d])
  BY RaceFacts
<1> HIDE DEF object
<1>2. ASSUME NEW d \in Definition, NEW date \in 1..Horizon,
             can_mark_complete(object(d), d), date <= today,
             Write(w, d, mark_complete(object(d), d, date), CompletionFields)
      PROVE  RaceInv'
  <2> DEFINE made == mark_complete(object(d), d, date)
             new == save(rows[d], made, CompletionFields)
  <2>1. expiry_for(d, date) \in Nat /\ date \in Nat
    <3>1. Interval[d] \in Nat /\ date \in Nat
      BY RequirementsAssumption DEF RequirementsAssumption
    <3>2. QED  BY <3>1 DEF expiry_for, NoDate
  <2>2. /\ made \in Instance /\ made.status = "complete"
        /\ made.completed = date /\ made.expires = expiry_for(d, date)
    <3>1. object(d) \in Instance
      BY <1>1
    <3>2. QED  BY <2>1, <3>1 DEF mark_complete, Instance, Status, NoDate
  <2> HIDE DEF made
  <2>3. /\ new \in Instance /\ new.status = "complete"
        /\ new.completed = date /\ new.expires = expiry_for(d, date)
    BY <1>1, <2>2, SaveColumns DEF CompletionFields
  <2> HIDE DEF new
  <2>4. RowFine(new, d, today) /\ new.completed # NoDate
    BY <1>2, <2>3 DEF RowFine, NoDate
  <2>5. Write(w, d, made, CompletionFields)
    BY <1>2 DEF made
  <2>6. QED  BY <2>4, <2>5, WriteIsFine DEF new
<1>3. ASSUME NEW d \in Definition, NEW made \in Instance,
             NEW fields \in SUBSET {"status", "due", "started", "waived"},
             made.status # "absent", made.status = "complete" => made.completed # NoDate,
             made.completed = object(d).completed,
             Write(w, d, made, fields)
      PROVE  RaceInv'
  <2>1. Behind(made, rows[d])
    BY <1>1, <1>3 DEF Behind
  <2>2. /\ RowFine(save(rows[d], made, fields), d, today)
        /\ save(rows[d], made, fields).completed = rows[d].completed
    BY <1>1, <1>3, <2>1, SaveKeepsFine
  <2>3. QED  BY <1>3, <2>2, WriteIsFine
<1>4. ASSUME NEW d \in Definition, object(d).status \in {"not_started", "overdue"},
             Write(w, d, start(object(d)), {"started", "status"})
      PROVE  RaceInv'
  <2> DEFINE made == start(object(d))
  <2>1. /\ made \in Instance /\ made.completed = object(d).completed
        /\ made.status \in {"in_progress", "overdue"}
    BY <1>1, <1>4 DEF start, Instance, Status
  <2>2. Write(w, d, made, {"started", "status"})
    BY <1>4
  <2> HIDE DEF made
  <2>3. QED  BY <1>3, <2>1, <2>2
<1>5. ASSUME NEW d \in Definition, Write(w, d, waive(object(d)), {"status", "waived", "due"})
      PROVE  RaceInv'
  <2> DEFINE made == waive(object(d))
  <2>1. made \in Instance /\ made.completed = object(d).completed /\ made.status = "waived"
    BY <1>1 DEF waive, Instance, Status, NoDate
  <2>2. Write(w, d, made, {"status", "waived", "due"})
    BY <1>5
  <2> HIDE DEF made
  <2>3. QED  BY <1>3, <2>1, <2>2
<1>6. ASSUME NEW d \in Definition, Write(w, d, unwaive(object(d), today), {"status", "waived"})
      PROVE  RaceInv'
  <2> DEFINE back == [object(d) EXCEPT !.status = _status_after_reversal(object(d)), !.waived = FALSE]
             made == unwaive(object(d), today)
  <2>1. /\ back \in Instance /\ back.completed = object(d).completed
        /\ back.status \in {"complete", "in_progress", "not_started"}
        /\ back.status = "complete" => back.completed # NoDate
    BY <1>1 DEF _status_after_reversal, Instance, Status
  <2>2. made = recompute(back, today)
    BY DEF unwaive
  <2> HIDE DEF back, made
  <2>3. /\ made \in Instance /\ made.completed = object(d).completed
        /\ made.status # "absent"
        /\ made.status = "complete" => made.completed # NoDate
    BY <2>1, <2>2 DEF recompute, Instance, Status
  <2>4. Write(w, d, made, {"status", "waived"})
    BY <1>6 DEF made
  <2>5. QED  BY <1>3, <2>3, <2>4
<1>7. QED
  BY <1>2, <1>4, <1>5, <1>6
  DEF Record, mark_requirement_complete, start_requirement, waive_requirement,
      reverse_waiver, object

LEMMA JobIsFine ==
    ASSUME RaceInv, NEW w \in Worker, sync_commit(w) \/ RecomputeNext(w) \/ Abandon(w)
    PROVE  RaceInv'
<1> DEFINE object(d) == job[w].rows[d]
<1>1. /\ today \in Nat /\ roles \in SUBSET Role
      /\ rows \in Fine(today) /\ rows \in List
      /\ job[w] \in Job /\ job[w].rows \in Fine(today) /\ job[w].rows \in List
      /\ \A d \in Definition :
            /\ RowFine(rows[d], d, today) /\ rows[d] \in Instance
            /\ RowFine(object(d), d, today) /\ object(d) \in Instance
            /\ Behind(object(d), rows[d])
  BY RaceFacts
<1>2. CASE sync_commit(w)
  <2>1. rows' = Synced(rows, job[w].rows, job[w].roles, job[w].asOf)
    BY <1>2 DEF sync_commit
  <2>2. job[w].roles \in SUBSET Role
    BY <1>1 DEF Job
  <2>3. rows' \in Fine(today) \cap SameRecord(rows)
    BY <1>1, <2>1, <2>2, SyncedLeavesRecords
  <2>4. \A d \in Definition : rows'[d].completed = rows[d].completed
    BY <2>3 DEF SameRecord, Recorded
  <2>5. QED  BY <1>2, <2>3, <2>4, RaceDone DEF sync_commit
<1>3. ASSUME NEW d \in Definition, recompute_one(w, d)
      PROVE  RaceInv'
  <2> DEFINE made == recompute(object(d), job[w].asOf)
             row == IF made = object(d) THEN rows[d] ELSE save(rows[d], made, {"status"})
             rest == IF job[w].todo = {d} THEN Nothing
                     ELSE [job[w] EXCEPT !.todo = job[w].todo \ {d}, !.rows[d] = Absent]
  <2>1. /\ rows' = [rows EXCEPT ![d] = row] /\ job' = [job EXCEPT ![w] = rest]
        /\ UNCHANGED <<roles, today>>
    <3>1. rows' = IF made = object(d) THEN rows
                  ELSE [rows EXCEPT ![d] = save(rows[d], made, {"status"})]
      BY <1>3 DEF recompute_one
    <3>2. rows' = [rows EXCEPT ![d] = row]
      <4> HIDE DEF made, object
      <4>1. rows = [rows EXCEPT ![d] = rows[d]]
        BY <1>1 DEF List
      <4>2. QED  BY <3>1, <4>1
    <3>3. job' = [job EXCEPT ![w] = rest] /\ UNCHANGED <<roles, today>>
      BY <1>3 DEF recompute_one
    <3>4. QED  BY <3>2, <3>3
  <2>2. made = object(d) \/
           /\ made \in Instance /\ made.completed = object(d).completed
           /\ made.status # "absent"
           /\ made.status = "complete" => made.completed # NoDate
    <3> HIDE DEF object
    <3>1. object(d) \in Instance /\ RowFine(object(d), d, today)
      BY <1>1
    <3>2. QED  BY <3>1 DEF recompute, Instance, Status, RowFine
  <2> HIDE DEF made
  <2>3. RowFine(row, d, today) /\ row.completed = rows[d].completed
    <3>1. CASE made = object(d)
      BY <1>1, <3>1
    <3>2. CASE made # object(d)
      <4>1. Behind(made, rows[d])
        BY <1>1, <2>2, <3>2 DEF Behind
      <4>2. /\ RowFine(save(rows[d], made, {"status"}), d, today)
            /\ save(rows[d], made, {"status"}).completed = rows[d].completed
        BY <1>1, <2>2, <3>2, <4>1, SaveKeepsFine
      <4>3. QED  BY <3>2, <4>2
    <3>3. QED  BY <3>1, <3>2
  <2> HIDE DEF row
  <2>4. /\ rows' \in Fine(today)
        /\ \A e \in Definition : rows'[e].completed = rows[e].completed
    <3>1. row \in Instance
      BY <2>3 DEF RowFine
    <3>2. QED  BY <1>1, <2>1, <2>3, <3>1 DEF Fine, List
  <2>5. /\ rest \in Job /\ rest.rows \in Fine(today)
        /\ \A e \in Definition : Behind(rest.rows[e], rows'[e])
    <3>1. Absent \in Instance /\ RowFine(Absent, d, today) /\ Absent.completed = NoDate
      <4>1. [e \in Definition |-> Absent] \in Fine(today) /\ Absent.completed = NoDate
        BY <1>1, NothingIsFine
      <4>2. RowFine([e \in Definition |-> Absent][d], d, today)
        BY <4>1 DEF Fine
      <4>3. QED  BY <4>1, <4>2 DEF RowFine
    <3>2. CASE job[w].todo = {d}
      <4>1. rest = Nothing /\ Nothing.rows = [e \in Definition |-> Absent]
        BY <3>2 DEF Nothing
      <4>2. Nothing \in Job /\ [e \in Definition |-> Absent] \in Fine(today)
        BY <1>1, NothingIsFine
      <4>3. QED  BY <3>1, <4>1, <4>2 DEF Behind
    <3>3. CASE job[w].todo # {d}
      <4> DEFINE left == [job[w].rows EXCEPT ![d] = Absent]
      <4>1. left \in Fine(today) /\ left \in List
        BY <1>1, <3>1 DEF Fine, List
      <4>2. \A e \in Definition : Behind(left[e], rows'[e])
        BY <1>1, <2>4, <3>1 DEF Behind, List
      <4>3. rest = [job[w] EXCEPT !.todo = job[w].todo \ {d}, !.rows = left]
        BY <1>1, <3>3 DEF Job
      <4> HIDE DEF left, rest
      <4>4. rest \in Job /\ rest.rows = left
        BY <1>1, <4>1, <4>3 DEF Job
      <4>5. QED  BY <4>1, <4>2, <4>4
    <3>4. QED  BY <3>2, <3>3
  <2> HIDE DEF rest
  <2>6. QED  BY <1>1, <2>1, <2>4, <2>5, RaceStep
<1>4. CASE Abandon(w)
  BY <1>1, <1>4, RaceDone DEF Abandon
<1>5. QED  BY <1>2, <1>3, <1>4 DEF RecomputeNext

LEMMA LoadIsFine ==
    ASSUME RaceInv, NEW w \in Worker, NEW on \in {"request", "sync", "recompute"},
           NEW S \in SUBSET Definition, Load(w, on, S)
    PROVE  RaceInv'
<1> DEFINE read == Objects(rows, S)
           new == [on |-> on, rows |-> read, todo |-> S,
                   roles |-> IF on = "sync" THEN roles ELSE {},
                   asOf |-> IF on = "request" THEN NoDate ELSE today]
<1>1. job' = [job EXCEPT ![w] = new] /\ UNCHANGED <<rows, roles, today>>
  BY DEF Load
<1>2. today \in Nat /\ roles \in SUBSET Role /\ rows \in Fine(today) /\ rows \in List
  BY RaceFacts
<1>3. [d \in Definition |-> Absent] \in Fine(today) /\ Absent.completed = NoDate
  BY <1>2, NothingIsFine
<1>4. /\ read \in Fine(today) /\ read \in List
      /\ \A d \in Definition : Behind(read[d], rows[d])
  <2>1. \A d \in Definition : read[d] = rows[d] \/ read[d] = Absent
    BY DEF Objects
  <2>2. \A d \in Definition : RowFine(Absent, d, today) /\ Absent \in Instance
    BY <1>3 DEF Fine, RowFine
  <2>3. \A d \in Definition : rows[d] \in Instance /\ RowFine(rows[d], d, today)
    BY <1>2 DEF Fine, RowFine
  <2>4. read = [d \in Definition |-> read[d]]
    BY DEF Objects
  <2> HIDE DEF read
  <2>5. QED  BY <1>3, <2>1, <2>2, <2>3, <2>4 DEF Fine, List, Behind
<1> HIDE DEF read
<1>5. new \in Job /\ new.rows = read
  BY <1>2, <1>4 DEF Job, NoDate
<1> HIDE DEF new
<1>6. QED  BY <1>1, <1>2, <1>4, <1>5, RaceStep

LEMMA RaceNext == RaceInv /\ [Next]_vars => RaceInv'
<1> SUFFICES ASSUME RaceInv, [Next]_vars PROVE RaceInv'
  OBVIOUS
<1>1. ASSUME NEW w \in Worker, LoadRequest(w) \/ LoadSync(w) \/ LoadRecompute(w)
      PROVE  RaceInv'
  <2>1. \E on \in {"request", "sync", "recompute"}, S \in SUBSET Definition : Load(w, on, S)
    BY <1>1 DEF LoadRequest, LoadSync, LoadRecompute
  <2>2. QED  BY <2>1, LoadIsFine
<1>2. CASE Assign
  BY <1>2 DEF Assign, RaceInv
<1>3. CASE Tick
  <2>1. /\ today \in Nat /\ today' = today + 1 /\ today' \in Date /\ today <= today'
        /\ UNCHANGED <<rows, roles, job>>
    BY <1>3 DEF Tick, RaceInv, Date
  <2>2. today' \in Nat
    BY <2>1 DEF Date
  <2>3. \A l \in Fine(today) : l \in Fine(today')
    BY <2>1, <2>2, FineLater
  <2>4. QED  BY <2>1, <2>3 DEF RaceInv
<1>4. CASE UNCHANGED vars
  BY <1>4 DEF vars, RaceInv
<1>5. QED  BY <1>1, <1>2, <1>3, <1>4, RecordIsFine, JobIsFine DEF Next

\* A row is never put together from two recordings: save(update_fields=...) of syncs,
\* nights and requests that worked on objects loaded long ago.
THEOREM DatesBelongTogetherAlways == Spec => []DatesBelongTogether
<1>1. RaceInv => DatesBelongTogether
  <2>1. ASSUME RaceInv, NEW d \in Definition
        PROVE  /\ rows[d].completed \in Nat /\ today \in Nat
               /\ RowFine(rows[d], d, today)
    BY <2>1 DEF RaceInv, Fine, RowFine, Instance, Date
  <2>2. ASSUME RaceInv, NEW d \in Definition
        PROVE  /\ rows[d].status = "complete" => rows[d].completed \in 1..today
               /\ rows[d].completed # NoDate =>
                     rows[d].expires = expiry_for(d, rows[d].completed)
    <3>1. /\ rows[d].completed \in Nat /\ today \in Nat /\ RowFine(rows[d], d, today)
      BY <2>1, <2>2
    <3>2. QED  BY <3>1 DEF RowFine, NoDate
  <2>3. QED  BY <2>2 DEF DatesBelongTogether
<1>2. QED  BY <1>1, RaceInit, RaceNext, PTL DEF Spec

\* Only a request that finishes changes what was recorded: nothing a sync or a night
\* had loaded can undo it.
LEMMA OthersRecordNothing ==
    ASSUME RaceInv, [Next]_vars,
           NEW d \in Definition, NEW c \in Recorded, rows'[d][c] # rows[d][c]
    PROVE  \E w \in Worker : job[w].on = "request" /\ job'[w].on = "nothing"
<1>1. ASSUME NEW w \in Worker, Record(w)
      PROVE  job[w].on = "request" /\ job'[w].on = "nothing"
  <2>1. job[w].on = "request" /\ job' = [job EXCEPT ![w] = Nothing]
    BY <1>1 DEF Record, mark_requirement_complete, start_requirement, waive_requirement,
       reverse_waiver, Write, Done
  <2>2. job'[w] = Nothing
    BY <2>1 DEF RaceInv
  <2>3. QED  BY <2>1, <2>2 DEF Nothing
<1>2. ASSUME NEW w \in Worker, sync_commit(w)
      PROVE  rows'[d][c] = rows[d][c]
  <2>1. /\ today \in Nat /\ rows \in Fine(today) /\ job[w].rows \in Fine(today)
        /\ job[w] \in Job
        /\ \A e \in Definition : Behind(job[w].rows[e], rows[e])
    BY RaceFacts
  <2>2. job[w].roles \in SUBSET Role
    BY <2>1 DEF Job
  <2>3. rows' \in SameRecord(rows)
    BY <1>2, <2>1, <2>2, SyncedLeavesRecords DEF sync_commit
  <2>4. QED  BY <2>3 DEF SameRecord
<1>3. ASSUME NEW w \in Worker, NEW e \in Definition, recompute_one(w, e)
      PROVE  rows'[d][c] = rows[d][c]
  <2> DEFINE object == job[w].rows[e]
             made == recompute(object, job[w].asOf)
             new == save(rows[e], made, {"status"})
  <2>1. rows \in List /\ rows[e] \in Instance /\ object \in Instance
    BY RaceFacts
  <2>2. made \in Instance
    BY <2>1, RecomputeIsInstance
  <2>3. rows' = rows \/ rows' = [rows EXCEPT ![e] = new]
    BY <1>3 DEF recompute_one
  <2> HIDE DEF made, object
  <2>4. \A k \in Recorded : new[k] = rows[e][k]
    BY <2>1, <2>2, SaveColumns DEF Recorded
  <2> HIDE DEF new
  <2>5. QED  BY <2>1, <2>3, <2>4 DEF List
<1>4. ~UNCHANGED rows
  OBVIOUS
<1>5. QED
  BY <1>1, <1>2, <1>3, <1>4
  DEF Next, vars, LoadRequest, LoadSync, LoadRecompute, Load, RecomputeNext, Abandon,
      Assign, Tick

\* Completions, renewals, starts and waivers are never lost to a sync or to the night
\* (update_fields): only the request that records one changes them.
THEOREM OnlyRequestsRecordAlways == Spec => OnlyRequestsRecord
<1>1. RaceInv /\ [Next]_vars
      => [\A d \in Definition :
            (\E c \in {"completed", "expires", "started", "waived"} : rows'[d][c] # rows[d][c])
                => \E w \in Worker : job[w].on = "request" /\ job'[w].on = "nothing"]_vars
  BY OthersRecordNothing DEF Recorded
<1>2. QED  BY <1>1, RaceInit, RaceNext, PTL DEF Spec, OnlyRequestsRecord
===============================================================================
