--------------------------- MODULE RequirementsProofs ---------------------------
(***************************************************************************)
(* The loops of the engine, for any number of definitions: what every      *)
(* single iteration keeps, the whole pass keeps.  A property of lists is   *)
(* given as the set J of the lists that have it, so that one lemma serves  *)
(* every invariant and every action property of the engine.  Then the      *)
(* calendar: what adding months and reading ages promise for every date.   *)
(***************************************************************************)
EXTENDS Requirements, TLAPS, WellFoundedInduction

\* Every non-empty set of naturals has a least element.
LEMMA LeastNatural ==
    ASSUME NEW T \in SUBSET Nat, T # {}
    PROVE  \E m \in T : \A k \in T : m <= k
<1> DEFINE R == OpToRel(<, Nat)
<1>1. PICK m \in T : \A y \in T : ~(<<y, m>> \in R)
  <2>1. IsWellFoundedOn(R, Nat)
    BY NatLessThanWellFounded
  <2>2. QED  BY <2>1, WFMin
<1>2. \A y \in T : ~(y < m)
  BY <1>1 DEF OpToRel
<1>3. QED  BY <1>2

\* Induction along the first n steps of a loop, in terms of a set of good indices.
LEMMA LoopInduction ==
    ASSUME NEW n \in Nat, NEW Good,
           0 \in Good,
           \A k \in 1..n : (k-1) \in Good => k \in Good
    PROVE  \A k \in 0..n : k \in Good
<1> DEFINE Bad == {k \in 0..n : k \notin Good}
<1>1. SUFFICES ASSUME Bad # {} PROVE FALSE
  OBVIOUS
<1>2. PICK m \in Bad : \A k \in Bad : m <= k
  <2>1. Bad \in SUBSET Nat  OBVIOUS
  <2>2. QED  BY <1>1, <2>1, LeastNatural
<1>3. m \in 1..n
  BY <1>2
<1>4. (m-1) \in Good
  <2>1. m-1 \in 0..n /\ ~(m <= m-1)
    BY <1>3
  <2>2. QED  BY <1>2, <2>1
<1>5. QED  BY <1>2, <1>3, <1>4

\* The executions of a loop over lists in J that applies step[k] in iteration k.
Runs(n, J, x, step) ==
    {f \in [0..n -> J] : f[0] = x /\ \A k \in 1..n : f[k] = step[k][f[k-1]]}

\* A loop that applies step[k] in iteration k has an execution.
LEMMA LoopExists ==
    ASSUME NEW n \in Nat, NEW J, NEW x \in J, NEW step \in [1..n -> [J -> J]]
    PROVE  Runs(n, J, x, step) # {}
<1> DEFINE Run(m, f) == f[0] = x /\ \A k \in 1..m : f[k] = step[k][f[k-1]]
           Good == {m \in 0..n : \E f \in [0..m -> J] : Run(m, f)}
<1>1. 0 \in Good
  <2> DEFINE f == [k \in 0..0 |-> x]
  <2>1. f \in [0..0 -> J] /\ Run(0, f)  OBVIOUS
  <2>2. \E h \in [0..0 -> J] : Run(0, h)
    <3> HIDE DEF f, Run
    <3>1. QED  BY <2>1
  <2>3. QED  BY <2>2
<1>2. ASSUME NEW k \in 1..n, (k-1) \in Good
      PROVE  k \in Good
  <2>1. PICK f \in [0..(k-1) -> J] : Run(k-1, f)
    BY <1>2
  <2> DEFINE g == [j \in 0..k |-> IF j = k THEN step[k][f[k-1]] ELSE f[j]]
  <2>2. f[k-1] \in J
    OBVIOUS
  <2>3. g \in [0..k -> J]
    <3>1. step[k][f[k-1]] \in J
      BY <2>2
    <3>2. \A j \in 0..k : j # k => j \in 0..(k-1)
      OBVIOUS
    <3>3. QED  BY <3>1, <3>2
  <2>4. Run(k, g)
    <3>1. g[0] = x
      BY <2>1
    <3>2. ASSUME NEW j \in 1..k PROVE g[j] = step[j][g[j-1]]
      <4>1. g[j-1] = f[j-1]
        OBVIOUS
      <4>2. CASE j = k
        BY <4>1, <4>2
      <4>3. CASE j # k
        <5>1. j \in 1..(k-1) /\ g[j] = f[j]
          BY <4>3
        <5>2. QED  BY <2>1, <4>1, <5>1
      <4>4. QED  BY <4>2, <4>3
    <3>3. QED  BY <3>1, <3>2
  <2>5. \E h \in [0..k -> J] : Run(k, h)
    <3> HIDE DEF g, Run
    <3>1. QED  BY <2>3, <2>4
  <2>6. k \in 0..n
    OBVIOUS
  <2>7. QED
    <3> HIDE DEF g, Run
    <3>1. QED  BY <2>5, <2>6
<1>3. n \in Good
  <2>1. \A k \in 0..n : k \in Good
    <3> HIDE DEF Good
    <3>1. QED  BY <1>1, <1>2, LoopInduction
  <2>2. QED  BY <2>1
<1>4. QED  BY <1>3 DEF Runs

(***************************************************************************)
(* The lists a pass of sync_volunteer_requirements goes through: f[k] is   *)
(* the list after the first k definitions.                                 *)
(***************************************************************************)
SyncRuns(J, list, ctx, asOf) ==
    {f \in [0..Len(Order) -> J] :
        /\ f[0] = list
        /\ \A k \in 1..Len(Order) :
              f[k] = IF Order[k] \notin ctx.active THEN f[k-1]
                     ELSE [f[k-1] EXCEPT ![Order[k]] = SyncOne(f[k-1], ctx, asOf, Order[k])]}

LEMMA SyncTrace ==
    ASSUME NEW J, NEW list \in J, NEW ctx, NEW asOf,
           \A l \in J, d \in Definition :
              [l EXCEPT ![d] = SyncOne(l, ctx, asOf, d)] \in J
    PROVE  \E f \in SyncRuns(J, list, ctx, asOf) :
              sync_volunteer_requirements(list, ctx, asOf) = f[Len(Order)]
<1> DEFINE n == Len(Order)
           Pass(l, d) == [l EXCEPT ![d] = SyncOne(l, ctx, asOf, d)]
           step == [k \in 1..n |-> [l \in J |->
                      IF Order[k] \notin ctx.active THEN l ELSE Pass(l, Order[k])]]
           after[k \in 0..Len(Order)] ==
              IF k = 0 THEN list
              ELSE IF Order[k] \notin ctx.active THEN after[k-1]
              ELSE [after[k-1] EXCEPT ![Order[k]] = SyncOne(after[k-1], ctx, asOf, Order[k])]
<1>1. n \in Nat /\ \A k \in 1..n : Order[k] \in Definition
  BY RequirementsAssumption DEF RequirementsAssumption
<1>2. \A k \in 1..n : \A l \in J : Pass(l, Order[k]) \in J
  BY <1>1
<1>3. step \in [1..n -> [J -> J]]
  <2> HIDE DEF Pass, n
  <2>1. QED  BY <1>2
<1>4. PICK f \in [0..n -> J] : f[0] = list /\ \A k \in 1..n : f[k] = step[k][f[k-1]]
  <2>1. n \in Nat
    BY <1>1
  <2>2. Runs(n, J, list, step) # {}
    <3> HIDE DEF step, n, Pass, after
    <3>1. QED  BY <1>3, <2>1, LoopExists
  <2>3. PICK f \in Runs(n, J, list, step) : TRUE
    BY <2>2
  <2> HIDE DEF step, n, Pass, after
  <2>4. f \in [0..n -> J] /\ f[0] = list /\ \A k \in 1..n : f[k] = step[k][f[k-1]]
    BY DEF Runs
  <2>5. QED  BY <2>4
<1>5. f = [k \in 0..Len(Order) |->
              IF k = 0 THEN list
              ELSE IF Order[k] \notin ctx.active THEN f[k-1]
              ELSE [f[k-1] EXCEPT ![Order[k]] = SyncOne(f[k-1], ctx, asOf, Order[k])]]
  <2>1. ASSUME NEW k \in 0..n, k # 0
        PROVE  f[k] = IF Order[k] \notin ctx.active THEN f[k-1] ELSE Pass(f[k-1], Order[k])
    <3>1. k \in 1..n /\ k-1 \in 0..n
      BY <1>1, <2>1
    <3> HIDE DEF Pass, n
    <3>2. f[k-1] \in J
      BY <3>1
    <3>3. QED  BY <1>4, <3>1, <3>2
  <2>2. QED  BY <1>4, <2>1
<1>6. after = [k \in 0..Len(Order) |->
              IF k = 0 THEN list
              ELSE IF Order[k] \notin ctx.active THEN after[k-1]
              ELSE [after[k-1] EXCEPT ![Order[k]] = SyncOne(after[k-1], ctx, asOf, Order[k])]]
  BY <1>5
<1>7. \A k \in 0..n : after[k] \in J
  <2> DEFINE Good == {k \in 0..n : after[k] \in J}
  <2>1. after[0] = list
    <3> HIDE DEF after
    <3>1. QED  BY <1>1, <1>6
  <2>2. ASSUME NEW k \in 1..n
        PROVE  after[k] = IF Order[k] \notin ctx.active THEN after[k-1]
                          ELSE Pass(after[k-1], Order[k])
    <3> HIDE DEF after
    <3>1. k \in 0..Len(Order) /\ k # 0
      BY <1>1
    <3>2. QED  BY <1>6, <3>1
  <2> HIDE DEF after, Pass, n
  <2>3. 0 \in Good
    BY <1>1, <2>1
  <2>4. ASSUME NEW k \in 1..n, (k-1) \in Good
        PROVE  k \in Good
    <3>1. k \in 0..n /\ after[k-1] \in J
      BY <1>1, <2>4
    <3>2. after[k] \in J
      BY <1>2, <2>2, <3>1
    <3>3. QED  BY <3>1, <3>2
  <2>5. \A k \in 0..n : k \in Good
    <3> HIDE DEF Good
    <3>1. QED  BY <1>1, <2>3, <2>4, LoopInduction
  <2>6. QED  BY <2>5
<1>8. sync_volunteer_requirements(list, ctx, asOf) = after[n]
  BY DEF sync_volunteer_requirements
<1>9. after \in [0..Len(Order) -> J]
  <2>1. after = [k \in 0..n |-> after[k]]
    <3> HIDE DEF after
    <3>1. QED  BY <1>6
  <2> HIDE DEF after
  <2>2. QED  BY <1>7, <2>1
<1>10. /\ after[0] = list
       /\ \A k \in 1..Len(Order) :
             after[k] = IF Order[k] \notin ctx.active THEN after[k-1]
                        ELSE [after[k-1] EXCEPT
                                ![Order[k]] = SyncOne(after[k-1], ctx, asOf, Order[k])]
  <2>1. 0 \in 0..Len(Order) /\ \A k \in 1..Len(Order) : k \in 0..Len(Order) /\ k # 0
    BY <1>1
  <2> HIDE DEF after
  <2>2. QED  BY <1>6, <2>1
<1>11. after \in SyncRuns(J, list, ctx, asOf)
  <2> HIDE DEF after
  <2>1. QED  BY <1>9, <1>10 DEF SyncRuns
<1>12. QED
  <2> HIDE DEF after
  <2>1. QED  BY <1>8, <1>11

(***************************************************************************)
(* Whatever each iteration of sync_volunteer_requirements keeps, the whole *)
(* pass keeps.                                                             *)
(***************************************************************************)
LEMMA SyncKeeps ==
    ASSUME NEW J, NEW list \in J, NEW ctx, NEW asOf,
           \A l \in J, d \in Definition :
              [l EXCEPT ![d] = SyncOne(l, ctx, asOf, d)] \in J
    PROVE  sync_volunteer_requirements(list, ctx, asOf) \in J
<1>1. PICK f \in SyncRuns(J, list, ctx, asOf) :
        sync_volunteer_requirements(list, ctx, asOf) = f[Len(Order)]
  BY SyncTrace
<1>2. f \in [0..Len(Order) -> J]
  BY DEF SyncRuns
<1>3. Len(Order) \in 0..Len(Order)
  BY RequirementsAssumption DEF RequirementsAssumption
<1>4. QED  BY <1>1, <1>2, <1>3

(***************************************************************************)
(* And the same for the loop over the requirements of those who turn 18.   *)
(***************************************************************************)
LEMMA Turn18Keeps ==
    ASSUME NEW J, NEW list \in J, NEW ctx, NEW asOf,
           \A l \in J, d \in Definition :
              [l EXCEPT ![d] = Turn18One(l, ctx, asOf, d)] \in J
    PROVE  activate_turning_18_checks(list, ctx, asOf) \in J
<1> DEFINE n == Len(Order)
           Pass(l, d) == [l EXCEPT ![d] = Turn18One(l, ctx, asOf, d)]
           step == [k \in 1..n |-> [l \in J |-> Pass(l, Order[k])]]
           after[k \in 0..Len(Order)] ==
              IF k = 0 THEN list
              ELSE [after[k-1] EXCEPT ![Order[k]] = Turn18One(after[k-1], ctx, asOf, Order[k])]
<1>1. n \in Nat /\ \A k \in 1..n : Order[k] \in Definition
  BY RequirementsAssumption DEF RequirementsAssumption
<1>2. \A k \in 1..n : \A l \in J : Pass(l, Order[k]) \in J
  BY <1>1
<1>3. step \in [1..n -> [J -> J]]
  <2> HIDE DEF Pass, n
  <2>1. QED  BY <1>2
<1>4. PICK f \in [0..n -> J] : f[0] = list /\ \A k \in 1..n : f[k] = step[k][f[k-1]]
  <2>1. n \in Nat
    BY <1>1
  <2>2. Runs(n, J, list, step) # {}
    <3> HIDE DEF step, n, Pass, after
    <3>1. QED  BY <1>3, <2>1, LoopExists
  <2>3. PICK f \in Runs(n, J, list, step) : TRUE
    BY <2>2
  <2> HIDE DEF step, n, Pass, after
  <2>4. f \in [0..n -> J] /\ f[0] = list /\ \A k \in 1..n : f[k] = step[k][f[k-1]]
    BY DEF Runs
  <2>5. QED  BY <2>4
<1>5. f = [k \in 0..Len(Order) |->
              IF k = 0 THEN list
              ELSE [f[k-1] EXCEPT ![Order[k]] = Turn18One(f[k-1], ctx, asOf, Order[k])]]
  <2>1. ASSUME NEW k \in 0..n, k # 0
        PROVE  f[k] = Pass(f[k-1], Order[k])
    <3>1. k \in 1..n /\ k-1 \in 0..n
      BY <1>1, <2>1
    <3> HIDE DEF Pass, n
    <3>2. f[k-1] \in J
      BY <3>1
    <3>3. QED  BY <1>4, <3>1, <3>2
  <2>2. QED  BY <1>4, <2>1
<1>6. after = [k \in 0..Len(Order) |->
              IF k = 0 THEN list
              ELSE [after[k-1] EXCEPT ![Order[k]] = Turn18One(after[k-1], ctx, asOf, Order[k])]]
  BY <1>5
<1>7. \A k \in 0..n : after[k] \in J
  <2> DEFINE Good == {k \in 0..n : after[k] \in J}
  <2>1. after[0] = list
    <3> HIDE DEF after
    <3>1. QED  BY <1>1, <1>6
  <2>2. ASSUME NEW k \in 1..n
        PROVE  after[k] = Pass(after[k-1], Order[k])
    <3> HIDE DEF after
    <3>1. k \in 0..Len(Order) /\ k # 0
      BY <1>1
    <3>2. QED  BY <1>6, <3>1
  <2> HIDE DEF after, Pass, n
  <2>3. 0 \in Good
    BY <1>1, <2>1
  <2>4. ASSUME NEW k \in 1..n, (k-1) \in Good
        PROVE  k \in Good
    <3>1. k \in 0..n /\ after[k-1] \in J
      BY <1>1, <2>4
    <3>2. after[k] \in J
      BY <1>2, <2>2, <3>1
    <3>3. QED  BY <3>1, <3>2
  <2>5. \A k \in 0..n : k \in Good
    <3> HIDE DEF Good
    <3>1. QED  BY <1>1, <2>3, <2>4, LoopInduction
  <2>6. QED  BY <2>5
<1>8. activate_turning_18_checks(list, ctx, asOf) = after[n]
  BY DEF activate_turning_18_checks
<1>9. QED
  <2>1. n \in 0..n
    BY <1>1
  <2> HIDE DEF after, n
  <2>2. QED  BY <1>7, <1>8, <2>1

-----------------------------------------------------------------------------
(* Rows stay rows.                                                           *)

LEMMA HoldIsInstance ==
    ASSUME NEW i \in Instance
    PROVE  _hold_not_applicable(i) \in Instance
  BY DEF _hold_not_applicable, Instance, Status, NoDate

LEMMA BlankIsInstance ==
    /\ Blank \in Instance /\ Absent \in Instance
    /\ [Blank EXCEPT !.status = "not_applicable"] \in Instance
<1>1. Blank \in Instance
  BY DEF Blank, Instance, Status, NoDate
<1>2. QED  BY <1>1 DEF Absent, Instance, Status

LEMMA RecomputeIsInstance ==
    ASSUME NEW i \in Instance, NEW asOf
    PROVE  recompute(i, asOf) \in Instance
  BY DEF recompute, Instance, Status

List == [Definition -> Instance]

LEMMA DeadlineIsNat ==
    ASSUME NEW l \in List, NEW d \in Gateable
    PROVE  _prerequisite_deadline(l, d) \in Nat
<1>1. MustFollow[d] \in Definition /\ prerequisite_offset_months(d) \in Nat
  BY RequirementsAssumption DEF RequirementsAssumption, Gateable, prerequisite_offset_months
<1>2. l[MustFollow[d]].completed \in Nat
  BY <1>1 DEF List, Instance
<1>3. QED  BY <1>1, <1>2 DEF _prerequisite_deadline, NoDate

LEMMA ActivateIsInstance ==
    ASSUME NEW l \in List, NEW c \in Context, NEW d \in Definition
    PROVE  _activate(l, c, d) \in Instance
<1> DEFINE due == _activate(l, c, d).due
<1>1. l[d] \in Instance
  BY DEF List
<1>2. _activate(l, c, d) = [l[d] EXCEPT !.status = "not_started", !.due = due]
  BY <1>1 DEF _activate, Instance
<1>3. due \in Nat
  <2>1. c.adultFrom \in Nat /\ c.gated \subseteq Gateable /\ Turning18Months \in Nat
    BY RequirementsAssumption DEF RequirementsAssumption, Context
  <2>2. d \in c.gated => _prerequisite_deadline(l, d) \in Nat
    BY <2>1, DeadlineIsNat
  <2>3. QED  BY <1>1, <2>1, <2>2 DEF _activate, NoDate, Instance
<1> HIDE DEF due
<1>4. QED  BY <1>1, <1>2, <1>3 DEF Instance, Status

LEMMA RefreshIsInstance ==
    ASSUME NEW l \in List, NEW d \in Gateable
    PROVE  _refresh_prerequisite_deadline(l, d) \in Instance
<1>1. d \in Definition
  BY DEF Gateable
<1>2. l[d] \in Instance
  BY <1>1 DEF List
<1>3. QED  BY <1>2, DeadlineIsNat DEF _refresh_prerequisite_deadline, Instance

LEMMA SyncOneIsInstance ==
    ASSUME NEW l \in List, NEW c \in Context, NEW asOf, NEW d \in Definition
    PROVE  SyncOne(l, c, asOf, d) \in Instance
<1> DEFINE exempt == is_age_exempt(c, asOf, d)
           blocked == ~exempt /\ unmet_prerequisite(l, c, d)
<1>1. l[d] \in Instance
  BY DEF List
<1>2. d \in c.gated => d \in Gateable
  BY DEF Context
<1>3. _reconcile_existing(l, c, d, exempt, blocked) \in Instance
  <2> HIDE DEF exempt, blocked
  <2>1. QED
    BY <1>1, <1>2, HoldIsInstance, ActivateIsInstance, RefreshIsInstance
    DEF _reconcile_existing
<1>4. QED  BY <1>1, <1>3, HoldIsInstance, BlankIsInstance DEF SyncOne

LEMMA SyncIsList ==
    ASSUME NEW l \in List, NEW c \in Context, NEW asOf
    PROVE  sync_volunteer_requirements(l, c, asOf) \in List
<1>1. ASSUME NEW k \in List, NEW d \in Definition
      PROVE  [k EXCEPT ![d] = SyncOne(k, c, asOf, d)] \in List
  <2>1. SyncOne(k, c, asOf, d) \in Instance
    BY <1>1, SyncOneIsInstance
  <2>2. QED  BY <1>1, <2>1 DEF List
<1>2. QED  BY <1>1, SyncKeeps

LEMMA Turn18IsList ==
    ASSUME NEW l \in List, NEW c \in Context, NEW asOf
    PROVE  activate_turning_18_checks(l, c, asOf) \in List
<1>1. ASSUME NEW k \in List, NEW d \in Definition
      PROVE  [k EXCEPT ![d] = Turn18One(k, c, asOf, d)] \in List
  <2>1. Turn18One(k, c, asOf, d) \in Instance
    BY <1>1, ActivateIsInstance DEF Turn18One, List
  <2>2. QED  BY <1>1, <2>1 DEF List
<1>2. QED  BY <1>1, Turn18Keeps

(***************************************************************************)
(* What is on file survives a pass: rows are created and never removed,    *)
(* and no pass changes a completion date.                                  *)
(***************************************************************************)
NoRowNoDate(l) == \A d \in Definition : l[d].status = "absent" => l[d].completed = NoDate

Keeping(base) ==
    {l \in List : \A d \in Definition :
        /\ l[d].completed = base[d].completed
        /\ base[d].status # "absent" => l[d].status # "absent"}

LEMMA SyncOneKeepsFile ==
    ASSUME NEW l \in List, NEW c \in Context, NEW asOf, NEW d \in Definition
    PROVE  /\ l[d].status # "absent" =>
                 /\ SyncOne(l, c, asOf, d).status # "absent"
                 /\ SyncOne(l, c, asOf, d).completed = l[d].completed
           /\ l[d].status = "absent" =>
                 SyncOne(l, c, asOf, d).completed \in {l[d].completed, NoDate}
<1> DEFINE exempt == is_age_exempt(c, asOf, d)
           blocked == ~exempt /\ unmet_prerequisite(l, c, d)
           Kept(i) == i.status # "absent" /\ i.completed = l[d].completed
<1>1. l[d] \in Instance
  BY DEF List
<1>2. Kept(_hold_not_applicable(l[d]))
  BY <1>1 DEF _hold_not_applicable, Instance
<1>3. Kept(_activate(l, c, d))
  BY <1>1 DEF _activate, Instance
<1>4. l[d].status # "absent" => Kept(_refresh_prerequisite_deadline(l, d))
  BY <1>1 DEF _refresh_prerequisite_deadline, Instance
<1>5. l[d].status # "absent" => Kept(_reconcile_existing(l, c, d, exempt, blocked))
  <2> HIDE DEF exempt, blocked
  <2>1. /\ Kept(_hold_not_applicable(l[d])) /\ Kept(_activate(l, c, d))
        /\ l[d].status # "absent" => Kept(l[d]) /\ Kept(_refresh_prerequisite_deadline(l, d))
    BY <1>2, <1>3, <1>4
  <2> HIDE DEF Kept
  <2>2. QED  BY <2>1 DEF _reconcile_existing
<1>6. CASE l[d].status # "absent"
  <2>1. Kept(SyncOne(l, c, asOf, d))
    <3>1. SyncOne(l, c, asOf, d) \in {_hold_not_applicable(l[d]), l[d],
             _reconcile_existing(l, c, d, exempt, blocked)}
      BY <1>6 DEF SyncOne
    <3>2. Kept(l[d])
      BY <1>6
    <3> HIDE DEF Kept, exempt, blocked
    <3>3. QED  BY <1>2, <1>5, <1>6, <3>1, <3>2
  <2>2. QED  BY <1>6, <2>1
<1>7. CASE l[d].status = "absent"
  <2>1. SyncOne(l, c, asOf, d) \in {l[d], Blank, [Blank EXCEPT !.status = "not_applicable"]}
    BY <1>7 DEF SyncOne, outstanding_values
  <2>2. Blank.completed = NoDate /\ [Blank EXCEPT !.status = "not_applicable"].completed = NoDate
    BY DEF Blank
  <2>3. QED  BY <1>7, <2>1, <2>2
<1>8. QED  BY <1>6, <1>7

LEMMA SyncKeepsFile ==
    ASSUME NEW base \in List, NoRowNoDate(base), NEW c \in Context, NEW asOf
    PROVE  sync_volunteer_requirements(base, c, asOf) \in Keeping(base)
<1>1. ASSUME NEW l \in Keeping(base), NEW d \in Definition
      PROVE  [l EXCEPT ![d] = SyncOne(l, c, asOf, d)] \in Keeping(base)
  <2>1. l \in List
    BY DEF Keeping
  <2>2. SyncOne(l, c, asOf, d) \in Instance
    BY <2>1, SyncOneIsInstance
  <2>3. /\ SyncOne(l, c, asOf, d).completed = base[d].completed
        /\ base[d].status # "absent" => SyncOne(l, c, asOf, d).status # "absent"
    BY <2>1, SyncOneKeepsFile DEF Keeping, NoRowNoDate
  <2>4. QED  BY <2>1, <2>2, <2>3 DEF Keeping, List
<1>2. base \in Keeping(base)
  BY DEF Keeping
<1>3. QED  BY <1>1, <1>2, SyncKeeps

LEMMA RefreshKeepsFile ==
    ASSUME NEW base \in List, NoRowNoDate(base), NEW c \in Context, NEW asOf, NEW d
    PROVE  refresh_dependents(base, c, asOf, d) \in Keeping(base)
  BY SyncKeepsFile DEF refresh_dependents, Keeping

-----------------------------------------------------------------------------
(* The calendar behind the clock units, for every date.                      *)

Cal == INSTANCE Calendar

\* A month has at most 31 days and, in every year, at least 28.
LEMMA MonthLengths ==
    ASSUME NEW y \in Int, NEW m \in 1..12
    PROVE  Cal!MonthLength(y, m) \in 28..31
  BY DEF Cal!MonthLength

\* Division by twelve.
LEMMA Twelve ==
    ASSUME NEW i \in Int
    PROVE  /\ i \div 12 \in Int
           /\ i % 12 \in 0..11
           /\ i = 12 * (i \div 12) + (i % 12)
<1>1. i \div 12 \in Int  OBVIOUS
<1>2. i % 12 \in 0..11  OBVIOUS
<1>3. i = 12 * (i \div 12) + (i % 12)  OBVIOUS
<1>4. QED  BY <1>1, <1>2, <1>3

\* Counting months in one number, month 0 being January of year 0.
LEMMA MonthIndex ==
    ASSUME NEW y \in Int, NEW m \in 1..12, NEW n \in Int
    PROVE  LET index == m - 1 + n
           IN  /\ y + index \div 12 \in Int
               /\ (index % 12) + 1 \in 1..12
               /\ (y + index \div 12) * 12 + ((index % 12) + 1) = y * 12 + m + n
<1> DEFINE index == m - 1 + n
<1>1. /\ index \div 12 \in Int
      /\ index % 12 \in 0..11
      /\ index = 12 * (index \div 12) + (index % 12)
  <2>1. index \in Int  OBVIOUS
  <2> HIDE DEF index
  <2>2. QED  BY <2>1, Twelve
<1>2. QED  BY <1>1

\* The parts of a date.
LEMMA DateParts ==
    ASSUME NEW d, Cal!IsDate(d)
    PROVE  d.year \in Int /\ d.month \in 1..12 /\ d.day \in 1..31
  BY DEF Cal!IsDate

MonthOf(d) == d.year * 12 + d.month

LEMMA SameMonth ==
    ASSUME NEW y \in Int, NEW z \in Int, NEW m \in 1..12, NEW k \in 1..12,
           y * 12 + m = z * 12 + k
    PROVE  y = z /\ m = k
  OBVIOUS

\* Adding months moves that many months on and keeps the day or clamps it.
LEMMA MonthsAdd ==
    ASSUME NEW d, Cal!IsDate(d), NEW n \in Int
    PROVE  LET to == Cal!add_months_to(d, n)
               length == Cal!MonthLength(to.year, to.month)
           IN  /\ Cal!IsDate(to)
               /\ MonthOf(to) = MonthOf(d) + n
               /\ length \in 28..31
               /\ to.day = IF d.day < length THEN d.day ELSE length
<1> DEFINE index == d.month - 1 + n
           year == d.year + index \div 12
           month == (index % 12) + 1
           length == Cal!MonthLength(year, month)
           to == [year |-> year, month |-> month, day |-> IF d.day < length THEN d.day ELSE length]
<1>1. d.year \in Int /\ d.month \in 1..12 /\ d.day \in 1..31
  BY DateParts
<1>2. year \in Int /\ month \in 1..12 /\ year * 12 + month = d.year * 12 + d.month + n
  BY <1>1, MonthIndex
<1>3. Cal!add_months_to(d, n) = to
  BY DEF Cal!add_months_to
<1> HIDE DEF year, month
<1>4. length \in 28..31
  BY <1>2, MonthLengths
<1>5. to.year = year /\ to.month = month /\ to.day = IF d.day < length THEN d.day ELSE length
  OBVIOUS
<1>6. to \in [year : Int, month : 1..12, day : 1..31] /\ to.day <= length
  <2> HIDE DEF length
  <2>1. QED  BY <1>1, <1>2, <1>4
<1> HIDE DEF to
<1>7. Cal!IsDate(to)
  BY <1>5, <1>6 DEF Cal!IsDate
<1>8. MonthOf(to) = MonthOf(d) + n
  BY <1>1, <1>2, <1>5 DEF MonthOf
<1>9. QED  BY <1>3, <1>4, <1>5, <1>7, <1>8

\* Dates compare by month, then by day.
LEMMA BeforeIs ==
    ASSUME NEW c, Cal!IsDate(c), NEW d, Cal!IsDate(d)
    PROVE  /\ MonthOf(c) \in Int /\ MonthOf(d) \in Int
           /\ Cal!Before(c, d) <=> \/ MonthOf(c) < MonthOf(d)
                                   \/ MonthOf(c) = MonthOf(d) /\ c.day < d.day
<1>1. /\ c.year \in Int /\ c.month \in 1..12 /\ c.day \in 1..31
      /\ d.year \in Int /\ d.month \in 1..12 /\ d.day \in 1..31
  BY DateParts
<1>2. MonthOf(c) \in Int /\ MonthOf(d) \in Int
  BY <1>1 DEF MonthOf
<1>3. Cal!Before(c, d) <=> MonthOf(c) * 31 + c.day < MonthOf(d) * 31 + d.day
  BY DEF Cal!Before, Cal!Rank, MonthOf
<1>4. QED  BY <1>1, <1>2, <1>3

\* From the month of the eighteenth birthday on.
AtOrAfterMonth(birth, d) ==
    \/ d.year > birth.year + 18
    \/ d.year = birth.year + 18 /\ d.month >= birth.month

\* Dates in one month are in months of one length.
LEMMA OneMonth ==
    ASSUME NEW c, Cal!IsDate(c), NEW d, Cal!IsDate(d), MonthOf(c) = MonthOf(d)
    PROVE  c.year = d.year /\ c.month = d.month
  BY DateParts, SameMonth DEF MonthOf

\* add_months_to: whatever the months added or taken away, the result is a date.
THEOREM MonthsAreDates ==
    \A d : Cal!IsDate(d) => \A n \in Int : Cal!IsDate(Cal!add_months_to(d, n))
  BY MonthsAdd

\* add_months_to keeps the order of dates: who completes later is never due earlier.
THEOREM MonthsKeepOrder ==
    \A c, d : Cal!IsDate(c) /\ Cal!IsDate(d) /\ ~Cal!Before(d, c) =>
        \A n \in Int : ~Cal!Before(Cal!add_months_to(d, n), Cal!add_months_to(c, n))
<1> SUFFICES ASSUME NEW c, NEW d, Cal!IsDate(c), Cal!IsDate(d), ~Cal!Before(d, c), NEW n \in Int
             PROVE  ~Cal!Before(Cal!add_months_to(d, n), Cal!add_months_to(c, n))
  OBVIOUS
<1> DEFINE cto == Cal!add_months_to(c, n)
           dto == Cal!add_months_to(d, n)
           clength == Cal!MonthLength(cto.year, cto.month)
           dlength == Cal!MonthLength(dto.year, dto.month)
<1>1. /\ Cal!IsDate(cto) /\ MonthOf(cto) = MonthOf(c) + n /\ clength \in 28..31
      /\ cto.day = IF c.day < clength THEN c.day ELSE clength
  BY MonthsAdd
<1>2. /\ Cal!IsDate(dto) /\ MonthOf(dto) = MonthOf(d) + n /\ dlength \in 28..31
      /\ dto.day = IF d.day < dlength THEN d.day ELSE dlength
  BY MonthsAdd
<1>3. MonthOf(c) = MonthOf(d) => clength = dlength
  <2> HIDE DEF cto, dto
  <2>1. MonthOf(c) = MonthOf(d) => cto.year = dto.year /\ cto.month = dto.month
    BY <1>1, <1>2, OneMonth
  <2>2. QED  BY <2>1
<1> HIDE DEF cto, dto, clength, dlength
<1>4. c.day \in 1..31 /\ d.day \in 1..31 /\ MonthOf(c) \in Int /\ MonthOf(d) \in Int
  BY DateParts, BeforeIs
<1>5. MonthOf(c) < MonthOf(d) \/ (MonthOf(c) = MonthOf(d) /\ c.day <= d.day)
  <2>1. ~(MonthOf(d) < MonthOf(c) \/ (MonthOf(d) = MonthOf(c) /\ d.day < c.day))
    BY BeforeIs
  <2>2. QED  BY <1>4, <2>1
<1>6. MonthOf(cto) < MonthOf(dto) \/ (MonthOf(cto) = MonthOf(dto) /\ cto.day <= dto.day)
  <2>1. CASE MonthOf(c) < MonthOf(d)
    BY <1>1, <1>2, <1>4, <2>1
  <2>2. CASE MonthOf(c) = MonthOf(d) /\ c.day <= d.day
    BY <1>1, <1>2, <1>3, <1>4, <2>2
  <2>3. QED  BY <1>5, <2>1, <2>2
<1>7. ~Cal!Before(dto, cto)
  <2>1. cto.day \in 1..31 /\ dto.day \in 1..31
    BY <1>1, <1>2, DateParts
  <2>2. QED  BY <1>1, <1>2, <1>6, <2>1, BeforeIs
<1>8. QED  BY <1>7 DEF cto, dto

\* A deadline counted in two steps is never later than the one counted in one (the
\* day is clamped once more), and falls in the same month.
THEOREM StepsNeverLate ==
    \A d : Cal!IsDate(d) => \A m, n \in Int :
        LET once == Cal!add_months_to(d, m + n)
            twice == Cal!add_months_to(Cal!add_months_to(d, m), n)
        IN  ~Cal!Before(once, twice) /\ once.year = twice.year /\ once.month = twice.month
<1> SUFFICES ASSUME NEW d, Cal!IsDate(d), NEW m \in Int, NEW n \in Int
             PROVE  LET once == Cal!add_months_to(d, m + n)
                        twice == Cal!add_months_to(Cal!add_months_to(d, m), n)
                    IN  /\ ~Cal!Before(once, twice)
                        /\ once.year = twice.year /\ once.month = twice.month
  OBVIOUS
<1> DEFINE once == Cal!add_months_to(d, m + n)
           half == Cal!add_months_to(d, m)
           twice == Cal!add_months_to(half, n)
           length == Cal!MonthLength(once.year, once.month)
           hlength == Cal!MonthLength(half.year, half.month)
<1>1. /\ Cal!IsDate(once) /\ MonthOf(once) = MonthOf(d) + (m + n) /\ length \in 28..31
      /\ once.day = IF d.day < length THEN d.day ELSE length
  BY MonthsAdd
<1>2. /\ Cal!IsDate(half) /\ MonthOf(half) = MonthOf(d) + m /\ hlength \in 28..31
      /\ half.day = IF d.day < hlength THEN d.day ELSE hlength
  BY MonthsAdd
<1> HIDE DEF half
<1>3. /\ Cal!IsDate(twice) /\ MonthOf(twice) = MonthOf(half) + n
      /\ twice.day = IF half.day < Cal!MonthLength(twice.year, twice.month)
                     THEN half.day ELSE Cal!MonthLength(twice.year, twice.month)
  BY <1>2, MonthsAdd
<1> HIDE DEF once, twice
<1>4. MonthOf(d) \in Int /\ d.day \in 1..31
  BY BeforeIs, DateParts
<1>5. once.year = twice.year /\ once.month = twice.month /\ MonthOf(once) = MonthOf(twice)
  <2>1. MonthOf(once) = MonthOf(twice)
    BY <1>1, <1>2, <1>3, <1>4
  <2>2. QED  BY <1>1, <1>3, <2>1, OneMonth
<1>6. twice.day = IF half.day < length THEN half.day ELSE length
  BY <1>3, <1>5
<1> HIDE DEF length, hlength
<1>7. ~(once.day < twice.day)
  BY <1>1, <1>2, <1>4, <1>6
<1>8. ~Cal!Before(once, twice)
  BY <1>1, <1>3, <1>5, <1>7, BeforeIs
<1>9. QED  BY <1>5, <1>8 DEF once, twice, half

\* is_adult_on and eighteenth_birthday_trigger_date: the deadline of the check on turning
\* 18 starts on the very day the volunteer begins to count as an adult.
THEOREM AdultFromTrigger ==
    \A birth, d : Cal!IsDate(birth) /\ Cal!IsDate(d) =>
        /\ Cal!IsDate(Cal!eighteenth_birthday_trigger_date(birth))
        /\ Cal!is_adult_on(birth, d)
              <=> ~Cal!Before(d, Cal!eighteenth_birthday_trigger_date(birth))
<1> SUFFICES ASSUME NEW birth, NEW d, Cal!IsDate(birth), Cal!IsDate(d)
             PROVE  /\ Cal!IsDate(Cal!eighteenth_birthday_trigger_date(birth))
                    /\ Cal!is_adult_on(birth, d)
                          <=> ~Cal!Before(d, Cal!eighteenth_birthday_trigger_date(birth))
  OBVIOUS
<1> DEFINE trigger == Cal!eighteenth_birthday_trigger_date(birth)
<1>1. /\ birth.year \in Int /\ birth.month \in 1..12
      /\ d.year \in Int /\ d.month \in 1..12 /\ d.day \in 1..31
  BY DateParts
<1>2. /\ trigger \in [year : Int, month : 1..12, day : 1..31]
      /\ trigger.year = birth.year + 18 /\ trigger.month = birth.month /\ trigger.day = 1
  BY <1>1 DEF Cal!eighteenth_birthday_trigger_date
<1> HIDE DEF trigger
<1>3. Cal!IsDate(trigger)
  <2>1. Cal!MonthLength(trigger.year, trigger.month) \in 28..31
    BY <1>2, MonthLengths
  <2>2. QED  BY <1>2, <2>1 DEF Cal!IsDate
<1>4. Cal!Before(d, trigger) <=> d.year * 12 + d.month < (birth.year + 18) * 12 + birth.month
  <2>1. ~(d.day < trigger.day)
    BY <1>1, <1>2
  <2>2. Cal!Before(d, trigger) <=> MonthOf(d) < MonthOf(trigger)
    BY <1>3, <2>1, BeforeIs
  <2>3. QED  BY <1>2, <2>2 DEF MonthOf
<1>5. Cal!is_adult_on(birth, d) <=> AtOrAfterMonth(birth, d)
  BY <1>1 DEF Cal!is_adult_on, Cal!age_on, Cal!AtLeast0, AtOrAfterMonth
<1>6. AtOrAfterMonth(birth, d) <=> ~(d.year * 12 + d.month < (birth.year + 18) * 12 + birth.month)
  BY <1>1 DEF AtOrAfterMonth
<1>7. QED  BY <1>3, <1>4, <1>5, <1>6 DEF trigger

\* is_adult_on, which knows only the month of birth, is "never late", and early by less
\* than a month.
THEOREM AdultNeverLate ==
    \A birth, d : Cal!IsDate(birth) /\ Cal!IsDate(d) =>
        /\ Cal!exact_age(birth, d) >= 18 => Cal!is_adult_on(birth, d)
        /\ Cal!is_adult_on(birth, d) => Cal!exact_age(birth, Cal!add_months_to(d, 1)) >= 18
<1> SUFFICES ASSUME NEW birth, NEW d, Cal!IsDate(birth), Cal!IsDate(d)
             PROVE  /\ Cal!exact_age(birth, d) >= 18 => Cal!is_adult_on(birth, d)
                    /\ Cal!is_adult_on(birth, d)
                          => Cal!exact_age(birth, Cal!add_months_to(d, 1)) >= 18
  OBVIOUS
<1> DEFINE next == Cal!add_months_to(d, 1)
<1>1. /\ birth.year \in Int /\ birth.month \in 1..12 /\ birth.day \in 1..31
      /\ d.year \in Int /\ d.month \in 1..12 /\ d.day \in 1..31
  BY DateParts
<1>2. Cal!IsDate(next) /\ MonthOf(next) = MonthOf(d) + 1
  BY MonthsAdd
<1> HIDE DEF next
<1>3. next.year \in Int /\ next.month \in 1..12
  BY <1>2, DateParts
<1>4. Cal!is_adult_on(birth, d) <=> AtOrAfterMonth(birth, d)
  BY <1>1 DEF Cal!is_adult_on, Cal!age_on, Cal!AtLeast0, AtOrAfterMonth
<1>5. Cal!exact_age(birth, d) >= 18 => AtOrAfterMonth(birth, d)
  BY <1>1 DEF Cal!exact_age, AtOrAfterMonth
<1>6. ASSUME AtOrAfterMonth(birth, d) PROVE Cal!exact_age(birth, next) >= 18
  <2>1. (birth.year + 18) * 12 + birth.month < next.year * 12 + next.month
    BY <1>1, <1>2, <1>3, <1>6 DEF AtOrAfterMonth, MonthOf
  <2>2. \/ next.year > birth.year + 18
        \/ next.year = birth.year + 18 /\ next.month > birth.month
    BY <1>1, <1>3, <2>1
  <2>3. QED  BY <1>1, <1>3, <2>2 DEF Cal!exact_age
<1>7. QED  BY <1>4, <1>5, <1>6 DEF next

\* onboarding_window_breached, which counts back from today, never warns before the three
\* months, counted forward as deadlines are, have run out.
THEOREM WindowNeverEarly ==
    \A first, d : Cal!IsDate(first) /\ Cal!IsDate(d) /\ Cal!onboarding_window_breached(first, d) =>
        Cal!Before(Cal!add_months_to(first, 3), d)
<1> SUFFICES ASSUME NEW first, NEW d, Cal!IsDate(first), Cal!IsDate(d),
                    Cal!onboarding_window_breached(first, d)
             PROVE  Cal!Before(Cal!add_months_to(first, 3), d)
  OBVIOUS
<1> DEFINE due == Cal!add_months_to(first, 3)
           back == Cal!add_months_to(d, -3)
<1>1. /\ Cal!IsDate(due) /\ MonthOf(due) = MonthOf(first) + 3 /\ ~(first.day < due.day)
  <2> DEFINE length == Cal!MonthLength(due.year, due.month)
  <2>1. /\ Cal!IsDate(due) /\ MonthOf(due) = MonthOf(first) + 3 /\ length \in 28..31
        /\ due.day = IF first.day < length THEN first.day ELSE length
    BY MonthsAdd
  <2>2. first.day \in 1..31
    BY DateParts
  <2> HIDE DEF due, length
  <2>3. QED  BY <2>1, <2>2
<1>2. /\ Cal!IsDate(back) /\ MonthOf(back) = MonthOf(d) + (-3) /\ ~(d.day < back.day)
  <2> DEFINE length == Cal!MonthLength(back.year, back.month)
  <2>1. /\ Cal!IsDate(back) /\ MonthOf(back) = MonthOf(d) + (-3) /\ length \in 28..31
        /\ back.day = IF d.day < length THEN d.day ELSE length
    BY MonthsAdd
  <2>2. d.day \in 1..31
    BY DateParts
  <2> HIDE DEF back, length
  <2>3. QED  BY <2>1, <2>2
<1>3. Cal!Before(first, back)
  BY DEF Cal!onboarding_window_breached
<1> HIDE DEF due, back
<1>4. \/ MonthOf(first) < MonthOf(back)
      \/ MonthOf(first) = MonthOf(back) /\ first.day < back.day
  BY <1>2, <1>3, BeforeIs
<1>5. /\ MonthOf(first) \in Int /\ MonthOf(d) \in Int
      /\ first.day \in 1..31 /\ due.day \in 1..31 /\ back.day \in 1..31 /\ d.day \in 1..31
  BY <1>1, <1>2, BeforeIs, DateParts
<1>6. \/ MonthOf(due) < MonthOf(d)
      \/ MonthOf(due) = MonthOf(d) /\ due.day < d.day
  BY <1>1, <1>2, <1>4, <1>5
<1>7. QED  BY <1>1, <1>6, BeforeIs DEF due
===============================================================================
