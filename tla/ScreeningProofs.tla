---------------------------- MODULE ScreeningProofs ----------------------------
(***************************************************************************)
(* For every church and any number of checks: requests that see the        *)
(* volunteer's current row keep to the screening policy, a                 *)
(* disqualification is permanent and leaves no role behind, and a          *)
(* clearance is backed by an operative check, whatever is sent back.       *)
(***************************************************************************)
EXTENDS Screening, RequirementsProofs

(***************************************************************************)
(* Everything the screening block and the roles can do in one step, told   *)
(* in the policy's own terms. The rows and the checks play no part in it.  *)
(***************************************************************************)
LEMMA LiftIsPolicy ==
    ASSUME lift_screening_block(volunteer), UNCHANGED roles
    PROVE  Policy!Lift \/ UNCHANGED <<block, roles>>
  BY DEF lift_screening_block, set_screening_block, volunteer, Policy!Lift

\* A request that works on the current volunteer row takes a policy step.
LEMMA RequestIsPolicy ==
    ASSUME roles \in SUBSET Role, Request(volunteer)
    PROVE  Policy!PNext \/ UNCHANGED <<block, roles>>
<1>1. ASSUME NEW result \in {"cleared", "not_clear"}, NEW date, NEW scoped,
             record_crc(volunteer, result, date, scoped)
      PROVE  Policy!PNext \/ UNCHANGED <<block, roles>>
  <2>1. CASE result = "cleared"
    <3>1. lift_screening_block(volunteer) /\ UNCHANGED roles
      BY <1>1, <2>1 DEF record_crc
    <3>2. QED  BY <3>1, LiftIsPolicy DEF Policy!PNext
  <2>2. CASE result = "not_clear"
    <3>1. /\ volunteer.block # "disqualified"
          /\ set_screening_block(volunteer, "crc_not_clear")
          /\ UNCHANGED roles
      BY <1>1, <2>2 DEF record_crc
    <3>2. Policy!NotClear
      BY <3>1 DEF Policy!NotClear, set_screening_block, volunteer
    <3>3. QED  BY <3>2 DEF Policy!PNext
  <2>3. QED  BY <2>1, <2>2
<1>2. ASSUME NEW n, NEW decision, record_discretionary_override(volunteer, n, decision)
      PROVE  Policy!PNext \/ UNCHANGED <<block, roles>>
  <2>1. CASE decision = "declined"
    <3>1. /\ volunteer.block # "disqualified"
          /\ set_screening_block(volunteer, "withdrawn")
          /\ roles' = {}
      BY <1>2, <2>1 DEF record_discretionary_override
    <3>2. Policy!Withdraw
      BY <3>1 DEF Policy!Withdraw, set_screening_block, volunteer
    <3>3. QED  BY <3>2 DEF Policy!PNext
  <2>2. CASE decision # "declined"
    <3>1. lift_screening_block(volunteer) /\ UNCHANGED roles
      BY <1>2, <2>2 DEF record_discretionary_override
    <3>2. QED  BY <3>1, LiftIsPolicy DEF Policy!PNext
  <2>3. QED  BY <2>1, <2>2
<1>3. ASSUME NEW n, NEW outcome, resolve_not_clear(volunteer, n, outcome)
      PROVE  Policy!PNext \/ UNCHANGED <<block, roles>>
  <2>1. CASE outcome = "withdrew"
    <3>1. set_screening_block(volunteer, "withdrawn") /\ roles' = {}
      BY <1>3, <2>1 DEF resolve_not_clear
    <3>2. Policy!Withdraw
      BY <3>1 DEF Policy!Withdraw, set_screening_block, volunteer
    <3>3. QED  BY <3>2 DEF Policy!PNext
  <2>2. CASE outcome # "withdrew"
    BY <1>3, <2>2 DEF resolve_not_clear
  <2>3. QED  BY <2>1, <2>2
<1>4. ASSUME NEW r \in Role, assignment_create(volunteer, r)
      PROVE  Policy!PNext
  <2>1. Policy!Assign
    BY <1>4 DEF assignment_create, Policy!Assign, volunteer
  <2>2. QED  BY <2>1 DEF Policy!PNext
<1>5. ASSUME volunteer_edit(volunteer)
      PROVE  UNCHANGED <<block, roles>>
  BY <1>5 DEF volunteer_edit, volunteer
<1>6. ASSUME volunteer_reactivate(volunteer)
      PROVE  UNCHANGED <<block, roles>>
  BY <1>6 DEF volunteer_reactivate
<1>7. QED  BY <1>1, <1>2, <1>3, <1>4, <1>5, <1>6 DEF Request

\* So does every request that does not look at the row it loaded.
LEMMA OtherRequestIsPolicy ==
    ASSUME roles \in SUBSET Role, OtherRequest
    PROVE  Policy!PNext \/ UNCHANGED <<block, roles>>
<1>1. ASSUME NEW n, NEW flag, record_convictions(n, flag)
      PROVE  Policy!PNext \/ UNCHANGED <<block, roles>>
  <2>1. CASE flag = "automatic"
    <3>1. Policy!Disqualify
      BY <1>1, <2>1 DEF record_convictions, Policy!Disqualify
    <3>2. QED  BY <3>1 DEF Policy!PNext
  <2>2. CASE flag # "automatic"
    BY <1>1, <2>2 DEF record_convictions
  <2>3. QED  BY <2>1, <2>2
<1>2. ASSUME NEW r \in Role, assignment_end(r)
      PROVE  Policy!PNext
  <2>1. Policy!End
    BY <1>2 DEF assignment_end, Policy!End
  <2>2. QED  BY <2>1 DEF Policy!PNext
<1>3. ASSUME NEW e \in BOOLEAN, volunteer_deactivate(e)
      PROVE  Policy!PNext
  <2>1. Policy!End
    BY <1>3 DEF volunteer_deactivate, Policy!End
  <2>2. QED  BY <2>1 DEF Policy!PNext
<1>4. ASSUME Resync
      PROVE  UNCHANGED <<block, roles>>
  BY <1>4 DEF Resync
<1>5. ASSUME NEW n, affirm(n)
      PROVE  UNCHANGED <<block, roles>>
  BY <1>5 DEF affirm
<1>6. ASSUME NEW n, _send_back_crc(n)
      PROVE  Policy!PNext \/ UNCHANGED <<block, roles>>
  <2>1. CASE Retractable(n)
    <3>1. lift_screening_block(volunteer) /\ UNCHANGED roles
      BY <1>6, <2>1 DEF _send_back_crc
    <3>2. QED  BY <3>1, LiftIsPolicy DEF Policy!PNext
  <2>2. CASE ~Retractable(n)
    BY <1>6, <2>2 DEF _send_back_crc
  <2>3. QED  BY <2>1, <2>2
<1>7. QED  BY <1>1, <1>2, <1>3, <1>4, <1>5, <1>6 DEF OtherRequest

\* The policy keeps the roles well-typed and off a disqualified volunteer.
PolicyInv == roles \in SUBSET Role /\ DisqualifiedHoldNoRole

LEMMA PolicyKeepsInv ==
    ASSUME PolicyInv, Policy!PNext \/ UNCHANGED <<block, roles>>
    PROVE  PolicyInv' /\ (block = "disqualified" => block' = "disqualified")
<1>1. CASE UNCHANGED <<block, roles>>
  BY <1>1 DEF PolicyInv, DisqualifiedHoldNoRole
<1>2. CASE Policy!NotClear
  BY <1>2 DEF PolicyInv, DisqualifiedHoldNoRole, Policy!NotClear
<1>3. CASE Policy!Lift
  BY <1>3 DEF PolicyInv, DisqualifiedHoldNoRole, Policy!Lift
<1>4. CASE Policy!Withdraw
  BY <1>4 DEF PolicyInv, DisqualifiedHoldNoRole, Policy!Withdraw
<1>5. CASE Policy!Disqualify
  BY <1>5 DEF PolicyInv, DisqualifiedHoldNoRole, Policy!Disqualify
<1>6. CASE Policy!Assign
  BY <1>6 DEF PolicyInv, DisqualifiedHoldNoRole, Policy!Assign
<1>7. CASE Policy!End
  BY <1>7 DEF PolicyInv, DisqualifiedHoldNoRole, Policy!End
<1>8. QED  BY <1>1, <1>2, <1>3, <1>4, <1>5, <1>6, <1>7 DEF Policy!PNext

LEMMA InitIsPolicy ==
    ASSUME SInit
    PROVE  PolicyInv /\ Policy!PInit
  BY DEF SInit, PolicyInv, DisqualifiedHoldNoRole, Policy!PInit

LEMMA StepIsPolicy ==
    ASSUME PolicyInv, [SNext]_svars
    PROVE  Policy!PNext \/ UNCHANGED <<block, roles>>
<1>1. CASE Request(volunteer)
  BY <1>1, RequestIsPolicy DEF PolicyInv
<1>2. CASE OtherRequest
  BY <1>2, OtherRequestIsPolicy DEF PolicyInv
<1>3. CASE UNCHANGED svars
  BY <1>3 DEF svars
<1>4. QED  BY <1>1, <1>2, <1>3 DEF SNext

(***************************************************************************)
(* The disqualification ends every role and RoleAssignment.clean lets      *)
(* nobody place the volunteer again.                                       *)
(***************************************************************************)
THEOREM DisqualifiedNeverServe == SSpec => []DisqualifiedHoldNoRole
<1>1. SInit => PolicyInv
  BY InitIsPolicy
<1>2. PolicyInv /\ [SNext]_svars => PolicyInv'
  BY StepIsPolicy, PolicyKeepsInv
<1>3. PolicyInv => DisqualifiedHoldNoRole
  BY DEF PolicyInv
<1>4. QED  BY <1>1, <1>2, <1>3, PTL DEF SSpec

(***************************************************************************)
(* Whatever is recorded, resolved, edited or sent back afterwards, nothing *)
(* lifts an automatic disqualification (set_screening_block).              *)
(***************************************************************************)
THEOREM DisqualificationStands == SSpec => DisqualificationIsPermanent
<1>1. SInit => PolicyInv
  BY InitIsPolicy
<1>2. PolicyInv /\ [SNext]_svars => PolicyInv'
  BY StepIsPolicy, PolicyKeepsInv
<1>3. PolicyInv /\ [SNext]_svars
      => [block = "disqualified" => block' = "disqualified"]_svars
  BY StepIsPolicy, PolicyKeepsInv
<1>4. QED  BY <1>1, <1>2, <1>3, PTL DEF SSpec, DisqualificationIsPermanent

(***************************************************************************)
(* The detailed screening implements the policy: the block and the roles   *)
(* move only as the abstract specification allows.                         *)
(***************************************************************************)
THEOREM ImplementsPolicy == SSpec => FollowsPolicy
<1>1. SInit => PolicyInv /\ Policy!PInit
  BY InitIsPolicy
<1>2. PolicyInv /\ [SNext]_svars => PolicyInv'
  BY StepIsPolicy, PolicyKeepsInv
<1>3. PolicyInv /\ [SNext]_svars => [Policy!PNext]_(Policy!pvars)
  BY StepIsPolicy DEF Policy!pvars
<1>4. QED  BY <1>1, <1>2, <1>3, PTL DEF SSpec, FollowsPolicy, Policy!PSpec

-----------------------------------------------------------------------------
(* What backs a clearance                                                    *)

Check ==
    [result : {"cleared", "not_clear"}, date : Date, supersededBy : Nat,
     flags : SUBSET {"automatic", "discretionary"}, decided : BOOLEAN,
     outcome : {"", "pending", "fingerprint", "withdrew"},
     item : {"none", "pending", "affirmed", "sent_back"},
     row : Definition \cup {NoDefinition}, rowBefore : Instance, previous : Nat]

\* The row crc_instance_for finds in the list l.
CheckRowAt(l) == {k \in DOMAIN Order : Order[k] \in Crc /\ l[Order[k]].status # "absent"}

CheckRow(l) ==
    IF CheckRowAt(l) = {} THEN NoDefinition
    ELSE Order[CHOOSE k \in CheckRowAt(l) : \A j \in CheckRowAt(l) : k <= j]

RowsExist ==
    \A n \in DOMAIN checks :
        checks[n].row # NoDefinition => inst[checks[n].row].status # "absent"

LastOperates == checks # <<>> => checks[Len(checks)].supersededBy = 0

BackedBy(m, d, date) ==
    checks[m].result = "cleared" /\ checks[m].date = date /\ checks[m].row = d

RowBacked(d) ==
    inst[d].completed # NoDate => \E m \in Operative : BackedBy(m, d, inst[d].completed)

\* What a retraction would put back is the date of an earlier cleared check: one that
\* is operative, or the one that the retraction makes operative again.
SnapshotsBacked(d) ==
    \A n \in DOMAIN checks :
        checks[n].row = d /\ checks[n].rowBefore.completed # NoDate =>
            \E m \in 1..(n-1) : /\ BackedBy(m, d, checks[n].rowBefore.completed)
                                /\ m \in Operative \/ m = n - 1

DisplacesPrevious == \A n \in DOMAIN checks : checks[n].previous = n - 1

Backed ==
    InDateOrder =>
        /\ DisplacesPrevious
        /\ CheckRow(inst) # NoDefinition =>
              RowBacked(CheckRow(inst)) /\ SnapshotsBacked(CheckRow(inst))

FileTypes ==
    /\ roles \in SUBSET Role
    /\ inst \in List
    /\ checks \in Seq(Check)

FileInv == FileTypes /\ NoRowNoDate(inst) /\ RowsExist /\ LastOperates /\ Backed

LEMMA OrderIs == \A k \in DOMAIN Order : k \in Nat /\ Order[k] \in Definition
<1>1. Order \in Seq(Definition)
  BY RequirementsAssumption DEF RequirementsAssumption
<1>2. QED  BY <1>1

LEMMA CheckRowIs ==
    ASSUME NEW l
    PROVE  /\ CheckRow(l) = NoDefinition <=> CheckRowAt(l) = {}
           /\ CheckRowAt(l) # {} =>
                 \E k \in CheckRowAt(l) :
                     CheckRow(l) = Order[k] /\ \A j \in CheckRowAt(l) : k <= j
<1>1. \A k \in DOMAIN Order : k \in Nat /\ Order[k] \in Definition
  BY OrderIs
<1>2. CheckRowAt(l) \in SUBSET Nat /\ CheckRowAt(l) \subseteq DOMAIN Order
  BY <1>1 DEF CheckRowAt
<1>3. CASE CheckRowAt(l) = {}
  BY <1>3 DEF CheckRow
<1>4. CASE CheckRowAt(l) # {}
  <2>1. \E k \in CheckRowAt(l) : \A j \in CheckRowAt(l) : k <= j
    BY <1>2, <1>4, LeastNatural
  <2>2. PICK k \in CheckRowAt(l) :
          CheckRow(l) = Order[k] /\ \A j \in CheckRowAt(l) : k <= j
    BY <1>4, <2>1 DEF CheckRow
  <2>3. CheckRow(l) # NoDefinition
    BY <1>1, <1>2, <2>2, RequirementsAssumption DEF RequirementsAssumption
  <2>4. QED  BY <1>4, <2>2, <2>3
<1>5. QED  BY <1>3, <1>4

\* The check's row is a row there is.
LEMMA CheckRowExists ==
    ASSUME NEW l, CheckRow(l) # NoDefinition
    PROVE  CheckRow(l) \in Crc /\ CheckRow(l) \in Definition /\ l[CheckRow(l)].status # "absent"
<1>1. PICK k \in CheckRowAt(l) : CheckRow(l) = Order[k]
  BY CheckRowIs
<1>2. QED  BY <1>1, RequirementsAssumption DEF RequirementsAssumption, CheckRowAt

\* When rows are only added, the check's row stays what it is or is a row added.
LEMMA CheckRowMoves ==
    ASSUME NEW base, NEW l,
           \A d \in Definition : base[d].status # "absent" => l[d].status # "absent",
           CheckRow(l) # CheckRow(base)
    PROVE  CheckRow(l) # NoDefinition /\ base[CheckRow(l)].status = "absent"
<1>1. \A k \in DOMAIN Order : Order[k] \in Definition /\ k \in Nat
  BY OrderIs
<1>2. CheckRowAt(base) \subseteq CheckRowAt(l)
  BY <1>1 DEF CheckRowAt
<1>3. CheckRow(l) # NoDefinition
  <2>1. CASE CheckRowAt(l) = {}
    BY <1>2, <2>1, CheckRowIs
  <2>2. QED  BY <2>1, CheckRowIs
<1>4. PICK k \in CheckRowAt(l) :
        CheckRow(l) = Order[k] /\ \A j \in CheckRowAt(l) : k <= j
  BY <1>3, CheckRowIs
<1>5. ASSUME base[Order[k]].status # "absent" PROVE FALSE
  <2>1. k \in CheckRowAt(base)
    BY <1>4, <1>5 DEF CheckRowAt
  <2>2. PICK j \in CheckRowAt(base) :
          CheckRow(base) = Order[j] /\ \A i \in CheckRowAt(base) : j <= i
    BY <2>1, CheckRowIs
  <2>3. k <= j /\ j <= k /\ j \in Nat /\ k \in Nat
    BY <1>1, <1>2, <1>4, <2>1, <2>2 DEF CheckRowAt
  <2>4. j = k
    BY <2>3
  <2>5. QED  BY <1>4, <2>2, <2>4
<1>6. QED  BY <1>3, <1>4, <1>5

\* Lists with the same rows have the same check's row.
LEMMA CheckRowOf ==
    ASSUME NEW base, NEW l,
           \A d \in Definition : base[d].status = "absent" <=> l[d].status = "absent"
    PROVE  CheckRow(l) = CheckRow(base)
<1>1. \A k \in DOMAIN Order : Order[k] \in Definition
  BY OrderIs
<1>2. CheckRowAt(l) = CheckRowAt(base)
  BY <1>1 DEF CheckRowAt
<1>3. QED  BY <1>2 DEF CheckRow

-----------------------------------------------------------------------------
(* One step's effect on the rows: base is the list as the step wrote it, inst' what   *)
(* the synchronisation behind the write makes of it.                                   *)

Written(base) ==
    /\ base \in List
    /\ NoRowNoDate(base)
    /\ \A d \in Definition : base[d].status = "absent" <=> inst[d].status = "absent"
    /\ inst' \in Keeping(base)

LEMMA RowsAfter ==
    ASSUME NEW base, Written(base), FileTypes
    PROVE  /\ inst' \in List
           /\ NoRowNoDate(inst')
           /\ \A d \in Definition : /\ inst'[d].completed = base[d].completed
                                    /\ inst[d].status # "absent" => inst'[d].status # "absent"
           /\ CheckRow(inst') # CheckRow(inst) =>
                 /\ CheckRow(inst') \in Definition
                 /\ inst[CheckRow(inst')].status = "absent"
                 /\ inst'[CheckRow(inst')].completed = NoDate
<1>1. /\ inst' \in List
      /\ \A d \in Definition : /\ inst'[d].completed = base[d].completed
                               /\ base[d].status # "absent" => inst'[d].status # "absent"
  BY DEF Written, Keeping
<1>2. /\ NoRowNoDate(base)
      /\ \A d \in Definition : base[d].status = "absent" <=> inst[d].status = "absent"
  BY DEF Written
<1>3. NoRowNoDate(inst')
  BY <1>1, <1>2 DEF NoRowNoDate
<1>4. ASSUME CheckRow(inst') # CheckRow(inst)
      PROVE  /\ CheckRow(inst') \in Definition
             /\ inst[CheckRow(inst')].status = "absent"
             /\ inst'[CheckRow(inst')].completed = NoDate
  <2>1. CheckRow(inst') # NoDefinition /\ inst[CheckRow(inst')].status = "absent"
    BY <1>1, <1>2, <1>4, CheckRowMoves
  <2>2. CheckRow(inst') \in Definition
    BY <2>1, CheckRowExists
  <2>3. base[CheckRow(inst')].completed = NoDate
    BY <1>2, <2>1, <2>2 DEF NoRowNoDate
  <2>4. QED  BY <1>1, <2>1, <2>2, <2>3
<1>5. QED  BY <1>1, <1>2, <1>3, <1>4

\* What no later request changes of a check on file.
CheckKept(n) ==
    /\ checks'[n].result = checks[n].result
    /\ checks'[n].date = checks[n].date
    /\ checks'[n].row = checks[n].row
    /\ checks'[n].rowBefore = checks[n].rowBefore
    /\ checks'[n].previous = checks[n].previous

\* A request that records no check keeps all that is on file and displaces nothing.
NothingDisplaced ==
    /\ checks' \in Seq(Check)
    /\ Len(checks') = Len(checks)
    /\ \A n \in DOMAIN checks :
          CheckKept(n) /\ checks'[n].supersededBy \in {checks[n].supersededBy, 0}

\* Then the file keeps its invariant if the check's row as written is still backed.
LEMMA FileKept ==
    ASSUME FileInv, NothingDisplaced, roles' \in SUBSET Role,
           NEW base, Written(base),
           InDateOrder /\ CheckRow(inst) # NoDefinition
               /\ base[CheckRow(inst)].completed # NoDate =>
                   \E m \in DOMAIN checks :
                       /\ checks'[m].supersededBy = 0
                       /\ BackedBy(m, CheckRow(inst), base[CheckRow(inst)].completed)
    PROVE  FileInv'
<1>1. /\ FileTypes /\ NoRowNoDate(inst) /\ RowsExist /\ LastOperates /\ Backed
      /\ checks \in Seq(Check)
  BY DEF FileInv, FileTypes
<1>2. /\ checks' \in Seq(Check) /\ Len(checks') = Len(checks)
      /\ DOMAIN checks' = DOMAIN checks /\ DOMAIN checks = 1..Len(checks)
      /\ Len(checks) \in Nat
  BY <1>1 DEF NothingDisplaced
<1>3. \A n \in DOMAIN checks :
         CheckKept(n) /\ checks'[n].supersededBy \in {checks[n].supersededBy, 0}
  BY DEF NothingDisplaced
<1>4. /\ inst' \in List
      /\ NoRowNoDate(inst')
      /\ \A d \in Definition : /\ inst'[d].completed = base[d].completed
                               /\ inst[d].status # "absent" => inst'[d].status # "absent"
      /\ CheckRow(inst') # CheckRow(inst) =>
            /\ CheckRow(inst') \in Definition
            /\ inst[CheckRow(inst')].status = "absent"
            /\ inst'[CheckRow(inst')].completed = NoDate
  BY <1>1, RowsAfter
<1>5. FileTypes'
  BY <1>2, <1>4 DEF FileTypes
<1>6. RowsExist'
  <2>1. SUFFICES ASSUME NEW n \in DOMAIN checks', checks'[n].row # NoDefinition
                 PROVE  inst'[checks'[n].row].status # "absent"
    BY DEF RowsExist
  <2>2. checks'[n].row = checks[n].row /\ checks[n] \in Check
    BY <1>1, <1>2, <1>3 DEF CheckKept
  <2>3. checks[n].row \in Definition
    BY <2>1, <2>2 DEF Check
  <2>4. QED  BY <1>1, <1>2, <1>4, <2>1, <2>2, <2>3 DEF RowsExist
<1>7. LastOperates'
  <2>1. SUFFICES ASSUME checks' # <<>> PROVE checks'[Len(checks')].supersededBy = 0
    BY DEF LastOperates
  <2>2. checks # <<>> /\ Len(checks) \in DOMAIN checks
    BY <1>1, <1>2, <2>1
  <2>3. QED  BY <1>1, <1>2, <1>3, <2>2 DEF LastOperates
<1>8. Operative \subseteq Operative'
  BY <1>2, <1>3 DEF Operative
<1>9. Backed'
  <2>1. SUFFICES ASSUME InDateOrder'
                 PROVE  /\ DisplacesPrevious'
                        /\ CheckRow(inst') # NoDefinition =>
                              /\ RowBacked(CheckRow(inst))'
                              /\ SnapshotsBacked(CheckRow(inst))'
    BY DEF Backed
  <2>2. InDateOrder
    BY <1>2, <1>3, <2>1 DEF InDateOrder, CheckKept
  <2>3. DisplacesPrevious'
    BY <1>1, <1>2, <1>3, <2>2 DEF Backed, DisplacesPrevious, CheckKept
  <2>4. ASSUME NEW m \in DOMAIN checks, NEW d, NEW date, BackedBy(m, d, date)
        PROVE  checks'[m].result = "cleared" /\ checks'[m].date = date /\ checks'[m].row = d
    BY <1>3, <2>4 DEF BackedBy, CheckKept
  <2>5. CASE CheckRow(inst') = CheckRow(inst) /\ CheckRow(inst) # NoDefinition
    <3> DEFINE d == CheckRow(inst)
    <3>1. d \in Definition
      BY <2>5, CheckRowExists
    <3>2. RowBacked(CheckRow(inst))'
      <4>1. SUFFICES ASSUME inst'[d].completed # NoDate
                     PROVE  \E m \in Operative' :
                               /\ checks'[m].result = "cleared"
                               /\ checks'[m].date = inst'[d].completed
                               /\ checks'[m].row = d
        BY <2>5 DEF RowBacked, BackedBy
      <4>2. inst'[d].completed = base[d].completed
        BY <1>4, <3>1
      <4>3. PICK m \in DOMAIN checks :
              checks'[m].supersededBy = 0 /\ BackedBy(m, d, base[d].completed)
        BY <2>2, <2>5, <4>1, <4>2
      <4>4. m \in Operative'
        BY <1>2, <4>3 DEF Operative
      <4>5. QED  BY <2>4, <4>2, <4>3, <4>4
    <3>3. SnapshotsBacked(CheckRow(inst))'
      <4>1. SUFFICES ASSUME NEW n \in DOMAIN checks, checks'[n].row = d,
                            checks'[n].rowBefore.completed # NoDate
                     PROVE  \E m \in 1..(n-1) :
                               /\ checks'[m].result = "cleared"
                               /\ checks'[m].date = checks'[n].rowBefore.completed
                               /\ checks'[m].row = d
                               /\ m \in Operative' \/ m = n - 1
        BY <1>2, <2>5 DEF SnapshotsBacked, BackedBy
      <4>2. checks[n].row = d /\ checks[n].rowBefore = checks'[n].rowBefore
        BY <1>3, <4>1 DEF CheckKept
      <4>3. PICK m \in 1..(n-1) : /\ BackedBy(m, d, checks[n].rowBefore.completed)
                                  /\ m \in Operative \/ m = n - 1
        BY <1>1, <2>2, <2>5, <4>1, <4>2 DEF Backed, SnapshotsBacked
      <4>4. m \in DOMAIN checks
        BY <1>2, <4>3
      <4>5. QED  BY <1>8, <2>4, <4>2, <4>3, <4>4
    <3>4. QED  BY <2>3, <3>2, <3>3
  <2>6. CASE CheckRow(inst') # CheckRow(inst)
    <3>1. RowBacked(CheckRow(inst))'
      BY <1>4, <2>6 DEF RowBacked
    <3>2. ASSUME NEW n \in DOMAIN checks' PROVE checks'[n].row # CheckRow(inst')
      <4>1. checks'[n].row = checks[n].row
        BY <1>2, <1>3 DEF CheckKept
      <4>2. CheckRow(inst') # NoDefinition
        BY <1>4, <2>6, RequirementsAssumption DEF RequirementsAssumption
      <4>3. QED  BY <1>1, <1>2, <1>4, <2>6, <4>1, <4>2 DEF RowsExist
    <3>3. SnapshotsBacked(CheckRow(inst))'
      BY <3>2 DEF SnapshotsBacked
    <3>4. QED  BY <2>3, <3>1, <3>3
  <2>7. QED  BY <2>3, <2>5, <2>6
<1>10. QED  BY <1>4, <1>5, <1>6, <1>7, <1>9 DEF FileInv

LEMMA ContextIs ==
    ASSUME NEW rs \in SUBSET Role
    PROVE  [sctx EXCEPT !.roles = rs] \in Context
  BY ScreeningAssumption DEF ScreeningAssumption, sctx, Context

LEMMA CurrentContextIs ==
    ASSUME roles \in SUBSET Role
    PROVE  sctx \in Context
  BY ScreeningAssumption DEF ScreeningAssumption, sctx, Context

\* The lists the requests write.
LEMMA ResyncedIsWritten ==
    ASSUME FileInv, NEW rs \in SUBSET Role, inst' = Resynced(rs)
    PROVE  Written(inst)
<1>1. inst \in List /\ NoRowNoDate(inst)
  BY DEF FileInv, FileTypes
<1>2. [sctx EXCEPT !.roles = rs] \in Context
  BY ContextIs
<1>3. inst' \in Keeping(inst)
  BY <1>1, <1>2, SyncKeepsFile DEF Resynced
<1>4. QED  BY <1>1, <1>3 DEF Written

LEMMA UnchangedIsWritten ==
    ASSUME FileInv, NEW l \in List, inst' = l,
           \A d \in Definition : /\ l[d].completed = inst[d].completed
                                 /\ l[d].status = "absent" <=> inst[d].status = "absent"
    PROVE  Written(inst)
<1>1. inst \in List /\ NoRowNoDate(inst)
  BY DEF FileInv, FileTypes
<1>2. inst' \in Keeping(inst)
  BY DEF Keeping
<1>3. QED  BY <1>1, <1>2 DEF Written

LEMMA RowIsWritten ==
    ASSUME FileInv, NEW d \in Definition, inst[d].status # "absent",
           NEW i \in Instance, i.status # "absent", WriteRow(d, i)
    PROVE  Written([inst EXCEPT ![d] = i])
<1> DEFINE base == [inst EXCEPT ![d] = i]
<1>1. inst \in List /\ NoRowNoDate(inst) /\ sctx \in Context
  BY CurrentContextIs DEF FileInv, FileTypes
<1>2. base \in List /\ NoRowNoDate(base)
      /\ \A c \in Definition : base[c].status = "absent" <=> inst[c].status = "absent"
  BY <1>1 DEF List, NoRowNoDate
<1>3. inst' = refresh_dependents(base, sctx, Today, d)
  BY RequirementsAssumption DEF RequirementsAssumption, WriteRow
<1> HIDE DEF base
<1>4. inst' \in Keeping(base)
  BY <1>1, <1>2, <1>3, RefreshKeepsFile
<1>5. QED  BY <1>2, <1>4 DEF Written, base

LEMMA NoRowIsWritten ==
    ASSUME FileInv, NEW i, WriteRow(NoDefinition, i)
    PROVE  Written(inst)
  BY UnchangedIsWritten DEF WriteRow, FileInv, FileTypes

\* What is backed stays backed when the rows keep their completions.
LEMMA FileKeptBySync ==
    ASSUME FileInv, NothingDisplaced, roles' \in SUBSET Role, Written(inst)
    PROVE  FileInv'
<1>1. ASSUME InDateOrder, CheckRow(inst) # NoDefinition,
             inst[CheckRow(inst)].completed # NoDate
      PROVE  \E m \in DOMAIN checks :
                 /\ checks'[m].supersededBy = 0
                 /\ BackedBy(m, CheckRow(inst), inst[CheckRow(inst)].completed)
  <2>1. PICK m \in Operative :
          BackedBy(m, CheckRow(inst), inst[CheckRow(inst)].completed)
    BY <1>1 DEF FileInv, Backed, RowBacked
  <2>2. m \in DOMAIN checks /\ checks'[m].supersededBy = 0
    BY <2>1 DEF Operative, NothingDisplaced
  <2>3. QED  BY <2>1, <2>2
<1>2. QED  BY <1>1, FileKept

-----------------------------------------------------------------------------
(* A new check                                                               *)

LEMMA SupersededIsCheck ==
    ASSUME NEW c \in Check, NEW v \in Nat
    PROVE  [c EXCEPT !.supersededBy = v] \in Check
  BY DEF Check

\* What record_crc puts on file.
LEMMA RecordIs ==
    ASSUME FileInv, NEW result \in {"cleared", "not_clear"}, NEW date \in ReportDates,
           NEW scoped \in RecorderIsScoped, record_crc(volunteer, result, date, scoped)
    PROVE  LET N == Len(checks) + 1
               d == CheckRow(inst)
           IN  /\ checks' \in Seq(Check) /\ Len(checks') = N
               /\ checks'[N].result = result /\ checks'[N].date = date
               /\ checks'[N].supersededBy = 0 /\ checks'[N].row = d
               /\ d # NoDefinition => checks'[N].rowBefore = inst[d]
               /\ \A n \in DOMAIN checks : CheckKept(n)
               /\ InDateOrder =>
                     /\ checks'[N].previous = Len(checks)
                     /\ \A n \in DOMAIN checks :
                           n # Len(checks) => checks'[n].supersededBy = checks[n].supersededBy
<1> DEFINE N == Len(checks) + 1
           d == CheckRow(inst)
           old == IF d = NoDefinition THEN Absent ELSE inst[d]
           new(prev) ==
               [result |-> result, date |-> date, supersededBy |-> 0, flags |-> {},
                decided |-> FALSE,
                outcome |-> IF result = "not_clear" THEN "pending" ELSE "",
                item |-> IF scoped THEN "pending" ELSE "none",
                row |-> d, rowBefore |-> old,
                previous |-> prev]
           over(n) == Append([checks EXCEPT ![n].supersededBy = N], new(n))
<1>1. checks \in Seq(Check) /\ inst \in List /\ LastOperates
  BY DEF FileInv, FileTypes
<1>2. d = crc_instance_for /\ (d # NoDefinition => d \in Definition)
  BY CheckRowExists DEF crc_instance_for, CheckRow, CheckRowAt
<1>3. old \in Instance /\ d \in Definition \cup {NoDefinition}
  BY <1>1, <1>2, BlankIsInstance DEF List
<1>4. \A prev \in Nat : new(prev) \in Check
  BY <1>3, ScreeningAssumption DEF ScreeningAssumption, Check
<1>5. \/ Operative = {} /\ checks' = Append(checks, new(0))
      \/ \E n \in DOMAIN checks : Displaced(n) /\ checks' = over(n)
  BY <1>2 DEF record_crc
<1>6. /\ \A prev : /\ new(prev).result = result /\ new(prev).date = date
                   /\ new(prev).supersededBy = 0 /\ new(prev).row = d
                   /\ new(prev).rowBefore = old /\ new(prev).previous = prev
  OBVIOUS
<1>7. d # NoDefinition => old = inst[d]
  OBVIOUS
<1> HIDE DEF new, old, d
<1>8. CASE Operative = {} /\ checks' = Append(checks, new(0))
  <2>1. checks = <<>>
    <3>1. checks # <<>> => Len(checks) \in Operative
      BY <1>1 DEF LastOperates, Operative
    <3>2. QED  BY <1>8, <3>1
  <2>2. new(0) \in Check
    BY <1>4
  <2>3. checks' = <<new(0)>>
    BY <1>8, <2>1
  <2>4. Len(checks') = N /\ checks'[N] = new(0) /\ DOMAIN checks = {} /\ Len(checks) = 0
        /\ checks' \in Seq(Check)
    BY <2>1, <2>2, <2>3
  <2>5. QED  BY <1>6, <1>7, <2>4 DEF d
<1>9. CASE \E n \in DOMAIN checks : Displaced(n) /\ checks' = over(n)
  <2>1. PICK n \in DOMAIN checks : Displaced(n) /\ checks' = over(n)
    BY <1>9
  <2>2. n \in Nat /\ Len(checks) \in Nat /\ DOMAIN checks = 1..Len(checks)
    BY <1>1, <2>1
  <2> DEFINE kept == [checks EXCEPT ![n].supersededBy = N]
  <2>3. kept \in Seq(Check) /\ Len(kept) = Len(checks)
    <3>1. checks[n] \in Check
      BY <1>1, <2>1
    <3>2. [checks[n] EXCEPT !.supersededBy = N] \in Check
      BY <2>2, <3>1, SupersededIsCheck
    <3>3. QED  BY <1>1, <2>1, <3>2
  <2>4. \A m \in DOMAIN checks :
          /\ kept[m].result = checks[m].result /\ kept[m].date = checks[m].date
          /\ kept[m].row = checks[m].row /\ kept[m].rowBefore = checks[m].rowBefore
          /\ kept[m].previous = checks[m].previous
          /\ m # n => kept[m].supersededBy = checks[m].supersededBy
    <3>1. \A m \in DOMAIN checks : checks[m] \in Check
      BY <1>1
    <3>2. QED  BY <1>1, <2>1, <3>1 DEF Check
  <2>5. new(n) \in Check /\ checks' = Append(kept, new(n))
    BY <1>4, <2>1, <2>2
  <2> HIDE DEF kept
  <2>6. /\ checks' \in Seq(Check) /\ Len(checks') = N /\ checks'[N] = new(n)
        /\ \A m \in DOMAIN checks : checks'[m] = kept[m]
    BY <2>2, <2>3, <2>5
  <2>7. \A m \in DOMAIN checks : CheckKept(m)
    BY <2>4, <2>6 DEF CheckKept
  <2>8. InDateOrder => n = Len(checks)
    <3>1. SUFFICES ASSUME InDateOrder, n # Len(checks) PROVE FALSE
      OBVIOUS
    <3>2. n < Len(checks) /\ Len(checks) \in DOMAIN checks /\ checks # <<>>
      BY <1>1, <2>1, <2>2, <3>1
    <3>3. checks[n].date < checks[Len(checks)].date
      BY <2>1, <3>1, <3>2 DEF InDateOrder
    <3>4. Len(checks) \in Operative
      BY <1>1, <3>2 DEF LastOperates, Operative
    <3>5. checks[Len(checks)].date <= checks[n].date
      BY <2>1, <3>4 DEF Displaced
    <3>6. checks[n].date \in Nat /\ checks[Len(checks)].date \in Nat
      <4>1. checks[n] \in Check /\ checks[Len(checks)] \in Check
        BY <1>1, <2>1, <3>2
      <4>2. QED  BY <4>1 DEF Check, Date
    <3>7. QED  BY <3>3, <3>5, <3>6
  <2>9. QED  BY <1>6, <1>7, <2>2, <2>4, <2>6, <2>7, <2>8 DEF d
<1>10. QED  BY <1>5, <1>8, <1>9

\* The row it writes.
LEMMA RecordWrites ==
    ASSUME FileInv, NEW result \in {"cleared", "not_clear"}, NEW date \in ReportDates,
           NEW scoped, record_crc(volunteer, result, date, scoped)
    PROVE  \E base : /\ Written(base)
                     /\ CheckRow(inst) # NoDefinition =>
                           base[CheckRow(inst)].completed
                              = IF result = "cleared" THEN date ELSE NoDate
<1> DEFINE d == CheckRow(inst)
           old == IF d = NoDefinition THEN Absent ELSE inst[d]
           i == IF result = "cleared" THEN clear_crc(old, date) ELSE block_crc(old)
<1>1. d = crc_instance_for
  BY DEF crc_instance_for, CheckRow, CheckRowAt
<1>2. WriteRow(d, i)
  BY <1>1 DEF record_crc
<1>3. CASE d = NoDefinition
  <2>1. Written(inst)
    BY <1>2, <1>3, NoRowIsWritten
  <2>2. QED  BY <1>3, <2>1
<1>4. CASE d # NoDefinition
  <2>1. d \in Definition /\ inst[d].status # "absent" /\ inst \in List
    BY <1>4, CheckRowExists DEF FileInv, FileTypes
  <2>2. date \in Nat /\ date + CrcMonths \in Nat
    BY ScreeningAssumption, RequirementsAssumption
    DEF ScreeningAssumption, RequirementsAssumption, Date
  <2>3. old = inst[d] /\ old \in Instance
    BY <1>4, <2>1 DEF List
  <2> HIDE DEF old, d
  <2>4. /\ clear_crc(old, date) \in Instance /\ clear_crc(old, date).status # "absent"
        /\ clear_crc(old, date).completed = date
    BY <2>2, <2>3 DEF clear_crc, Instance, Status, NoDate
  <2>5. /\ block_crc(old) \in Instance /\ block_crc(old).status # "absent"
        /\ block_crc(old).completed = NoDate
    BY <2>3 DEF block_crc, Instance, Status, NoDate
  <2>6. /\ i \in Instance /\ i.status # "absent"
        /\ i.completed = IF result = "cleared" THEN date ELSE NoDate
    BY <2>4, <2>5
  <2> HIDE DEF i
  <2>7. Written([inst EXCEPT ![d] = i])
    BY <1>2, <2>1, <2>6, RowIsWritten
  <2>8. [inst EXCEPT ![d] = i][d] = i
    BY <2>1 DEF List
  <2>9. QED  BY <2>6, <2>7, <2>8 DEF d
<1>5. QED  BY <1>3, <1>4

LEMMA RecordKeeps ==
    ASSUME FileInv, NEW result \in {"cleared", "not_clear"}, NEW date \in ReportDates,
           NEW scoped \in RecorderIsScoped, record_crc(volunteer, result, date, scoped)
    PROVE  FileInv'
<1> DEFINE N == Len(checks) + 1
           d == CheckRow(inst)
<1>1. /\ FileTypes /\ RowsExist /\ Backed /\ checks \in Seq(Check)
      /\ Len(checks) \in Nat /\ DOMAIN checks = 1..Len(checks)
  BY DEF FileInv, FileTypes
<1>2. /\ checks' \in Seq(Check) /\ Len(checks') = N
      /\ checks'[N].result = result /\ checks'[N].date = date
      /\ checks'[N].supersededBy = 0 /\ checks'[N].row = d
      /\ d # NoDefinition => checks'[N].rowBefore = inst[d]
      /\ \A n \in DOMAIN checks : CheckKept(n)
      /\ InDateOrder =>
            /\ checks'[N].previous = Len(checks)
            /\ \A n \in DOMAIN checks :
                  n # Len(checks) => checks'[n].supersededBy = checks[n].supersededBy
  BY RecordIs
<1>3. PICK base : /\ Written(base)
                  /\ d # NoDefinition =>
                        base[d].completed = IF result = "cleared" THEN date ELSE NoDate
  BY RecordWrites
<1>4. /\ inst' \in List
      /\ NoRowNoDate(inst')
      /\ \A c \in Definition : /\ inst'[c].completed = base[c].completed
                               /\ inst[c].status # "absent" => inst'[c].status # "absent"
      /\ CheckRow(inst') # d =>
            /\ CheckRow(inst') \in Definition
            /\ inst[CheckRow(inst')].status = "absent"
            /\ inst'[CheckRow(inst')].completed = NoDate
  BY <1>1, <1>3, RowsAfter
<1>5. d # NoDefinition => d \in Definition /\ inst[d].status # "absent"
  BY CheckRowExists
<1> HIDE DEF d
<1>6. DOMAIN checks' = 1..N /\ N \in 1..N /\ N \in Nat
      /\ \A n \in 1..N : n = N \/ n \in DOMAIN checks
  BY <1>1, <1>2
<1>7. FileTypes'
  BY <1>1, <1>2, <1>4 DEF FileTypes, record_crc
<1>8. RowsExist'
  <2>1. SUFFICES ASSUME NEW n \in 1..N, checks'[n].row # NoDefinition
                 PROVE  inst'[checks'[n].row].status # "absent"
    BY <1>6 DEF RowsExist
  <2>2. CASE n = N
    BY <1>2, <1>4, <1>5, <2>1, <2>2
  <2>3. CASE n \in DOMAIN checks
    <3>1. checks'[n].row = checks[n].row /\ checks[n] \in Check
      BY <1>1, <1>2, <2>3 DEF CheckKept
    <3>2. checks[n].row \in Definition
      BY <2>1, <3>1 DEF Check
    <3>3. QED  BY <1>1, <1>4, <2>1, <2>3, <3>1, <3>2 DEF RowsExist
  <2>4. QED  BY <1>6, <2>2, <2>3
<1>9. LastOperates'
  BY <1>2 DEF LastOperates
<1>10. Backed'
  <2>1. SUFFICES ASSUME InDateOrder'
                 PROVE  /\ DisplacesPrevious'
                        /\ CheckRow(inst') # NoDefinition =>
                              /\ RowBacked(CheckRow(inst))'
                              /\ SnapshotsBacked(CheckRow(inst))'
    BY DEF Backed
  <2>2. InDateOrder
    BY <1>1, <1>2, <1>6, <2>1 DEF InDateOrder, CheckKept
  <2>3. DisplacesPrevious'
    <3>1. SUFFICES ASSUME NEW n \in 1..N PROVE checks'[n].previous = n - 1
      BY <1>6 DEF DisplacesPrevious
    <3>2. CASE n = N
      BY <1>1, <1>2, <2>2, <3>2
    <3>3. CASE n \in DOMAIN checks
      BY <1>1, <1>2, <2>2, <3>3 DEF Backed, DisplacesPrevious, CheckKept
    <3>4. QED  BY <1>6, <3>2, <3>3
  <2>4. ASSUME NEW m \in Operative, NEW date0, BackedBy(m, d, date0)
        PROVE  /\ m \in DOMAIN checks
               /\ checks'[m].result = "cleared" /\ checks'[m].date = date0
               /\ checks'[m].row = d
               /\ m # Len(checks) => m \in Operative'
    <3>1. m \in DOMAIN checks /\ checks[m].supersededBy = 0
      BY DEF Operative
    <3>2. m # Len(checks) => checks'[m].supersededBy = 0
      BY <1>2, <2>2, <3>1
    <3>3. m # Len(checks) => m \in Operative'
      BY <1>1, <1>6, <3>1, <3>2 DEF Operative
    <3>4. CheckKept(m)
      BY <1>2, <3>1
    <3>5. QED  BY <2>4, <3>1, <3>3, <3>4 DEF BackedBy, CheckKept
  <2>5. CASE CheckRow(inst') = d /\ d # NoDefinition
    <3>1. RowBacked(CheckRow(inst))'
      <4>1. SUFFICES ASSUME inst'[d].completed # NoDate
                     PROVE  \E m \in Operative' :
                               /\ checks'[m].result = "cleared"
                               /\ checks'[m].date = inst'[d].completed
                               /\ checks'[m].row = d
        BY <2>5 DEF RowBacked, BackedBy
      <4>2. result = "cleared" /\ inst'[d].completed = date
        BY <1>3, <1>4, <1>5, <2>5, <4>1
      <4>3. N \in Operative'
        BY <1>2, <1>6 DEF Operative
      <4>4. QED  BY <1>2, <4>2, <4>3
    <3>2. SnapshotsBacked(CheckRow(inst))'
      <4>1. SUFFICES ASSUME NEW n \in 1..N, checks'[n].row = d,
                            checks'[n].rowBefore.completed # NoDate
                     PROVE  \E m \in 1..(n-1) :
                               /\ checks'[m].result = "cleared"
                               /\ checks'[m].date = checks'[n].rowBefore.completed
                               /\ checks'[m].row = d
                               /\ m \in Operative' \/ m = n - 1
        BY <1>6, <2>5 DEF SnapshotsBacked, BackedBy
      <4>2. CASE n = N
        <5>1. checks'[n].rowBefore.completed = inst[d].completed
          BY <1>2, <2>5, <4>2
        <5>2. PICK m \in Operative : BackedBy(m, d, inst[d].completed)
          BY <1>1, <2>2, <2>5, <4>1, <5>1 DEF Backed, RowBacked, d
        <5>3. m \in DOMAIN checks
          BY <2>4, <5>2
        <5>4. m \in 1..(n-1) /\ (m # Len(checks) \/ m = n - 1)
          BY <1>1, <4>2, <5>3
        <5>5. QED  BY <2>4, <5>1, <5>2, <5>4
      <4>3. CASE n \in DOMAIN checks
        <5>1. checks[n].row = d /\ checks[n].rowBefore = checks'[n].rowBefore
          BY <1>2, <4>1, <4>3 DEF CheckKept
        <5>2. PICK m \in 1..(n-1) : /\ BackedBy(m, d, checks[n].rowBefore.completed)
                                    /\ m \in Operative \/ m = n - 1
          BY <1>1, <2>2, <2>5, <4>1, <4>3, <5>1 DEF Backed, SnapshotsBacked, d
        <5>3. m \in DOMAIN checks /\ m # Len(checks)
          <6>1. n \in 1..Len(checks) /\ DOMAIN checks = 1..Len(checks) /\ Len(checks) \in Nat
            BY <1>1, <4>3
          <6>2. ASSUME NEW last \in Nat, n \in 1..last PROVE m \in 1..last /\ m # last
            BY <6>2
          <6>3. QED  BY <6>1, <6>2
        <5>4. CheckKept(m)
          BY <1>2, <5>3
        <5>5. /\ checks'[m].result = "cleared"
              /\ checks'[m].date = checks[n].rowBefore.completed
              /\ checks'[m].row = d
          BY <5>2, <5>4 DEF BackedBy, CheckKept
        <5>6. m \in Operative' \/ m = n - 1
          BY <2>4, <5>2, <5>3
        <5>7. QED  BY <5>1, <5>5, <5>6
      <4>4. QED  BY <1>6, <4>2, <4>3
    <3>3. QED  BY <2>3, <3>1, <3>2
  <2>6. CASE CheckRow(inst') # d
    <3>1. RowBacked(CheckRow(inst))'
      BY <1>4, <2>6 DEF RowBacked
    <3>2. ASSUME NEW n \in 1..N PROVE checks'[n].row # CheckRow(inst')
      <4>1. CASE n = N
        BY <1>2, <2>6, <4>1
      <4>2. CASE n \in DOMAIN checks
        <5>1. checks'[n].row = checks[n].row
          BY <1>2, <4>2 DEF CheckKept
        <5>2. CheckRow(inst') # NoDefinition
          BY <1>4, <2>6, RequirementsAssumption DEF RequirementsAssumption
        <5>3. QED  BY <1>1, <1>4, <2>6, <4>2, <5>1, <5>2 DEF RowsExist
      <4>3. QED  BY <1>6, <4>1, <4>2
    <3>3. SnapshotsBacked(CheckRow(inst))'
      BY <1>6, <3>2 DEF SnapshotsBacked
    <3>4. QED  BY <2>3, <3>1, <3>3
  <2>7. QED  BY <2>3, <2>5, <2>6
<1>11. QED  BY <1>4, <1>7, <1>8, <1>9, <1>10 DEF FileInv

-----------------------------------------------------------------------------
(* A check sent back                                                         *)

LEMMA RestoredIs ==
    ASSUME NEW i \in Instance, NEW before \in Instance
    PROVE  /\ RestoredRow(i, before) \in Instance
           /\ RestoredRow(i, before).status # "absent"
           /\ RestoredRow(i, before).completed = before.completed
<1> DEFINE dated == [i EXCEPT !.completed = before.completed, !.expires = before.expires,
                              !.due = before.due, !.started = before.started \/ @]
           j == [dated EXCEPT !.status = _status_after_reversal(dated)]
<1>1. dated \in Instance /\ dated.completed = before.completed
  BY DEF Instance
<1> HIDE DEF dated
<1>2. /\ j \in Instance /\ j.status \in {"complete", "in_progress", "not_started"}
      /\ j.completed = before.completed
  BY <1>1 DEF _status_after_reversal, Instance, Status
<1> HIDE DEF j
<1>3. /\ recompute(j, Today) \in Instance /\ recompute(j, Today).status # "absent"
      /\ recompute(j, Today).completed = j.completed
  BY <1>2 DEF recompute, Instance, Status
<1>4. QED  BY <1>2, <1>3 DEF RestoredRow, j, dated

\* Closing an item or making a check operative leaves a check on file.
LEMMA DecidedIsCheck ==
    ASSUME NEW c \in Check
    PROVE  /\ [c EXCEPT !.item = "sent_back"] \in Check
           /\ [c EXCEPT !.item = "affirmed"] \in Check
           /\ [c EXCEPT !.decided = TRUE] \in Check
           /\ \A flag \in {"automatic", "discretionary"} :
                 [c EXCEPT !.flags = @ \cup {flag}] \in Check
           /\ \A outcome \in {"fingerprint", "withdrew"} :
                 [c EXCEPT !.outcome = outcome] \in Check
  BY DEF Check

\* Requests that change one check and none of what is on file about it.
LEMMA OneCheckChanges ==
    ASSUME checks \in Seq(Check), NEW n \in DOMAIN checks, NEW c \in Check,
           checks' = [checks EXCEPT ![n] = c],
           c.result = checks[n].result, c.date = checks[n].date, c.row = checks[n].row,
           c.rowBefore = checks[n].rowBefore, c.previous = checks[n].previous,
           c.supersededBy = checks[n].supersededBy
    PROVE  NothingDisplaced
<1>1. checks' \in Seq(Check) /\ Len(checks') = Len(checks)
  OBVIOUS
<1>2. \A m \in DOMAIN checks : checks'[m] = IF m = n THEN c ELSE checks[m]
  OBVIOUS
<1>3. QED  BY <1>1, <1>2 DEF NothingDisplaced, CheckKept

LEMMA SendBackIs ==
    ASSUME checks \in Seq(Check), NEW n \in DOMAIN checks, Retractable(n),
           _send_back_crc(n)
    PROVE  /\ NothingDisplaced
           /\ \A m \in DOMAIN checks : m \in Operative \/ m = checks[n].previous =>
                                           checks'[m].supersededBy = 0
<1> DEFINE to(m) == CASE m = n -> [checks[m] EXCEPT !.item = "sent_back"]
                      [] m # n /\ m = checks[n].previous -> [checks[m] EXCEPT !.supersededBy = 0]
                      [] OTHER -> checks[m]
<1>1. checks' = [m \in DOMAIN checks |-> to(m)]
  BY DEF _send_back_crc
<1>2. checks[n].supersededBy = 0
  BY DEF Retractable
<1>3. ASSUME NEW m \in DOMAIN checks
      PROVE  /\ to(m) \in Check
             /\ to(m).result = checks[m].result /\ to(m).date = checks[m].date
             /\ to(m).row = checks[m].row /\ to(m).rowBefore = checks[m].rowBefore
             /\ to(m).previous = checks[m].previous
             /\ to(m).supersededBy \in {checks[m].supersededBy, 0}
             /\ m \in Operative \/ m = checks[n].previous => to(m).supersededBy = 0
  <2>1. checks[m] \in Check
    OBVIOUS
  <2>2. CASE m = n
    <3>1. to(m) = [checks[m] EXCEPT !.item = "sent_back"]
      BY <2>2
    <3>2. to(m) \in Check
      BY <2>1, <3>1, DecidedIsCheck
    <3> HIDE DEF to
    <3>3. QED  BY <1>2, <2>1, <2>2, <3>1, <3>2 DEF Check
  <2>3. CASE m # n /\ m = checks[n].previous
    <3>1. to(m) = [checks[m] EXCEPT !.supersededBy = 0]
      BY <2>3
    <3>2. to(m) \in Check
      BY <2>1, <3>1, SupersededIsCheck
    <3> HIDE DEF to
    <3>3. QED  BY <2>1, <3>1, <3>2 DEF Check
  <2>4. CASE m # n /\ m # checks[n].previous
    <3>1. to(m) = checks[m]
      BY <2>4
    <3> HIDE DEF to
    <3>2. QED  BY <2>1, <2>4, <3>1 DEF Operative
  <2>5. QED  BY <2>2, <2>3, <2>4
<1> HIDE DEF to
<1>4. checks' \in Seq(Check) /\ Len(checks') = Len(checks)
  <2>1. DOMAIN checks = 1..Len(checks) /\ Len(checks) \in Nat
    OBVIOUS
  <2>2. QED  BY <1>1, <1>3, <2>1
<1>5. QED  BY <1>1, <1>3, <1>4 DEF NothingDisplaced, CheckKept

LEMMA SendBackKeeps ==
    ASSUME FileInv, NEW n \in DOMAIN checks, Retractable(n), _send_back_crc(n)
    PROVE  FileInv'
<1> DEFINE r == checks[n].row
           i == RestoredRow(inst[r], checks[n].rowBefore)
<1>1. /\ checks \in Seq(Check) /\ inst \in List /\ checks[n] \in Check /\ RowsExist /\ Backed
      /\ n \in 1..Len(checks) /\ Len(checks) \in Nat /\ DOMAIN checks = 1..Len(checks)
      /\ roles' \in SUBSET Role
  BY DEF FileInv, FileTypes, _send_back_crc
<1>2. /\ NothingDisplaced
      /\ \A m \in DOMAIN checks : m \in Operative \/ m = checks[n].previous =>
                                      checks'[m].supersededBy = 0
  BY <1>1, SendBackIs
<1>3. WriteRow(r, IF r = NoDefinition THEN Absent ELSE i)
  BY DEF _send_back_crc
<1> HIDE DEF i
<1>4. ASSUME InDateOrder, CheckRow(inst) # NoDefinition,
             inst[CheckRow(inst)].completed # NoDate
      PROVE  \E m \in DOMAIN checks :
                 /\ checks'[m].supersededBy = 0
                 /\ BackedBy(m, CheckRow(inst), inst[CheckRow(inst)].completed)
  <2>1. PICK m \in Operative :
          BackedBy(m, CheckRow(inst), inst[CheckRow(inst)].completed)
    BY <1>1, <1>4 DEF Backed, RowBacked
  <2>2. QED  BY <1>2, <2>1 DEF Operative
<1>5. CASE r = NoDefinition
  <2>1. WriteRow(NoDefinition, Absent)
    BY <1>3, <1>5
  <2>2. Written(inst)
    BY <2>1, NoRowIsWritten
  <2>3. QED  BY <1>1, <1>2, <2>2, FileKeptBySync
<1>6. CASE r # NoDefinition
  <2> DEFINE base == [inst EXCEPT ![r] = i]
  <2>1. r \in Definition /\ inst[r].status # "absent" /\ inst[r] \in Instance
        /\ checks[n].rowBefore \in Instance
    BY <1>1, <1>6 DEF RowsExist, Check, List
  <2>2. /\ i \in Instance /\ i.status # "absent" /\ i.completed = checks[n].rowBefore.completed
    BY <2>1, RestoredIs DEF i
  <2>3. Written(base)
    BY <1>3, <1>6, <2>1, <2>2, RowIsWritten
  <2>4. base[r] = i /\ \A d \in Definition : d # r => base[d] = inst[d]
    BY <1>1, <2>1 DEF List
  <2> HIDE DEF base, r
  <2>5. ASSUME InDateOrder, CheckRow(inst) # NoDefinition,
               base[CheckRow(inst)].completed # NoDate
        PROVE  \E m \in DOMAIN checks :
                   /\ checks'[m].supersededBy = 0
                   /\ BackedBy(m, CheckRow(inst), base[CheckRow(inst)].completed)
    <3>1. CASE r # CheckRow(inst)
      <4>1. base[CheckRow(inst)] = inst[CheckRow(inst)]
        BY <2>4, <2>5, <3>1, CheckRowExists
      <4>2. QED  BY <1>4, <2>5, <4>1
    <3>2. CASE r = CheckRow(inst)
      <4>1. base[CheckRow(inst)].completed = checks[n].rowBefore.completed
        BY <2>2, <2>4, <3>2
      <4>2. PICK m \in 1..(n-1) : /\ BackedBy(m, r, checks[n].rowBefore.completed)
                                  /\ m \in Operative \/ m = n - 1
        BY <1>1, <2>5, <3>2, <4>1 DEF Backed, SnapshotsBacked, r
      <4>3. m \in DOMAIN checks
        BY <1>1, <4>2
      <4>4. checks[n].previous = n - 1
        BY <1>1, <2>5 DEF Backed, DisplacesPrevious
      <4>5. checks'[m].supersededBy = 0
        BY <1>2, <4>2, <4>3, <4>4
      <4>6. QED  BY <3>2, <4>1, <4>2, <4>3, <4>5
    <3>3. QED  BY <3>1, <3>2
  <2>6. QED  BY <1>1, <1>2, <2>3, <2>5, FileKept
<1>7. QED  BY <1>5, <1>6

-----------------------------------------------------------------------------
(* Every other request                                                       *)

LEMMA SameChecks ==
    ASSUME FileInv, UNCHANGED checks
    PROVE  NothingDisplaced
  BY DEF FileInv, FileTypes, NothingDisplaced, CheckKept

\* Requests that synchronise the rows and leave the checks alone.
LEMMA ResyncKeeps ==
    ASSUME FileInv, UNCHANGED checks, NEW rs \in SUBSET Role, roles' = rs,
           inst' = Resynced(rs)
    PROVE  FileInv'
  BY SameChecks, ResyncedIsWritten, FileKeptBySync

\* Requests that decide about one check and leave the rows alone.
LEMMA DecisionKeeps ==
    ASSUME FileInv, UNCHANGED inst, roles' \in SUBSET Role, NothingDisplaced
    PROVE  FileInv'
<1>1. inst \in List
  BY DEF FileInv, FileTypes
<1>2. Written(inst)
  BY <1>1, UnchangedIsWritten
<1>3. QED  BY <1>2, FileKeptBySync

LEMMA ConvictionsKeep ==
    ASSUME FileInv, NEW n \in DOMAIN checks, NEW flag \in {"automatic", "discretionary"},
           record_convictions(n, flag)
    PROVE  FileInv'
<1> DEFINE c == [checks[n] EXCEPT !.flags = @ \cup {flag}]
           blocked == [d \in Definition |->
                         IF inst[d].status \in outstanding_values
                         THEN [inst[d] EXCEPT !.status = "blocked"] ELSE inst[d]]
<1>1. checks \in Seq(Check) /\ inst \in List /\ checks[n] \in Check /\ roles \in SUBSET Role
  BY DEF FileInv, FileTypes
<1>2. c \in Check
  BY <1>1, DecidedIsCheck
<1>3. checks' = [checks EXCEPT ![n] = c]
  BY <1>1 DEF record_convictions
<1>4. /\ c.result = checks[n].result /\ c.date = checks[n].date /\ c.row = checks[n].row
      /\ c.rowBefore = checks[n].rowBefore /\ c.previous = checks[n].previous
      /\ c.supersededBy = checks[n].supersededBy
  BY <1>1 DEF Check
<1> HIDE DEF c
<1>5. NothingDisplaced
  BY <1>1, <1>2, <1>3, <1>4, OneCheckChanges
<1>6. CASE flag = "automatic"
  <2>1. inst' = blocked /\ roles' = {}
    BY <1>6 DEF record_convictions
  <2>2. ASSUME NEW d \in Definition
        PROVE  /\ blocked[d] \in Instance
               /\ blocked[d].completed = inst[d].completed
               /\ blocked[d].status = "absent" <=> inst[d].status = "absent"
    <3>1. inst[d] \in Instance
      BY <1>1 DEF List
    <3>2. QED  BY <3>1 DEF Instance, Status, outstanding_values
  <2>3. blocked \in List
    BY <2>2 DEF List
  <2> HIDE DEF blocked
  <2>4. Written(inst)
    BY <2>1, <2>2, <2>3, UnchangedIsWritten
  <2>5. QED  BY <1>5, <2>1, <2>4, FileKeptBySync
<1>7. CASE flag # "automatic"
  <2>1. UNCHANGED <<roles, inst>>
    BY <1>7 DEF record_convictions
  <2>2. QED  BY <1>1, <1>5, <2>1, DecisionKeeps
<1>8. QED  BY <1>6, <1>7

LEMMA OverrideKeeps ==
    ASSUME FileInv, NEW n \in DOMAIN checks, NEW decision,
           record_discretionary_override(volunteer, n, decision)
    PROVE  FileInv'
<1> DEFINE c == [checks[n] EXCEPT !.decided = TRUE]
<1>1. checks \in Seq(Check) /\ checks[n] \in Check /\ roles \in SUBSET Role
  BY DEF FileInv, FileTypes
<1>2. c \in Check
  BY <1>1, DecidedIsCheck
<1>3. checks' = [checks EXCEPT ![n] = c]
  BY <1>1 DEF record_discretionary_override
<1>4. /\ c.result = checks[n].result /\ c.date = checks[n].date /\ c.row = checks[n].row
      /\ c.rowBefore = checks[n].rowBefore /\ c.previous = checks[n].previous
      /\ c.supersededBy = checks[n].supersededBy
  BY <1>1 DEF Check
<1> HIDE DEF c
<1>5. NothingDisplaced
  BY <1>1, <1>2, <1>3, <1>4, OneCheckChanges
<1>6. UNCHANGED inst /\ roles' \in SUBSET Role
  BY <1>1 DEF record_discretionary_override
<1>7. QED  BY <1>5, <1>6, DecisionKeeps

LEMMA ResolveKeeps ==
    ASSUME FileInv, NEW n \in DOMAIN checks, NEW outcome \in {"fingerprint", "withdrew"},
           resolve_not_clear(volunteer, n, outcome)
    PROVE  FileInv'
<1> DEFINE c == [checks[n] EXCEPT !.outcome = outcome]
<1>1. checks \in Seq(Check) /\ checks[n] \in Check /\ roles \in SUBSET Role
  BY DEF FileInv, FileTypes
<1>2. c \in Check
  BY <1>1, DecidedIsCheck
<1>3. checks' = [checks EXCEPT ![n] = c]
  BY <1>1 DEF resolve_not_clear
<1>4. /\ c.result = checks[n].result /\ c.date = checks[n].date /\ c.row = checks[n].row
      /\ c.rowBefore = checks[n].rowBefore /\ c.previous = checks[n].previous
      /\ c.supersededBy = checks[n].supersededBy
  BY <1>1 DEF Check
<1> HIDE DEF c
<1>5. NothingDisplaced
  BY <1>1, <1>2, <1>3, <1>4, OneCheckChanges
<1>6. UNCHANGED inst /\ roles' \in SUBSET Role
  BY <1>1 DEF resolve_not_clear
<1>7. QED  BY <1>5, <1>6, DecisionKeeps

\* Affirming closes the item, and so does sending back a check that stands.
LEMMA CloseKeeps ==
    ASSUME FileInv, NEW n \in DOMAIN checks, UNCHANGED <<inst, roles>>,
           NEW item \in {"affirmed", "sent_back"},
           checks' = [checks EXCEPT ![n].item = item]
    PROVE  FileInv'
<1> DEFINE c == [checks[n] EXCEPT !.item = item]
<1>1. checks \in Seq(Check) /\ checks[n] \in Check /\ roles \in SUBSET Role
  BY DEF FileInv, FileTypes
<1>2. c \in Check
  BY <1>1, DecidedIsCheck
<1>3. checks' = [checks EXCEPT ![n] = c]
  BY <1>1
<1>4. /\ c.result = checks[n].result /\ c.date = checks[n].date /\ c.row = checks[n].row
      /\ c.rowBefore = checks[n].rowBefore /\ c.previous = checks[n].previous
      /\ c.supersededBy = checks[n].supersededBy
  BY <1>1 DEF Check
<1> HIDE DEF c
<1>5. NothingDisplaced
  BY <1>1, <1>2, <1>3, <1>4, OneCheckChanges
<1>6. QED  BY <1>1, <1>5, DecisionKeeps

LEMMA FileInit == SInit => FileInv
<1>1. SUFFICES ASSUME SInit PROVE FileInv
  OBVIOUS
<1> DEFINE none == [d \in Definition |-> Absent]
<1>2. none \in List /\ NoRowNoDate(none) /\ \A d \in Definition : none[d].completed = NoDate
  BY BlankIsInstance DEF List, NoRowNoDate, Absent, Blank
<1>3. roles \in SUBSET Role /\ checks = <<>> /\ inst = sync_volunteer_requirements(none, sctx, Today)
  BY <1>1 DEF SInit
<1> HIDE DEF none
<1>4. inst \in Keeping(none)
  BY <1>2, <1>3, CurrentContextIs, SyncKeepsFile
<1>5. inst \in List /\ \A d \in Definition : inst[d].completed = NoDate
  BY <1>2, <1>4 DEF Keeping
<1>6. FileTypes /\ NoRowNoDate(inst) /\ RowsExist /\ LastOperates
  BY <1>3, <1>5 DEF FileTypes, NoRowNoDate, RowsExist, LastOperates
<1>7. Backed
  <2>1. DisplacesPrevious /\ SnapshotsBacked(CheckRow(inst))
    BY <1>3 DEF DisplacesPrevious, SnapshotsBacked
  <2>2. CheckRow(inst) # NoDefinition => RowBacked(CheckRow(inst))
    BY <1>5, CheckRowExists DEF RowBacked
  <2>3. QED  BY <2>1, <2>2 DEF Backed
<1>8. QED  BY <1>6, <1>7 DEF FileInv

LEMMA RequestKeepsFile ==
    ASSUME FileInv, Request(volunteer)
    PROVE  FileInv'
<1>0. roles \in SUBSET Role /\ inst \in List
  BY DEF FileInv, FileTypes
<1>1. ASSUME NEW result \in {"cleared", "not_clear"}, NEW date \in ReportDates,
             NEW scoped \in RecorderIsScoped, record_crc(volunteer, result, date, scoped)
      PROVE  FileInv'
  BY <1>1, RecordKeeps
<1>2. ASSUME NEW r \in Role, assignment_create(volunteer, r) PROVE FileInv'
  BY <1>0, <1>2, ResyncKeeps DEF assignment_create
<1>3. ASSUME volunteer_edit(volunteer) PROVE FileInv'
  BY <1>0, <1>3, ResyncKeeps DEF volunteer_edit
<1>4. ASSUME volunteer_reactivate(volunteer) PROVE FileInv'
  BY <1>0, <1>4, ResyncKeeps DEF volunteer_reactivate
<1>5. QED  BY <1>1, <1>2, <1>3, <1>4, OverrideKeeps, ResolveKeeps DEF Request

LEMMA OtherRequestKeepsFile ==
    ASSUME FileInv, OtherRequest
    PROVE  FileInv'
<1>0. roles \in SUBSET Role /\ inst \in List
  BY DEF FileInv, FileTypes
<1>1. ASSUME NEW r \in Role, assignment_end(r) PROVE FileInv'
  BY <1>0, <1>1, ResyncKeeps DEF assignment_end
<1>2. ASSUME NEW e \in BOOLEAN, volunteer_deactivate(e) PROVE FileInv'
  <2>1. UNCHANGED <<inst, checks>> /\ roles' \in SUBSET Role
    BY <1>0, <1>2 DEF volunteer_deactivate
  <2>2. QED  BY <2>1, SameChecks, DecisionKeeps
<1>3. ASSUME Resync PROVE FileInv'
  BY <1>0, <1>3, ResyncKeeps DEF Resync
<1>4. ASSUME NEW n \in DOMAIN checks, affirm(n) PROVE FileInv'
  BY <1>4, CloseKeeps DEF affirm
<1>5. ASSUME NEW n \in DOMAIN checks, _send_back_crc(n) PROVE FileInv'
  <2>1. CASE Retractable(n)
    BY <1>5, <2>1, SendBackKeeps
  <2>2. CASE ~Retractable(n)
    BY <1>5, <2>2, CloseKeeps DEF _send_back_crc
  <2>3. QED  BY <2>1, <2>2
<1>6. QED  BY <1>1, <1>2, <1>3, <1>4, <1>5, ConvictionsKeep DEF OtherRequest

(***************************************************************************)
(* The completion on the check's row is always the date of an operative    *)
(* cleared check (record_crc, _send_back_crc): however often checks        *)
(* displace one another and are sent back, a retraction puts back a date   *)
(* that some check still on file stands for, provided the checks were      *)
(* recorded in the order of their dates.                                   *)
(***************************************************************************)
THEOREM ClearanceIsBackedAlways == SSpec => []ClearanceIsBacked
<1>1. SInit => FileInv
  BY FileInit
<1>2. FileInv /\ [SNext]_svars => FileInv'
  <2>1. SUFFICES ASSUME FileInv, [SNext]_svars PROVE FileInv'
    OBVIOUS
  <2>2. CASE UNCHANGED svars
    BY <2>1, <2>2, SameChecks, DecisionKeeps DEF svars, FileInv, FileTypes
  <2>3. QED  BY <2>1, <2>2, RequestKeepsFile, OtherRequestKeepsFile DEF SNext
<1>3. FileInv => ClearanceIsBacked
  <2>1. crc_instance_for = CheckRow(inst)
    BY DEF crc_instance_for, CheckRow, CheckRowAt
  <2>2. QED  BY <2>1 DEF ClearanceIsBacked, FileInv, Backed, RowBacked, BackedBy
<1>4. QED  BY <1>1, <1>2, <1>3, PTL DEF SSpec
===============================================================================
