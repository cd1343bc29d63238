------------------------------- MODULE Access -------------------------------
(***************************************************************************)
(* Who may do what at one church: access levels, the grants that put       *)
(* administrators on them, the link between an administrator and their own *)
(* screening file, and who may decide an entry waiting for review          *)
(* (src/apps/core/access.py, core/forms.py, core/models.py and the         *)
(* administrators' section of accounts/views.py).                          *)
(*                                                                         *)
(* Every view is one step here, its checks read and its rows written       *)
(* together.                                                               *)
(***************************************************************************)
EXTENDS Naturals, FiniteSets

CONSTANTS
  Admins,         \* administrator accounts, those not invited yet included
  Founder,        \* the administrator provisioning creates
  Levels,         \* access level rows, those not created yet included
  PrimaryAdmin, DepartmentAdmin,   \* the two built-in levels
  Capability,     \* what a level can grant
  CapSets,        \* the combinations of capabilities a level is given when created or edited
  Departments,
  Files,          \* volunteer files
  Fresh,          \* the files an invitation or the administrators' page may still create
  Served,         \* the departments each file's volunteer has ever served in
  NoLevel, NoOne, Unborn,
  MaxEdits        \* bound on access level edits

ASSUME AccessAssumption ==
  /\ Founder \in Admins
  /\ {PrimaryAdmin, DepartmentAdmin} \subseteq Levels
  /\ PrimaryAdmin # DepartmentAdmin
  /\ NoLevel \notin Levels
  /\ {NoOne, Unborn} \cap Admins = {} /\ NoOne # Unborn
  /\ {"manage_users", "view_volunteers", "record_screening", "view_audit"} \subseteq Capability
  /\ CapSets \subseteq SUBSET Capability
  /\ Fresh \subseteq Files
  /\ Served \in [Files -> SUBSET Departments]
  /\ MaxEdits \in Nat

VARIABLES
  level,     \* AccessLevel rows
  account,   \* is_active of each User, or "none" before the invitation
  grant,     \* UserAccessGrant rows
  owner,     \* Volunteer.user_id of each file
  queue,     \* the recorder of the review item open on each file, if any
  by,        \* ghost: who made the latest request
  edits      \* how many level edits have been spent

vars == <<level, account, grant, owner, queue, by, edits>>

LevelRow == [exists : BOOLEAN, active : BOOLEAN, scoped : BOOLEAN, caps : SUBSET Capability]

NoAccess == [level |-> NoLevel, depts |-> {}]

ATypeOK ==
  /\ level \in [Levels -> LevelRow]
  /\ account \in [Admins -> {"none", "active", "inactive"}]
  /\ grant \in [Admins -> [level : Levels \cup {NoLevel}, depts : SUBSET Departments]]
  /\ owner \in [Files -> Admins \cup {NoOne, Unborn}]
  /\ queue \in [Files -> Admins \cup {NoOne}]
  /\ by \in Admins
  /\ edits \in 0..MaxEdits
  /\ \A l \in Levels : level[l].scoped => "view_audit" \notin level[l].caps

-----------------------------------------------------------------------------
(* Questions about an administrator.                                       *)

HasGrant(a) == account[a] = "active" /\ grant[a].level # NoLevel
LevelOf(a) == level[grant[a].level]

has_capability(a, c) == HasGrant(a) /\ LevelOf(a).active /\ c \in LevelOf(a).caps

\* Whether the level is in use is not asked here.
is_unscoped(a) == HasGrant(a) /\ ~LevelOf(a).scoped

Scope(a) == IF is_unscoped(a) THEN Departments ELSE IF HasGrant(a) THEN grant[a].depts ELSE {}

\* scope_volunteers: files of people who have ever served in the departments.
sees(a, f) == owner[f] # Unborn /\ (is_unscoped(a) \/ Served[f] \cap Scope(a) # {})

covers(mine, other) == other.caps \subseteq mine.caps /\ ~(mine.scoped /\ ~other.scoped)

\* Mutant: a limited level may read the audit trail.
clean_anything(row) == TRUE
\* AccessLevel.clean
clean(row) == ~(row.scoped /\ "view_audit" \in row.caps)

\* The administrators another_unscoped_admin_exists chooses from.
Reviewers == {a \in Admins : is_unscoped(a) /\ LevelOf(a).active}

Managers == {a \in Reviewers : "manage_users" \in LevelOf(a).caps}

another_unscoped_admin_exists(a) == Reviewers \ {a} # {}

no_access_level == [exists |-> TRUE, active |-> TRUE, scoped |-> TRUE, caps |-> {}]

\* Mutant: counts reviewers who cannot manage access.
would_leave_no_reviewer(s, row) ==
  /\ row.scoped \/ "manage_users" \notin row.caps
  /\ Reviewers \ {s} = {}
would_strand_the_church(s, row) ==
  /\ row.scoped \/ "manage_users" \notin row.caps
  /\ Managers \ {s} = {}

Backlog(a) == {f \in Files : queue[f] = a}

\* Mutant: counts the reviewer who is being removed.
backlog_counting_subject(a, s) ==
  /\ a # s /\ is_unscoped(a)
  /\ Reviewers \ {a} = {}
  /\ Backlog(a) # {}
own_review_backlog_unlocked_by_removing(a, s) ==
  /\ a # s /\ is_unscoped(a)
  /\ Reviewers \ {a, s} = {}
  /\ Backlog(a) # {}

\* may_record_against, and refuse_self_recording which repeats it below the views.
may_record_against(a, f) ==
  owner[f] = a => is_unscoped(a) /\ ~another_unscoped_admin_exists(a)

\* Mutant: no second pair of eyes.
may_review_own(a, f) == is_unscoped(a)
may_review(a, f) ==
  /\ is_unscoped(a)
  /\ queue[f] = a => ~another_unscoped_admin_exists(a)

\* Mutant: departments outside the granter's own are accepted.
Grantable_anywhere(a, l, D) ==
  /\ level[l].exists /\ level[l].active
  /\ covers(LevelOf(a), level[l])
\* What AccessGrantForm offers and apply_grant accepts.
Grantable(a, l, D) ==
  /\ level[l].exists /\ level[l].active
  /\ covers(LevelOf(a), level[l])
  /\ D \subseteq Scope(a)

Granted(l, D) == [level |-> l, depts |-> IF level[l].scoped THEN D ELSE {}]

-----------------------------------------------------------------------------
(* Requests.                                                               *)

Init ==
  /\ level = [l \in Levels |->
       IF l = PrimaryAdmin
       THEN [exists |-> TRUE, active |-> TRUE, scoped |-> FALSE, caps |-> Capability]
       ELSE IF l = DepartmentAdmin
       THEN [exists |-> TRUE, active |-> TRUE, scoped |-> TRUE,
             caps |-> {"view_volunteers", "record_screening"}]
       ELSE [exists |-> FALSE, active |-> FALSE, scoped |-> TRUE, caps |-> {}]]
  /\ account = [a \in Admins |-> IF a = Founder THEN "active" ELSE "none"]
  /\ grant = [a \in Admins |->
       IF a = Founder THEN [level |-> PrimaryAdmin, depts |-> {}] ELSE NoAccess]
  /\ owner = [f \in Files |-> IF f \in Fresh THEN Unborn ELSE NoOne]
  /\ queue = [f \in Files |-> NoOne]
  /\ by = Founder
  /\ edits = 0

\* requires(MANAGE_USERS), on every view of the administrators' section
Manages(a) == has_capability(a, "manage_users") /\ by' = a

admin_access(a, s, l, D) ==
  /\ Manages(a)
  /\ account[s] # "none"
  /\ Grantable(a, l, D)
  /\ ~would_strand_the_church(s, level[l])
  /\ grant' = [grant EXCEPT ![s] = Granted(l, D)]
  /\ UNCHANGED <<level, account, owner, queue, edits>>

\* With a file chosen it is linked; otherwise a fresh one is created, or none
\* when the church already has a file under that name.
admin_invite(a, s, l, D) ==
  /\ Manages(a)
  /\ account[s] = "none"
  /\ Grantable(a, l, D)
  /\ account' = [account EXCEPT ![s] = "active"]
  /\ grant' = [grant EXCEPT ![s] = Granted(l, D)]
  /\ \/ UNCHANGED owner
     \/ \E f \in Files :
          /\ owner[f] = Unborn \/ (owner[f] = NoOne /\ sees(a, f))
          /\ owner' = [owner EXCEPT ![f] = s]
  /\ UNCHANGED <<level, queue, edits>>

admin_deactivate(a, s) ==
  /\ Manages(a)
  /\ a # s
  /\ account[s] = "active"
  /\ Cardinality({u \in Admins : account[u] = "active"}) > 1
  /\ ~would_strand_the_church(s, no_access_level)
  /\ ~own_review_backlog_unlocked_by_removing(a, s)
  /\ account' = [account EXCEPT ![s] = "inactive"]
  /\ UNCHANGED <<level, grant, owner, queue, edits>>

admin_reactivate(a, s) ==
  /\ Manages(a)
  /\ a # s
  /\ account[s] = "inactive"
  /\ account' = [account EXCEPT ![s] = "active"]
  /\ UNCHANGED <<level, grant, owner, queue, edits>>

\* AccessLevelForm, for a new level and for an edited one.
LevelForm(a, row) ==
  /\ clean(row)
  /\ row.caps \subseteq LevelOf(a).caps
  /\ LevelOf(a).scoped => row.scoped

access_level_create(a, l, row) ==
  /\ Manages(a)
  /\ ~level[l].exists
  /\ LevelForm(a, row)
  /\ edits < MaxEdits
  /\ edits' = edits + 1
  /\ level' = [level EXCEPT ![l] = row]
  /\ UNCHANGED <<account, grant, owner, queue>>

access_level_edit(a, l, row) ==
  /\ Manages(a)
  /\ level[l].exists
  /\ l \in {PrimaryAdmin, DepartmentAdmin} => row.active = level[l].active
  /\ LevelForm(a, row)
  /\ edits < MaxEdits
  /\ edits' = edits + 1
  /\ level' = [level EXCEPT ![l] = row]
  /\ UNCHANGED <<account, grant, owner, queue>>

\* One file per account is a unique index; a second link fails and changes nothing.
admin_link_volunteer(a, s, f) ==
  /\ Manages(a)
  /\ account[s] # "none"
  /\ owner[f] = NoOne
  /\ s = a => ~another_unscoped_admin_exists(a)
  /\ \A g \in Files : owner[g] # s
  /\ owner' = [owner EXCEPT ![f] = s]
  /\ UNCHANGED <<level, account, grant, queue, edits>>

admin_create_volunteer(a, s, f) ==
  /\ Manages(a)
  /\ account[s] # "none"
  /\ owner[f] = Unborn
  /\ \A g \in Files : owner[g] # s
  /\ owner' = [owner EXCEPT ![f] = s]
  /\ UNCHANGED <<level, account, grant, queue, edits>>

\* Any of the screening writes on a file; a limited recorder's entry waits for review.
record(a, f) ==
  /\ has_capability(a, "record_screening")
  /\ sees(a, f)
  /\ may_record_against(a, f)
  /\ by' = a
  /\ queue' = IF is_unscoped(a) THEN queue ELSE [queue EXCEPT ![f] = a]
  /\ UNCHANGED <<level, account, grant, owner, edits>>

\* item_affirm and item_send_back
decide(a, f) ==
  /\ has_capability(a, "view_volunteers")
  /\ queue[f] # NoOne
  /\ may_review(a, f)
  /\ by' = a
  /\ queue' = [queue EXCEPT ![f] = NoOne]
  /\ UNCHANGED <<level, account, grant, owner, edits>>

AnyRow == {r \in LevelRow : r.exists /\ r.caps \in CapSets}

Next ==
  \E a \in Admins :
    \/ \E s \in Admins, l \in Levels, D \in SUBSET Departments : admin_access(a, s, l, D)
    \/ \E s \in Admins, l \in Levels, D \in SUBSET Departments : admin_invite(a, s, l, D)
    \/ \E s \in Admins : admin_deactivate(a, s)
    \/ \E s \in Admins : admin_reactivate(a, s)
    \/ \E l \in Levels, row \in AnyRow : access_level_create(a, l, row)
    \/ \E l \in Levels, row \in AnyRow : access_level_edit(a, l, row)
    \/ \E s \in Admins, f \in Files : admin_link_volunteer(a, s, f)
    \/ \E s \in Admins, f \in Files : admin_create_volunteer(a, s, f)
    \/ \E f \in Files : record(a, f)
    \/ \E f \in Files : decide(a, f)

Spec == Init /\ [][Next]_vars

-----------------------------------------------------------------------------
(* Properties.                                                             *)

(* What a grant reaches, used or not: a capability in each department, and *)
(* in the church as a whole for a level that is not limited.               *)
Reach(a) ==
  IF grant[a].level = NoLevel THEN {}
  ELSE LevelOf(a).caps \X (IF LevelOf(a).scoped THEN grant[a].depts ELSE Departments \cup {NoOne})

CapsOf(a) == IF grant[a].level = NoLevel THEN {} ELSE LevelOf(a).caps

(* Nobody is handed more than the person acting holds, whatever the route: *)
(* a changed grant reaches nothing its holder and the granter did not, and *)
(* no edit of a level adds a capability its editor lacks (core/forms.py:4).*)
(* An edited level may still widen where its holders' capabilities apply:  *)
(* departments are not compared when a level is edited.                    *)
NoEscalation ==
  [][\A s \in Admins :
       /\ CapsOf(s)' \subseteq CapsOf(s) \cup CapsOf(by')
       /\ level' = level => Reach(s)' \subseteq Reach(s) \cup Reach(by')]_vars

(* Invitations, access changes, deactivations and everything else keep     *)
(* somebody able to manage access church-wide; only editing a level can    *)
(* take the last such person away.                                         *)
StrandedOnlyByLevelEdit ==
  [][Managers # {} /\ Managers' = {} => level' # level]_vars

(* An administrator with entries of their own in the queue cannot become   *)
(* the only possible reviewer by deactivating others. Changing their       *)
(* access or their level is not covered by that guard.                     *)
BacklogNotUnlockedByDeactivation ==
  [][Backlog(by') # {} /\ Reviewers \ {by'} # {} /\ Reviewers' \ {by'} = {} /\ is_unscoped(by')
       => <<grant, level>>' # <<grant, level>>]_vars

(* An entry leaves the queue by its own recorder's hand only when nobody   *)
(* else could have decided it: recording again, changing levels or linking *)
(* files is no way round the second pair of eyes.                          *)
OwnEntryDecidedOnlyWhenAlone ==
  [][\A f \in Files : queue[f] = by' /\ queue'[f] # by' => Reviewers \subseteq {by'}]_vars

=============================================================================
