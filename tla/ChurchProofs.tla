----------------------------- MODULE ChurchProofs -----------------------------
(***************************************************************************)
(* What a church rests on besides its requirement rules, for any number of *)
(* administrators, files, processes, keys, uploads and definitions.  The   *)
(* three components share nothing; each has a part of its own here.        *)
(***************************************************************************)
EXTENDS Access, Custody, DependencyGraph, TLAPS, WellFoundedInduction

-----------------------------------------------------------------------------
(***************************************************************************)
(* Access.  No request hands on more than its maker holds, takes away the  *)
(* last manager, or lets an administrator arrange to decide their own      *)
(* entries.                                                                *)
(***************************************************************************)

\* The requests, by what they write.
Grants(a, s, l, D) == admin_access(a, s, l, D) \/ admin_invite(a, s, l, D)

Accounts(a, s) == admin_deactivate(a, s) \/ admin_reactivate(a, s)

Edits(a, l, row) == access_level_create(a, l, row) \/ access_level_edit(a, l, row)

Links(a, s, f) == admin_link_volunteer(a, s, f) \/ admin_create_volunteer(a, s, f)

Entries(a, f) == record(a, f) \/ decide(a, f)

LEMMA NextIs ==
  ASSUME Next
  PROVE  \E a \in Admins :
           \/ \E s \in Admins, l \in Levels, D \in SUBSET Departments : Grants(a, s, l, D)
           \/ \E s \in Admins : Accounts(a, s)
           \/ \E l \in Levels, row \in AnyRow : Edits(a, l, row)
           \/ \E s \in Admins, f \in Files : Links(a, s, f)
           \/ \E f \in Files : Entries(a, f)
  BY DEF Next, Grants, Accounts, Edits, Links, Entries

-----------------------------------------------------------------------------
(* Types.                                                                    *)

LEMMA AccessInit == Init => ATypeOK
<1>1. SUFFICES ASSUME Init PROVE ATypeOK
  OBVIOUS
<1>2. level \in [Levels -> LevelRow] /\ \A l \in Levels : level[l].scoped => "view_audit" \notin level[l].caps
  BY <1>1, AccessAssumption DEF Init, LevelRow, AccessAssumption
<1>3. account \in [Admins -> {"none", "active", "inactive"}]
  BY <1>1 DEF Init
<1>4. grant \in [Admins -> [level : Levels \cup {NoLevel}, depts : SUBSET Departments]]
  BY <1>1, AccessAssumption DEF Init, NoAccess, AccessAssumption
<1>5. /\ owner \in [Files -> Admins \cup {NoOne, Unborn}]
      /\ queue \in [Files -> Admins \cup {NoOne}]
      /\ by \in Admins /\ edits \in 0..MaxEdits
  BY <1>1, AccessAssumption DEF Init, AccessAssumption
<1>6. QED  BY <1>2, <1>3, <1>4, <1>5 DEF ATypeOK

LEMMA AccessNext == ATypeOK /\ [Next]_vars => ATypeOK'
<1>1. SUFFICES ASSUME ATypeOK, Next PROVE ATypeOK'
  BY DEF vars, ATypeOK
<1>2. PICK a \in Admins :
         \/ \E s \in Admins, l \in Levels, D \in SUBSET Departments : Grants(a, s, l, D)
         \/ \E s \in Admins : Accounts(a, s)
         \/ \E l \in Levels, row \in AnyRow : Edits(a, l, row)
         \/ \E s \in Admins, f \in Files : Links(a, s, f)
         \/ \E f \in Files : Entries(a, f)
  BY <1>1, NextIs
<1>3. ASSUME NEW s \in Admins, NEW l \in Levels, NEW D \in SUBSET Departments, Grants(a, s, l, D)
      PROVE  ATypeOK'
  <2>1. Granted(l, D) \in [level : Levels \cup {NoLevel}, depts : SUBSET Departments]
    BY DEF Granted
  <2>2. grant' \in [Admins -> [level : Levels \cup {NoLevel}, depts : SUBSET Departments]]
    BY <1>1, <1>3, <2>1 DEF Grants, admin_access, admin_invite, ATypeOK
  <2>3. /\ account' \in [Admins -> {"none", "active", "inactive"}]
        /\ owner' \in [Files -> Admins \cup {NoOne, Unborn}]
    BY <1>1, <1>3 DEF Grants, admin_access, admin_invite, ATypeOK
  <2>4. by' = a /\ UNCHANGED <<level, queue, edits>>
    BY <1>3 DEF Grants, admin_access, admin_invite, Manages
  <2>5. QED  BY <1>1, <2>2, <2>3, <2>4 DEF ATypeOK
<1>4. ASSUME NEW s \in Admins, Accounts(a, s) PROVE ATypeOK'
  <2>1. account' \in [Admins -> {"none", "active", "inactive"}]
    BY <1>1, <1>4 DEF Accounts, admin_deactivate, admin_reactivate, ATypeOK
  <2>2. by' = a /\ UNCHANGED <<level, grant, owner, queue, edits>>
    BY <1>4 DEF Accounts, admin_deactivate, admin_reactivate, Manages
  <2>3. QED  BY <1>1, <2>1, <2>2 DEF ATypeOK
<1>5. ASSUME NEW l \in Levels, NEW row \in AnyRow, Edits(a, l, row) PROVE ATypeOK'
  <2>1. /\ clean(row) /\ by' = a /\ level' = [level EXCEPT ![l] = row]
        /\ edits < MaxEdits /\ edits' = edits + 1
        /\ UNCHANGED <<account, grant, owner, queue>>
    BY <1>5 DEF Edits, access_level_create, access_level_edit, LevelForm, Manages
  <2>2. /\ level' \in [Levels -> LevelRow]
        /\ \A k \in Levels : level'[k].scoped => "view_audit" \notin level'[k].caps
    BY <1>1, <2>1 DEF ATypeOK, AnyRow, clean
  <2>3. edits' \in 0..MaxEdits
    BY <1>1, <2>1, AccessAssumption DEF ATypeOK, AccessAssumption
  <2>4. QED  BY <1>1, <2>1, <2>2, <2>3 DEF ATypeOK
<1>6. ASSUME NEW s \in Admins, NEW f \in Files, Links(a, s, f) PROVE ATypeOK'
  <2>1. /\ owner' = [owner EXCEPT ![f] = s] /\ by' = a
        /\ UNCHANGED <<level, account, grant, queue, edits>>
    BY <1>6 DEF Links, admin_link_volunteer, admin_create_volunteer, Manages
  <2>2. QED  BY <1>1, <2>1 DEF ATypeOK
<1>7. ASSUME NEW f \in Files, Entries(a, f) PROVE ATypeOK'
  <2>1. /\ queue' \in {queue, [queue EXCEPT ![f] = a], [queue EXCEPT ![f] = NoOne]}
        /\ by' = a /\ UNCHANGED <<level, account, grant, owner, edits>>
    BY <1>7 DEF Entries, record, decide
  <2>2. queue' \in [Files -> Admins \cup {NoOne}]
    BY <1>1, <2>1 DEF ATypeOK
  <2>3. QED  BY <1>1, <2>1, <2>2 DEF ATypeOK
<1>8. QED  BY <1>2, <1>3, <1>4, <1>5, <1>6, <1>7

(* Rows keep their shape, and a limited level never reads the audit trail, *)
(* as AccessLevel.clean demands.                                           *)
THEOREM ATypeOKAlways == Spec => []ATypeOK
  BY AccessInit, AccessNext, PTL DEF Spec

-----------------------------------------------------------------------------
(* Escalation.                                                               *)

\* A grant reaches no further than the granter's.
LEMMA GrantIsCovered ==
  ASSUME ATypeOK, NEW a \in Admins, NEW l \in Levels, NEW D \in SUBSET Departments,
         has_capability(a, "manage_users"), Grantable(a, l, D)
  PROVE  /\ level[l].caps \subseteq CapsOf(a)
         /\ level[l].caps \X (IF level[l].scoped THEN D ELSE Departments \cup {NoOne})
              \subseteq Reach(a)
<1>1. grant[a].level # NoLevel /\ HasGrant(a) /\ LevelOf(a) = level[grant[a].level]
  BY DEF has_capability, HasGrant, LevelOf
<1>2. /\ level[l].caps \subseteq LevelOf(a).caps
      /\ LevelOf(a).scoped => level[l].scoped
      /\ D \subseteq Scope(a)
  BY DEF Grantable, covers
<1>3. /\ CapsOf(a) = LevelOf(a).caps
      /\ Reach(a) = LevelOf(a).caps \X
           (IF LevelOf(a).scoped THEN grant[a].depts ELSE Departments \cup {NoOne})
  BY <1>1 DEF CapsOf, Reach
<1>4. LevelOf(a).scoped => Scope(a) = grant[a].depts
  BY <1>1 DEF Scope, is_unscoped
<1>5. (IF level[l].scoped THEN D ELSE Departments \cup {NoOne})
        \subseteq (IF LevelOf(a).scoped THEN grant[a].depts ELSE Departments \cup {NoOne})
  BY <1>2, <1>4
<1>6. QED  BY <1>2, <1>3, <1>5

LEMMA GrantsEscalateNothing ==
  ASSUME ATypeOK, NEW a \in Admins, NEW s \in Admins, NEW l \in Levels,
         NEW D \in SUBSET Departments, Grants(a, s, l, D), NEW u \in Admins
  PROVE  /\ CapsOf(u)' \subseteq CapsOf(u) \cup CapsOf(a)
         /\ Reach(u)' \subseteq Reach(u) \cup Reach(a)
<1>1. /\ has_capability(a, "manage_users") /\ Grantable(a, l, D) /\ level' = level
      /\ grant' = [grant EXCEPT ![s] = Granted(l, D)]
  BY DEF Grants, admin_access, admin_invite, Manages
<1>2. CASE u # s
  <2>1. grant'[u] = grant[u]
    BY <1>1, <1>2 DEF ATypeOK
  <2>2. CapsOf(u)' = CapsOf(u) /\ Reach(u)' = Reach(u)
    <3>1. LevelOf(u)' = LevelOf(u)
      BY <1>1, <2>1 DEF LevelOf
    <3>2. CapsOf(u)' = CapsOf(u)
      BY <2>1, <3>1 DEF CapsOf
    <3>3. Reach(u)' = Reach(u)
      BY <2>1, <3>1, Zenon DEF Reach
    <3>4. QED  BY <3>2, <3>3
  <2>3. QED  BY <2>2
<1>3. CASE u = s
  <2>1. grant'[u].level = l /\ (level[l].scoped => grant'[u].depts = D) /\ l # NoLevel
    BY <1>1, <1>3, AccessAssumption DEF ATypeOK, Granted, AccessAssumption
  <2>2. /\ CapsOf(u)' = level[l].caps
        /\ Reach(u)' = level[l].caps \X (IF level[l].scoped THEN D ELSE Departments \cup {NoOne})
    BY <1>1, <2>1 DEF CapsOf, Reach, LevelOf
  <2>3. QED  BY <1>1, <2>2, GrantIsCovered
<1>4. QED  BY <1>2, <1>3

LEMMA EditsEscalateNothing ==
  ASSUME ATypeOK, NEW a \in Admins, NEW l \in Levels, NEW row \in AnyRow, Edits(a, l, row),
         NEW u \in Admins
  PROVE  CapsOf(u)' \subseteq CapsOf(u) \cup CapsOf(a)
<1>1. /\ has_capability(a, "manage_users") /\ row.caps \subseteq LevelOf(a).caps
      /\ level' = [level EXCEPT ![l] = row] /\ grant' = grant
  BY DEF Edits, access_level_create, access_level_edit, LevelForm, Manages
<1>2. row.caps \subseteq CapsOf(a)
  BY <1>1 DEF CapsOf, has_capability, HasGrant
<1>3. grant[u].level # NoLevel => grant[u].level \in Levels
  BY DEF ATypeOK
<1>4. \A k \in Levels : level'[k] = IF k = l THEN row ELSE level[k]
  BY <1>1 DEF ATypeOK
<1>5. CapsOf(u)' \subseteq CapsOf(u) \cup row.caps
  BY <1>1, <1>3, <1>4 DEF CapsOf, LevelOf
<1>6. QED  BY <1>2, <1>5

(* AccessGrantForm and AccessLevelForm (core/forms.py): whoever gains a    *)
(* capability, and wherever a grant comes to reach, the person acting      *)
(* already held it.                                                        *)
THEOREM NoEscalationAlways == Spec => NoEscalation
<1> DEFINE Kept == \A s \in Admins :
                     /\ CapsOf(s)' \subseteq CapsOf(s) \cup CapsOf(by')
                     /\ level' = level => Reach(s)' \subseteq Reach(s) \cup Reach(by')
<1>1. ASSUME ATypeOK, Next PROVE Kept \/ UNCHANGED vars
  <2>1. PICK a \in Admins :
           \/ \E s \in Admins, l \in Levels, D \in SUBSET Departments : Grants(a, s, l, D)
           \/ \E s \in Admins : Accounts(a, s)
           \/ \E l \in Levels, row \in AnyRow : Edits(a, l, row)
           \/ \E s \in Admins, f \in Files : Links(a, s, f)
           \/ \E f \in Files : Entries(a, f)
    BY <1>1, NextIs
  <2>2. ASSUME NEW s \in Admins, NEW l \in Levels, NEW D \in SUBSET Departments,
               Grants(a, s, l, D)
        PROVE  Kept
    <3>1. by' = a
      BY <2>2 DEF Grants, admin_access, admin_invite, Manages
    <3>2. QED  BY <1>1, <2>2, <3>1, GrantsEscalateNothing
  <2>3. ASSUME NEW l \in Levels, NEW row \in AnyRow, Edits(a, l, row)
        PROVE  Kept
    <3>1. by' = a /\ level' = [level EXCEPT ![l] = row] /\ grant' = grant
      BY <2>3 DEF Edits, access_level_create, access_level_edit, Manages
    <3>2. ASSUME level' = level, NEW u \in Admins PROVE Reach(u)' = Reach(u)
      <4>1. LevelOf(u)' = LevelOf(u)
        BY <3>1, <3>2 DEF LevelOf
      <4>2. QED  BY <3>1, <4>1, Zenon DEF Reach
    <3>3. \A u \in Admins : CapsOf(u)' \subseteq CapsOf(u) \cup CapsOf(a)
      BY <1>1, <2>3, EditsEscalateNothing
    <3>4. QED  BY <3>1, <3>2, <3>3
  <2>4. ASSUME level' = level, grant' = grant PROVE Kept
    <3>1. ASSUME NEW u \in Admins PROVE CapsOf(u)' = CapsOf(u) /\ Reach(u)' = Reach(u)
      <4>1. LevelOf(u)' = LevelOf(u)
        BY <2>4 DEF LevelOf
      <4>2. CapsOf(u)' = CapsOf(u)
        BY <2>4, <4>1 DEF CapsOf
      <4>3. Reach(u)' = Reach(u)
        BY <2>4, <4>1, Zenon DEF Reach
      <4>4. QED  BY <4>2, <4>3
    <3>2. QED  BY <3>1
  <2>5. QED
    BY <2>1, <2>2, <2>3, <2>4
    DEF Accounts, admin_deactivate, admin_reactivate, Links, admin_link_volunteer,
        admin_create_volunteer, Entries, record, decide
<1>2. ATypeOK /\ [Next]_vars => [Kept]_vars
  BY <1>1
<1>3. QED  BY <1>2, AccessInit, AccessNext, PTL DEF Spec, NoEscalation

-----------------------------------------------------------------------------
(* Managers and reviewers.                                                   *)

\* Only a request about accounts or grants moves anybody but through a level.
LEMMA OthersStand ==
  ASSUME ATypeOK, NEW s, level' = level,
         account' = account \/ \E x : account' = [account EXCEPT ![s] = x],
         grant' = grant \/ \E x : grant' = [grant EXCEPT ![s] = x]
  PROVE  /\ Managers \ {s} \subseteq Managers' /\ Reviewers \ {s} \subseteq Reviewers'
         /\ Reviewers' \ {s} \subseteq Reviewers
<1>1. \A u \in Admins : u # s => account'[u] = account[u] /\ grant'[u] = grant[u]
  BY DEF ATypeOK
<1>2. \A u \in Admins : u # s =>
         LevelOf(u)' = LevelOf(u) /\ (is_unscoped(u)' <=> is_unscoped(u))
  BY <1>1 DEF LevelOf, is_unscoped, HasGrant
<1>3. QED  BY <1>2 DEF Managers, Reviewers

LEMMA StrandedStep ==
  ASSUME ATypeOK, Next, Managers # {}, level' = level
  PROVE  Managers' # {}
<1>1. PICK a \in Admins :
         \/ \E s \in Admins, l \in Levels, D \in SUBSET Departments : Grants(a, s, l, D)
         \/ \E s \in Admins : Accounts(a, s)
         \/ \E l \in Levels, row \in AnyRow : Edits(a, l, row)
         \/ \E s \in Admins, f \in Files : Links(a, s, f)
         \/ \E f \in Files : Entries(a, f)
  BY NextIs
<1>2. ASSUME account' = account, grant' = grant PROVE Managers' # {}
  <2>1. Managers' = Managers
    BY <1>2 DEF Managers, Reviewers, is_unscoped, HasGrant, LevelOf
  <2>2. QED  BY <2>1
<1>3. ASSUME NEW s \in Admins, NEW l \in Levels, NEW D \in SUBSET Departments,
             Grants(a, s, l, D)
      PROVE  Managers' # {}
  <2>1. /\ Grantable(a, l, D) /\ grant' = [grant EXCEPT ![s] = Granted(l, D)]
        /\ account' = account \/ (account[s] = "none" /\ account' = [account EXCEPT ![s] = "active"])
        /\ ~would_strand_the_church(s, level[l]) \/ account[s] = "none"
    BY <1>3 DEF Grants, admin_access, admin_invite
  <2>2. Managers \ {s} \subseteq Managers'
    BY <2>1, OthersStand
  <2>3. CASE Managers \ {s} # {}
    BY <2>2, <2>3
  <2>4. CASE Managers \ {s} = {}
    <3>1. s \in Managers
      BY <2>4
    <3>2. account[s] = "active"
      BY <3>1 DEF Managers, Reviewers, is_unscoped, HasGrant
    <3>3. ~level[l].scoped /\ "manage_users" \in level[l].caps /\ account' = account
      BY <2>1, <2>4, <3>2 DEF would_strand_the_church
    <3>4. grant'[s].level = l /\ l # NoLevel /\ level[l].active
      BY <2>1, AccessAssumption DEF ATypeOK, Granted, Grantable, AccessAssumption
    <3>5. LevelOf(s)' = level[l]
      BY <3>4 DEF LevelOf
    <3>6. s \in Managers'
      BY <3>2, <3>3, <3>4, <3>5 DEF Managers, Reviewers, is_unscoped, HasGrant
    <3>7. QED  BY <3>6
  <2>5. QED  BY <2>3, <2>4
<1>4. ASSUME NEW s \in Admins, Accounts(a, s) PROVE Managers' # {}
  <2>1. CASE admin_deactivate(a, s)
    <3>1. Managers \ {s} # {}
      BY <2>1 DEF admin_deactivate, would_strand_the_church, no_access_level
    <3>2. Managers \ {s} \subseteq Managers'
      BY <2>1, OthersStand DEF admin_deactivate
    <3>3. QED  BY <3>1, <3>2
  <2>2. CASE admin_reactivate(a, s)
    <3>1. Managers \ {s} \subseteq Managers' /\ s \notin Managers
      BY <2>2, OthersStand DEF admin_reactivate, Managers, Reviewers, is_unscoped, HasGrant
    <3>2. QED  BY <3>1
  <2>3. QED  BY <1>4, <2>1, <2>2 DEF Accounts
<1>5. QED
  BY <1>1, <1>2, <1>3, <1>4
  DEF Edits, access_level_create, access_level_edit, Links, admin_link_volunteer,
      admin_create_volunteer, Entries, record, decide

(* would_strand_the_church: no invitation, change of access or deactivation *)
(* takes away the last administrator who can manage access.                *)
THEOREM StrandedOnlyByLevelEditAlways == Spec => StrandedOnlyByLevelEdit
<1>1. ATypeOK /\ [Next]_vars =>
        [Managers # {} /\ Managers' = {} => level' # level]_vars
  BY StrandedStep
<1>2. QED  BY <1>1, AccessInit, AccessNext, PTL DEF Spec, StrandedOnlyByLevelEdit

LEMMA UnlockedStep ==
  ASSUME ATypeOK, Next, grant' = grant, level' = level,
         Backlog(by') # {}, Reviewers \ {by'} # {}, is_unscoped(by')
  PROVE  Reviewers' \ {by'} # {}
<1>1. PICK a \in Admins :
         \/ \E s \in Admins, l \in Levels, D \in SUBSET Departments : Grants(a, s, l, D)
         \/ \E s \in Admins : Accounts(a, s)
         \/ \E l \in Levels, row \in AnyRow : Edits(a, l, row)
         \/ \E s \in Admins, f \in Files : Links(a, s, f)
         \/ \E f \in Files : Entries(a, f)
  BY NextIs
<1>2. by' = a
  BY <1>1 DEF Grants, admin_access, admin_invite, Accounts, admin_deactivate, admin_reactivate,
              Edits, access_level_create, access_level_edit, Links, admin_link_volunteer,
              admin_create_volunteer, Entries, record, decide, Manages
<1>3. ASSUME NEW s \in Admins, account[s] # "active",
             account' = account \/ account' = [account EXCEPT ![s] = "active"]
      PROVE  Reviewers' \ {by'} # {}
  <2>1. Reviewers \ {s} \subseteq Reviewers'
    BY <1>3, OthersStand
  <2>2. s \notin Reviewers
    BY <1>3 DEF Reviewers, is_unscoped, HasGrant
  <2>3. QED  BY <2>1, <2>2
<1>4. ASSUME account' = account PROVE Reviewers' \ {by'} # {}
  <2>1. Reviewers' = Reviewers
    BY <1>4 DEF Reviewers, is_unscoped, HasGrant, LevelOf
  <2>2. QED  BY <2>1
<1>5. ASSUME NEW s \in Admins, admin_deactivate(a, s) PROVE Reviewers' \ {by'} # {}
  <2>1. Reviewers \ {s} \subseteq Reviewers'
    BY <1>5, OthersStand DEF admin_deactivate
  <2>2. a # s /\ ~own_review_backlog_unlocked_by_removing(a, s)
    BY <1>5 DEF admin_deactivate
  <2>3. Reviewers \ {a, s} # {}
    BY <1>2, <2>2 DEF own_review_backlog_unlocked_by_removing
  <2>4. QED  BY <1>2, <2>1, <2>3
<1>6. ASSUME NEW s \in Admins, NEW l \in Levels, NEW D \in SUBSET Departments,
             Grants(a, s, l, D)
      PROVE  Reviewers' \ {by'} # {}
  <2>1. account' = account \/ (account[s] = "none" /\ account' = [account EXCEPT ![s] = "active"])
    BY <1>6 DEF Grants, admin_access, admin_invite
  <2>2. QED  BY <2>1, <1>3, <1>4
<1>7. ASSUME NEW s \in Admins, admin_reactivate(a, s) PROVE Reviewers' \ {by'} # {}
  BY <1>3, <1>7 DEF admin_reactivate
<1>8. QED
  BY <1>1, <1>4, <1>5, <1>6, <1>7
  DEF Accounts, Edits, access_level_create, access_level_edit, Links, admin_link_volunteer,
      admin_create_volunteer, Entries, record, decide

(* own_review_backlog_unlocked_by_removing: nobody with entries of their   *)
(* own in the queue becomes the only reviewer by deactivating the others.  *)
THEOREM BacklogNotUnlockedAlways == Spec => BacklogNotUnlockedByDeactivation
<1>1. ATypeOK /\ [Next]_vars =>
        [Backlog(by') # {} /\ Reviewers \ {by'} # {} /\ Reviewers' \ {by'} = {} /\ is_unscoped(by')
           => <<grant, level>>' # <<grant, level>>]_vars
  BY UnlockedStep
<1>2. QED  BY <1>1, AccessInit, AccessNext, PTL DEF Spec, BacklogNotUnlockedByDeactivation

-----------------------------------------------------------------------------
(* The second pair of eyes.                                                  *)

LEMMA OwnEntryStep ==
  ASSUME ATypeOK, Next, NEW f \in Files, queue[f] = by', queue'[f] # by'
  PROVE  Reviewers \subseteq {by'}
<1>1. PICK a \in Admins :
         \/ \E s \in Admins, l \in Levels, D \in SUBSET Departments : Grants(a, s, l, D)
         \/ \E s \in Admins : Accounts(a, s)
         \/ \E l \in Levels, row \in AnyRow : Edits(a, l, row)
         \/ \E s \in Admins, g \in Files : Links(a, s, g)
         \/ \E g \in Files : Entries(a, g)
  BY NextIs
<1>2. queue' # queue
  OBVIOUS
<1>3. PICK g \in Files : Entries(a, g)
  BY <1>1, <1>2
  DEF Grants, admin_access, admin_invite, Accounts, admin_deactivate, admin_reactivate,
      Edits, access_level_create, access_level_edit, Links, admin_link_volunteer,
      admin_create_volunteer
<1>4. by' = a
  BY <1>3 DEF Entries, record, decide
<1>5. CASE record(a, g)
  <2>1. queue' = [queue EXCEPT ![g] = a]
    BY <1>2, <1>5 DEF record
  <2>2. QED  BY <1>4, <2>1 DEF ATypeOK
<1>6. CASE decide(a, g)
  <2>1. queue' = [queue EXCEPT ![g] = NoOne] /\ may_review(a, g)
    BY <1>6 DEF decide
  <2>2. g = f
    BY <2>1 DEF ATypeOK
  <2>3. ~another_unscoped_admin_exists(a)
    BY <1>4, <2>1, <2>2 DEF may_review
  <2>4. QED  BY <1>4, <2>3 DEF another_unscoped_admin_exists
<1>7. QED  BY <1>3, <1>5, <1>6 DEF Entries

(* may_review: an entry is decided by its own recorder only when there is  *)
(* nobody else at the church who could.                                    *)
THEOREM OwnEntryDecidedOnlyWhenAloneAlways == Spec => OwnEntryDecidedOnlyWhenAlone
<1>1. ATypeOK /\ [Next]_vars =>
        [\A f \in Files : queue[f] = by' /\ queue'[f] # by' => Reviewers \subseteq {by'}]_vars
  BY OwnEntryStep
<1>2. QED  BY <1>1, AccessInit, AccessNext, PTL DEF Spec, OwnEntryDecidedOnlyWhenAlone

-----------------------------------------------------------------------------
(***************************************************************************)
(* Custody.  What is sealed for a church is under its own key, that key    *)
(* can be recovered, and a document's row has its file.                    *)
(***************************************************************************)

Rows == [status : {Church, Absent}, wrapped : Wrapped, fingerprint : Nat,
         mode : Mode, backup : BOOLEAN]

Work == [on : {"nothing", "settings", "mode", "entry", "confirming", "job", "upload", "saving"},
         row : Rows, file : Nat]

CacheEntries == [seal : Nat, dek : Nat] \cup {Empty}

Types ==
  /\ church \in Rows
  /\ deks \in Nat /\ seals \in Nat /\ uploads \in Nat /\ deployed \in Nat
  /\ master \in [Process -> Nat]
  /\ cache \in [Process -> CacheEntries]
  /\ copy \in [Process -> Work]

\* A church not provisioned has left nothing behind, in any process.
NothingYet ==
  church.status = Absent =>
    /\ KeysInUse = {}
    /\ \A p \in Process : cache[p] = Empty /\ copy[p].on = "nothing"

\* A row that wraps key k.
Wraps(row, k) == row.status = Church /\ row.wrapped.dek = k /\ row.fingerprint = k

CacheHolds(entry, k) == entry # Empty => entry.dek = k

\* The row, every cache and every row in somebody's hands hold one key.
OneKey ==
  church.status = Church =>
    /\ church.wrapped.dek = church.fingerprint
    /\ church.fingerprint \in escrow
    /\ KeysInUse \subseteq {church.fingerprint}
    /\ \A p \in Process : CacheHolds(cache[p], church.fingerprint)
    /\ \A p \in Process : copy[p].on # "nothing" => Wraps(copy[p].row, church.fingerprint)

CustodyInv == Types /\ NothingYet /\ OneKey

-----------------------------------------------------------------------------

(* Whichever way a process finds its key, it is the church's or an error,  *)
(* and so is what it remembers.                                            *)
LEMMA KeyIsTheChurchs ==
  ASSUME Types, OneKey, church.status = Church,
         NEW p \in Process, NEW wrapped \in Wrapped, wrapped.dek = church.fingerprint,
         NEW key, key \in {KeyOfRow(p, wrapped), KeyOfSchema(p, wrapped), Unwrap(p, wrapped)}
  PROVE  /\ key.dek \in {0, church.fingerprint}
         /\ key.entry \in CacheEntries
         /\ CacheHolds(key.entry, church.fingerprint)
<1>1. /\ cache[p] \in CacheEntries
      /\ CacheHolds(cache[p], church.fingerprint)
  BY DEF Types, OneKey
<1>2. /\ wrapped.seal \in Nat /\ wrapped.dek \in Nat
      /\ [seal |-> wrapped.seal, dek |-> wrapped.dek] \in CacheEntries
  BY DEF Wrapped, CacheEntries
<1>3. /\ Unwrap(p, wrapped).dek \in {0, church.fingerprint}
      /\ Unwrap(p, wrapped).entry \in CacheEntries
      /\ CacheHolds(Unwrap(p, wrapped).entry, church.fingerprint)
  BY <1>1, <1>2 DEF Unwrap, Key, CacheHolds
<1>4. cache[p] # Empty =>
        /\ Key(cache[p].dek, cache[p]).dek \in {0, church.fingerprint}
        /\ Key(cache[p].dek, cache[p]).entry \in CacheEntries
        /\ CacheHolds(Key(cache[p].dek, cache[p]).entry, church.fingerprint)
  BY <1>1 DEF Key, CacheHolds
<1>5. QED
  BY <1>3, <1>4 DEF KeyOfRow, KeyOfSchema

LEMMA CustodyInit == CInit => CustodyInv
<1>1. SUFFICES ASSUME CInit PROVE CustodyInv
  OBVIOUS
<1>2. NoRow \in Rows /\ NoRow.status = Absent /\ Absent # Church
  BY CustodyAssumption DEF CustodyAssumption, NoRow, Rows, Wrapped, Mode
<1>3. NotWorking \in Work /\ NotWorking.on = "nothing"
  BY <1>2 DEF NotWorking, Work
<1>4. Types
  BY <1>1, <1>2, <1>3 DEF CInit, Types, CacheEntries
<1>5. NothingYet
  BY <1>1, <1>3 DEF CInit, NothingYet, KeysInUse
<1>6. OneKey
  BY <1>1, <1>2 DEF CInit, OneKey
<1>7. QED
  BY <1>4, <1>5, <1>6 DEF CustodyInv

-----------------------------------------------------------------------------
(* Provisioning makes the key; nothing was there before.                   *)

LEMMA ProvisionKeeps ==
  ASSUME CustodyInv, NEW p \in Process, NEW mode \in Chosen, NEW commits \in BOOLEAN,
         provision_church(p, mode, commits)
  PROVE  CustodyInv'
<1>1. /\ church.status = Absent /\ deks' = deks + 1 /\ seals' = seals + 1
      /\ cache' = [cache EXCEPT ![p] = cache[p]]
      /\ UNCHANGED <<files, documents, uploads, master, deployed, copy, confirmed>>
  BY DEF provision_church, override_key, Key, Remember, volume, platform
<1>2. Types /\ NothingYet
  BY DEF CustodyInv
<1>3. cache' = cache /\ deks' \in Nat /\ seals' \in Nat
  BY <1>1, <1>2 DEF Types
<1>4. KeysInUse = {} /\ \A q \in Process : cache[q] = Empty /\ copy[q].on = "nothing"
  BY <1>1, <1>2 DEF NothingYet
<1>5. CASE ~commits
  <2>1. UNCHANGED <<church, sealed, escrow>>
    BY <1>5 DEF provision_church
  <2>2. Types' /\ NothingYet'
    BY <1>1, <1>2, <1>3, <1>4, <2>1 DEF Types, NothingYet, KeysInUse
  <2>3. OneKey'
    BY <1>1, <2>1, CustodyAssumption DEF OneKey, CustodyAssumption
  <2>4. QED
    BY <2>2, <2>3 DEF CustodyInv
<1>6. CASE commits
  <2>1. /\ church' = [status |-> Church, wrapped |-> Wrap(p, deks'), fingerprint |-> deks',
                      mode |-> mode, backup |-> FALSE]
        /\ sealed' = {deks'}
        /\ escrow' = escrow \cup {deks'}
    BY <1>6 DEF provision_church, override_key, Key
  <2>2. Wrap(p, deks') \in Wrapped /\ Wrap(p, deks').dek = deks'
    BY <1>2, <1>3 DEF Wrap, Wrapped, Types
  <2>3. mode \in Mode
    BY CustodyAssumption DEF CustodyAssumption, Mode
  <2>4. church' \in Rows
    BY <1>3, <2>1, <2>2, <2>3 DEF Rows
  <2>5. Types'
    BY <1>1, <1>2, <1>3, <2>4 DEF Types
  <2>6. NothingYet'
    BY <2>1, CustodyAssumption DEF NothingYet, CustodyAssumption
  <2>7. files = {}
    BY <1>4 DEF KeysInUse
  <2>8. KeysInUse' \subseteq {church'.fingerprint}
    BY <1>1, <2>1, <2>7 DEF KeysInUse
  <2>9. OneKey'
    BY <1>1, <1>3, <1>4, <2>1, <2>2, <2>8 DEF OneKey, CacheHolds
  <2>10. QED
    BY <2>5, <2>6, <2>9 DEF CustodyInv
<1>7. QED
  BY <1>5, <1>6

-----------------------------------------------------------------------------
(* Every other step leaves the church provisioned and its key the same.    *)
(* What a step has to show is collected here.                              *)

SameChurch ==
  /\ church.status = Church
  /\ church' \in Rows /\ Wraps(church, church.fingerprint)' /\ church'.fingerprint = church.fingerprint
  /\ escrow \subseteq escrow'
  /\ KeysInUse' \subseteq KeysInUse \cup {church.fingerprint}

LEMMA SameChurchKeeps ==
  ASSUME CustodyInv, Types', SameChurch,
         \A q \in Process : CacheHolds(cache'[q], church.fingerprint),
         \A q \in Process : copy'[q].on # "nothing" => Wraps(copy'[q].row, church.fingerprint)
  PROVE  CustodyInv'
<1>1. church'.status = Church /\ church'.status # Absent
  BY CustodyAssumption DEF SameChurch, Wraps, CustodyAssumption
<1>2. NothingYet'
  BY <1>1 DEF NothingYet
<1>3. OneKey'
  BY DEF CustodyInv, OneKey, SameChurch, Wraps
<1>4. QED
  BY <1>2, <1>3 DEF CustodyInv

(* Whatever a process does with the key it finds, caches stay right.       *)
LEMMA RememberKeeps ==
  ASSUME Types, OneKey, church.status = Church,
         NEW p \in Process, NEW key, key.entry \in CacheEntries,
         CacheHolds(key.entry, church.fingerprint), Remember(p, key)
  PROVE  /\ cache' \in [Process -> CacheEntries]
         /\ \A q \in Process : CacheHolds(cache'[q], church.fingerprint)
<1>1. cache' = [cache EXCEPT ![p] = key.entry]
  BY DEF Remember
<1>2. cache \in [Process -> CacheEntries]
  BY DEF Types
<1>3. \A q \in Process : cache'[q] = IF q = p THEN key.entry ELSE cache[q]
  BY <1>1, <1>2
<1>4. QED
  BY <1>1, <1>2, <1>3 DEF OneKey

(* A process that puts its work down leaves the others' alone.             *)
LEMMA PutDownKeeps ==
  ASSUME Types, OneKey, church.status = Church, NEW p \in Process,
         copy' = [copy EXCEPT ![p] = NotWorking]
  PROVE  /\ copy' \in [Process -> Work]
         /\ \A q \in Process : copy'[q].on # "nothing" => Wraps(copy'[q].row, church.fingerprint)
<1>1. NotWorking \in Work /\ NotWorking.on = "nothing"
  BY DEF NotWorking, NoRow, Rows, Wrapped, Mode, Work
<1>2. copy \in [Process -> Work]
  BY DEF Types
<1>3. \A q \in Process : copy'[q] = IF q = p THEN NotWorking ELSE copy[q]
  BY <1>2
<1>4. QED
  BY <1>1, <1>2, <1>3 DEF OneKey

(* Taking up work on a row with the church's key does so too.              *)
LEMMA TakeUpKeeps ==
  ASSUME Types, OneKey, church.status = Church, NEW p \in Process, NEW work \in Work,
         Wraps(work.row, church.fingerprint), copy' = [copy EXCEPT ![p] = work]
  PROVE  /\ copy' \in [Process -> Work]
         /\ \A q \in Process : copy'[q].on # "nothing" => Wraps(copy'[q].row, church.fingerprint)
<1>1. copy \in [Process -> Work]
  BY DEF Types
<1>2. \A q \in Process : copy'[q] = IF q = p THEN work ELSE copy[q]
  BY <1>1
<1>3. QED
  BY <1>1, <1>2 DEF OneKey

(* A process with work in hand works for a church that exists, on a row    *)
(* with its key.                                                           *)
LEMMA WorkIsForTheChurch ==
  ASSUME CustodyInv, NEW p \in Process, copy[p].on # "nothing"
  PROVE  /\ church.status = Church
         /\ copy[p].row \in Rows /\ Wraps(copy[p].row, church.fingerprint)
         /\ copy[p].row.wrapped \in Wrapped
         /\ copy[p].row.wrapped.dek = church.fingerprint
<1>1. church.status \in {Church, Absent} /\ copy[p].row \in Rows
  BY DEF CustodyInv, Types, Rows, Work
<1>2. church.status = Church
  BY <1>1 DEF CustodyInv, NothingYet
<1>3. QED
  BY <1>1, <1>2 DEF CustodyInv, OneKey, Wraps, Rows

-----------------------------------------------------------------------------
(* The operator's steps.                                                   *)

LEMMA SettingsKeeps ==
  ASSUME CustodyInv, NEW p \in Process,
         (\E m \in Chosen : church_settings(p, m)) \/ set_document_mode(p)
  PROVE  CustodyInv'
<1>1. /\ copy[p].on # "nothing"
      /\ UNCHANGED <<deks, seals, escrow, sealed, files, uploads, master, deployed, cache>>
  BY DEF church_settings, set_document_mode, registry, volume, platform
<1>2. /\ church.status = Church
      /\ copy[p].row \in Rows /\ Wraps(copy[p].row, church.fingerprint)
  BY <1>1, WorkIsForTheChurch
<1>3. Types /\ OneKey /\ church \in Rows /\ church.wrapped.dek = church.fingerprint
  BY <1>2 DEF CustodyInv, Types, OneKey
<1>4. /\ church' \in Rows /\ Wraps(church, church.fingerprint)'
      /\ church'.fingerprint = church.fingerprint
      /\ copy' \in [Process -> Work]
      /\ \A q \in Process : copy'[q].on # "nothing" => Wraps(copy'[q].row, church.fingerprint)
  <2>1. CASE \E m \in Chosen : church_settings(p, m)
    <3>0. PICK m \in Chosen : church_settings(p, m)
      BY <2>1
    <3> DEFINE work == [on |-> "mode", row |-> [church' EXCEPT !.mode = m], file |-> 0]
    <3>1. /\ church' = copy[p].row
          /\ copy' = [copy EXCEPT ![p] = IF m = church'.mode THEN NotWorking ELSE work]
      BY <3>0 DEF church_settings
    <3>2. church' \in Rows /\ Wraps(church', church.fingerprint) /\ Wraps(church, church.fingerprint)'
      BY <1>2, <3>1 DEF Wraps
    <3>3. m \in Mode
      BY CustodyAssumption DEF CustodyAssumption, Mode
    <3>4. work \in Work /\ Wraps(work.row, church.fingerprint)
      BY <3>2, <3>3 DEF Work, Rows, Wraps
    <3> HIDE DEF work
    <3>5. CASE m = church'.mode
      BY <1>2, <1>3, <3>1, <3>2, <3>5, PutDownKeeps DEF Wraps
    <3>6. CASE m # church'.mode
      BY <1>2, <1>3, <3>1, <3>2, <3>4, <3>6, TakeUpKeeps DEF Wraps
    <3>7. QED
      BY <3>5, <3>6
  <2>2. CASE set_document_mode(p)
    <3> DEFINE work == [copy[p] EXCEPT !.on = "entry"]
    <3>1. /\ church' = [church EXCEPT !.mode = copy[p].row.mode]
          /\ copy' = [copy EXCEPT ![p] = work]
      BY <2>2 DEF set_document_mode
    <3>2. work \in Work /\ work.row = copy[p].row
      BY <1>3 DEF Types, Work
    <3>3. church' \in Rows /\ Wraps(church, church.fingerprint)' /\ church'.fingerprint = church.fingerprint
      BY <1>2, <1>3, <3>1 DEF Rows, Wraps
    <3> HIDE DEF work
    <3>4. QED
      BY <1>2, <1>3, <3>1, <3>2, <3>3, TakeUpKeeps
  <2>3. QED
    BY <2>1, <2>2
<1>5. Types'
  BY <1>1, <1>3, <1>4 DEF Types
<1>6. SameChurch
  BY <1>1, <1>2, <1>3, <1>4 DEF SameChurch, KeysInUse
<1>7. \A q \in Process : CacheHolds(cache'[q], church.fingerprint)
  BY <1>1, <1>2, <1>3 DEF OneKey
<1>8. QED
  BY <1>4, <1>5, <1>6, <1>7, SameChurchKeeps

LEMMA RestoreKeeps ==
  ASSUME CustodyInv, NEW p \in Process, church_restore_key(p)
  PROVE  CustodyInv'
<1>1. PICK dek \in 1..MaxDeks : rotate_key_from_escrow(p, dek)
  BY DEF church_restore_key
<1>2. /\ church.status = Church /\ dek = church.fingerprint
      /\ church' = [church EXCEPT !.wrapped = Wrap(p, dek), !.fingerprint = dek]
      /\ seals' = seals + 1
      /\ cache' = [cache EXCEPT ![p] = Empty]
      /\ UNCHANGED <<deks, sealed, files, uploads, master, deployed, copy, escrow>>
  BY <1>1 DEF rotate_key_from_escrow, fingerprint_matches, volume, platform
<1>3. Types /\ OneKey
  BY DEF CustodyInv
<1>4. Wrap(p, dek) \in Wrapped /\ Wrap(p, dek).dek = dek
  BY <1>2, <1>3 DEF Wrap, Wrapped, Types, Rows
<1>5. church' \in Rows /\ Wraps(church, church.fingerprint)' /\ church'.fingerprint = church.fingerprint
  BY <1>2, <1>3, <1>4 DEF Types, Rows, Wraps
<1>6. /\ cache' \in [Process -> CacheEntries]
      /\ \A q \in Process : CacheHolds(cache'[q], church.fingerprint)
  BY <1>2, <1>3 DEF Types, OneKey, CacheEntries, CacheHolds
<1>7. Types'
  BY <1>2, <1>3, <1>5, <1>6 DEF Types
<1>8. SameChurch
  BY <1>2, <1>5 DEF SameChurch, KeysInUse
<1>9. \A q \in Process : copy'[q].on # "nothing" => Wraps(copy'[q].row, church.fingerprint)
  BY <1>2, <1>3 DEF OneKey
<1>10. QED
  BY <1>6, <1>7, <1>8, <1>9, SameChurchKeeps

(* The platform turns before there is a church as well as after.           *)
LEMMA PlatformKeeps ==
  ASSUME CustodyInv, rotate_master_key \/ \E p \in Process : restart(p)
  PROVE  CustodyInv'
<1>1. Types /\ NothingYet /\ OneKey
  BY DEF CustodyInv
<1>2. UNCHANGED <<church, deks, seals, escrow, sealed, files, uploads>>
  BY DEF rotate_master_key, restart, registry, volume
<1>3. CASE rotate_master_key
  <2>1. UNCHANGED <<master, cache, copy>> /\ deployed' = deployed + 1
    BY <1>3 DEF rotate_master_key
  <2>2. Types'
    BY <1>1, <1>2, <2>1 DEF Types
  <2>3. NothingYet'
    BY <1>1, <1>2, <2>1 DEF NothingYet, KeysInUse
  <2>4. OneKey'
    BY <1>1, <1>2, <2>1 DEF OneKey, KeysInUse, Wraps
  <2>5. QED
    BY <2>2, <2>3, <2>4 DEF CustodyInv
<1>4. ASSUME NEW p \in Process, restart(p) PROVE CustodyInv'
  <2>1. /\ master' = [master EXCEPT ![p] = deployed]
        /\ cache' = [cache EXCEPT ![p] = Empty]
        /\ copy' = [copy EXCEPT ![p] = NotWorking]
        /\ deployed' = deployed
    BY <1>4 DEF restart
  <2>2. NotWorking \in Work /\ NotWorking.on = "nothing"
    BY DEF NotWorking, NoRow, Rows, Wrapped, Mode, Work
  <2>3. Types'
    BY <1>1, <1>2, <2>1, <2>2 DEF Types, CacheEntries
  <2>4. \A q \in Process : /\ cache'[q] \in {cache[q], Empty}
                           /\ copy'[q] = copy[q] \/ copy'[q].on = "nothing"
    BY <1>1, <2>1, <2>2 DEF Types
  <2>5. NothingYet'
    BY <1>1, <1>2, <2>4 DEF NothingYet, KeysInUse
  <2>6. OneKey'
    BY <1>1, <1>2, <2>4 DEF OneKey, KeysInUse, Wraps, CacheHolds
  <2>7. QED
    BY <2>3, <2>5, <2>6 DEF CustodyInv
<1>5. QED
  BY <1>3, <1>4

-----------------------------------------------------------------------------
(* The church's steps.                                                     *)

LEMMA DownloadKeeps ==
  ASSUME CustodyInv, NEW p \in Process, key_backup_download(p)
  PROVE  CustodyInv'
<1> DEFINE key == KeyOfRow(p, church.wrapped)
<1>1. /\ church.status = Church /\ Unwrap(p, church.wrapped).dek # 0
      /\ escrow \subseteq escrow'
      /\ sealed' = sealed \cup {key.dek} /\ Remember(p, key)
      /\ UNCHANGED <<church, deks, seals, files, uploads, master, deployed, copy>>
  BY DEF key_backup_download, volume, platform
<1>2. Types /\ OneKey
  BY DEF CustodyInv
<1>3. church.wrapped \in Wrapped /\ church.wrapped.dek = church.fingerprint
  BY <1>1, <1>2 DEF Types, Rows, OneKey
<1>4. /\ key.dek \in {0, church.fingerprint}
      /\ key.entry \in CacheEntries
      /\ CacheHolds(key.entry, church.fingerprint)
  BY <1>1, <1>2, <1>3, KeyIsTheChurchs
<1>5. key.dek = church.fingerprint
  BY <1>1, <1>2, <1>3, KeyIsTheChurchs
     DEF KeyOfRow, Unwrap, Key, OneKey, CacheHolds
<1> HIDE DEF key
<1>6. /\ cache' \in [Process -> CacheEntries]
      /\ \A q \in Process : CacheHolds(cache'[q], church.fingerprint)
  BY <1>1, <1>2, <1>4, RememberKeeps
<1>7. Types'
  BY <1>1, <1>2, <1>6 DEF Types
<1>8. SameChurch
  BY <1>1, <1>2, <1>3, <1>5 DEF SameChurch, Types, Wraps, KeysInUse
<1>9. \A q \in Process : copy'[q].on # "nothing" => Wraps(copy'[q].row, church.fingerprint)
  BY <1>1, <1>2 DEF OneKey
<1>10. QED
  BY <1>6, <1>7, <1>8, <1>9, SameChurchKeeps

LEMMA BackupKeeps ==
  ASSUME CustodyInv, NEW p \in Process, key_backup(p)
  PROVE  CustodyInv'
<1> DEFINE work == [on |-> "confirming", row |-> church, file |-> 0]
<1>1. /\ church.status = Church
      /\ church' = [church EXCEPT !.backup = TRUE]
      /\ escrow \subseteq escrow'
      /\ copy' = [copy EXCEPT ![p] = work]
      /\ UNCHANGED <<deks, seals, sealed, files, uploads, master, deployed, cache>>
  BY DEF key_backup, volume, platform
<1>2. Types /\ OneKey
  BY DEF CustodyInv
<1>3. work \in Work /\ Wraps(work.row, church.fingerprint)
  BY <1>1, <1>2 DEF Types, Work, OneKey, Wraps
<1> HIDE DEF work
<1>4. /\ copy' \in [Process -> Work]
      /\ \A q \in Process : copy'[q].on # "nothing" => Wraps(copy'[q].row, church.fingerprint)
  BY <1>1, <1>2, <1>3, TakeUpKeeps
<1>5. church' \in Rows /\ Wraps(church, church.fingerprint)' /\ church'.fingerprint = church.fingerprint
  BY <1>1, <1>2 DEF Types, Rows, OneKey, Wraps
<1>6. Types'
  BY <1>1, <1>2, <1>4, <1>5 DEF Types
<1>7. SameChurch
  BY <1>1, <1>5 DEF SameChurch, KeysInUse
<1>8. \A q \in Process : CacheHolds(cache'[q], church.fingerprint)
  BY <1>1, <1>2 DEF OneKey
<1>9. QED
  BY <1>4, <1>6, <1>7, <1>8, SameChurchKeeps

LEMMA LoadKeeps ==
  ASSUME CustodyInv, NEW p \in Process, NEW what \in {"settings", "job", "upload"}, Load(p, what)
  PROVE  CustodyInv'
<1>1. /\ church.status = Church
      /\ copy' = [copy EXCEPT ![p] = [on |-> what, row |-> church, file |-> 0]]
      /\ UNCHANGED <<church, deks, seals, escrow, sealed, files, uploads, master, deployed, cache>>
  BY DEF Load, registry, volume, platform
<1>2. Types /\ OneKey
  BY DEF CustodyInv
<1>3. [on |-> what, row |-> church, file |-> 0] \in Work /\ Wraps(church, church.fingerprint)
  BY <1>1, <1>2 DEF Types, Work, OneKey, Wraps
<1>4. \A q \in Process : copy'[q] = IF q = p THEN [on |-> what, row |-> church, file |-> 0] ELSE copy[q]
  BY <1>1, <1>2 DEF Types
<1>5. \A q \in Process : copy'[q].on # "nothing" => Wraps(copy'[q].row, church.fingerprint)
  BY <1>1, <1>2, <1>3, <1>4 DEF OneKey
<1>6. Types'
  BY <1>1, <1>2, <1>3 DEF Types
<1>7. SameChurch
  BY <1>1, <1>2, <1>3 DEF SameChurch, Types, Wraps, KeysInUse
<1>8. \A q \in Process : CacheHolds(cache'[q], church.fingerprint)
  BY <1>1, <1>2 DEF OneKey
<1>9. QED
  BY <1>5, <1>6, <1>7, <1>8, SameChurchKeeps

(* A job, a record committed, an audit entry written and work given up all *)
(* end with nothing in hand; all but the last seal under the key they find. *)
LEMMA FinishKeeps ==
  ASSUME CustodyInv, NEW p \in Process,
         \/ sweep(p) \/ commit_document(p) \/ key_backup_recorded(p)
         \/ mode_recorded(p) \/ abandon(p)
  PROVE  CustodyInv'
<1>1. /\ copy[p].on # "nothing"
      /\ copy' = [copy EXCEPT ![p] = NotWorking]
      /\ UNCHANGED <<church, deks, seals, escrow, files, uploads, master, deployed>>
  BY DEF sweep, commit_document, key_backup_recorded, mode_recorded, abandon, Idle,
     registry, volume, platform
<1>2. /\ church.status = Church
      /\ copy[p].row.wrapped \in Wrapped
      /\ copy[p].row.wrapped.dek = church.fingerprint
  BY <1>1, WorkIsForTheChurch
<1>3. Types /\ OneKey
  BY DEF CustodyInv
<1>4. /\ copy' \in [Process -> Work]
      /\ \A q \in Process : copy'[q].on # "nothing" => Wraps(copy'[q].row, church.fingerprint)
  BY <1>1, <1>2, <1>3, PutDownKeeps
<1>5. /\ cache' \in [Process -> CacheEntries]
      /\ \A q \in Process : CacheHolds(cache'[q], church.fingerprint)
      /\ sealed' \subseteq sealed \cup {church.fingerprint}
  <2>1. CASE abandon(p)
    <3>1. cache' = cache /\ sealed' = sealed
      BY <2>1 DEF abandon
    <3>2. QED
      BY <1>2, <1>3, <3>1 DEF Types, OneKey
  <2>2. CASE ~abandon(p)
    <3> DEFINE key == IF mode_recorded(p) THEN KeyOfSchema(p, church.wrapped)
                      ELSE KeyOfRow(p, copy[p].row.wrapped)
    <3>0. church.wrapped \in Wrapped /\ church.wrapped.dek = church.fingerprint
      BY <1>2, <1>3 DEF Types, Rows, OneKey
    <3>1. /\ sealed' = sealed \/ (key.dek # 0 /\ sealed' = sealed \cup {key.dek})
          /\ Remember(p, key)
      BY <2>2 DEF sweep, commit_document, key_backup_recorded, mode_recorded
    <3>2. /\ key.dek \in {0, church.fingerprint}
          /\ key.entry \in CacheEntries
          /\ CacheHolds(key.entry, church.fingerprint)
      BY <1>2, <1>3, <3>0, KeyIsTheChurchs
    <3> HIDE DEF key
    <3>3. /\ cache' \in [Process -> CacheEntries]
          /\ \A q \in Process : CacheHolds(cache'[q], church.fingerprint)
      BY <1>2, <1>3, <3>1, <3>2, RememberKeeps
    <3>4. QED
      BY <3>1, <3>2, <3>3
  <2>3. QED
    BY <2>1, <2>2
<1>6. Types'
  BY <1>1, <1>3, <1>4, <1>5 DEF Types
<1>7. SameChurch
  BY <1>1, <1>2, <1>3, <1>5 DEF SameChurch, Types, OneKey, Wraps, KeysInUse
<1>8. QED
  BY <1>4, <1>5, <1>6, <1>7, SameChurchKeeps

LEMMA UploadKeeps ==
  ASSUME CustodyInv, NEW p \in Process, store_document(p)
  PROVE  CustodyInv'
<1> DEFINE key == KeyOfRow(p, copy[p].row.wrapped)
           stored == IF copy[p].row.mode = "store" THEN uploads + 1 ELSE 0
<1>1. /\ copy[p].on # "nothing"
      /\ uploads' = uploads + 1
      /\ copy[p].row.mode = "store" => key.dek # 0
      /\ Remember(p, key)
      /\ files' = IF copy[p].row.mode = "store"
                  THEN files \cup {[upload |-> uploads + 1, dek |-> key.dek]} ELSE files
      /\ copy' = [copy EXCEPT ![p].on = "saving", ![p].file = stored]
      /\ UNCHANGED <<church, deks, seals, escrow, sealed, master, deployed>>
  BY DEF store_document, SealFile, registry, platform
<1>2. /\ church.status = Church
      /\ copy[p].row \in Rows /\ Wraps(copy[p].row, church.fingerprint)
      /\ copy[p].row.wrapped \in Wrapped
      /\ copy[p].row.wrapped.dek = church.fingerprint
  BY <1>1, WorkIsForTheChurch
<1>3. Types /\ OneKey
  BY DEF CustodyInv
<1>4. /\ key.dek \in {0, church.fingerprint}
      /\ key.entry \in CacheEntries
      /\ CacheHolds(key.entry, church.fingerprint)
  BY <1>2, <1>3, KeyIsTheChurchs
<1>5. stored \in Nat /\ uploads' \in Nat
  BY <1>1, <1>3 DEF Types
<1> HIDE DEF key, stored
<1>6. /\ cache' \in [Process -> CacheEntries]
      /\ \A q \in Process : CacheHolds(cache'[q], church.fingerprint)
  BY <1>1, <1>2, <1>3, <1>4, RememberKeeps
<1>7. copy' \in [Process -> Work]
  BY <1>1, <1>3, <1>5 DEF Types, Work
<1>8. \A q \in Process : copy'[q].row = copy[q].row /\ (q # p => copy'[q] = copy[q])
  BY <1>1, <1>3 DEF Types, Work
<1>9. \A q \in Process : copy'[q].on # "nothing" => Wraps(copy'[q].row, church.fingerprint)
  BY <1>2, <1>3, <1>8 DEF OneKey
<1>10. Types'
  BY <1>1, <1>3, <1>5, <1>6, <1>7 DEF Types
<1>11. KeysInUse' \subseteq KeysInUse \cup {church.fingerprint}
  BY <1>1, <1>4 DEF KeysInUse
<1>12. SameChurch
  BY <1>1, <1>2, <1>3, <1>11 DEF SameChurch, Types, OneKey, Wraps
<1>13. QED
  BY <1>6, <1>9, <1>10, <1>12, SameChurchKeeps

-----------------------------------------------------------------------------

LEMMA CustodyNext == CustodyInv /\ [CNext]_cvars => CustodyInv'
<1>1. SUFFICES ASSUME CustodyInv, [CNext]_cvars PROVE CustodyInv'
  OBVIOUS
<1>2. CASE UNCHANGED cvars
  <2>1. Types'
    BY <1>1, <1>2 DEF CustodyInv, Types, cvars
  <2>2. NothingYet' /\ OneKey'
    BY <1>1, <1>2 DEF CustodyInv, NothingYet, OneKey, KeysInUse, cvars
  <2>3. QED
    BY <2>1, <2>2 DEF CustodyInv
<1>3. CASE rotate_master_key
  BY <1>1, <1>3, PlatformKeeps
<1>4. ASSUME NEW p \in Process,
             \/ \E m \in Chosen, c \in BOOLEAN : provision_church(p, m, c)
             \/ Load(p, "settings") \/ \E m \in Chosen : church_settings(p, m)
             \/ set_document_mode(p) \/ mode_recorded(p)
             \/ church_restore_key(p) \/ restart(p)
             \/ key_backup_download(p) \/ key_backup(p) \/ key_backup_recorded(p)
             \/ Load(p, "job") \/ sweep(p)
             \/ Load(p, "upload")
             \/ store_document(p) \/ commit_document(p) \/ abandon(p)
      PROVE  CustodyInv'
  <2>1. CASE \E m \in Chosen, c \in BOOLEAN : provision_church(p, m, c)
    BY <1>1, <2>1, ProvisionKeeps
  <2>2. CASE Load(p, "settings") \/ Load(p, "job") \/ Load(p, "upload")
    BY <1>1, <2>2, LoadKeeps
  <2>3. CASE (\E m \in Chosen : church_settings(p, m)) \/ set_document_mode(p)
    BY <1>1, <2>3, SettingsKeeps
  <2>4. CASE church_restore_key(p)
    BY <1>1, <2>4, RestoreKeeps
  <2>5. CASE restart(p)
    BY <1>1, <2>5, PlatformKeeps
  <2>6. CASE key_backup_download(p) \/ key_backup(p)
    BY <1>1, <2>6, DownloadKeeps, BackupKeeps
  <2>7. CASE \/ sweep(p) \/ commit_document(p) \/ key_backup_recorded(p)
             \/ mode_recorded(p) \/ abandon(p)
    BY <1>1, <2>7, FinishKeeps
  <2>8. CASE store_document(p)
    BY <1>1, <2>8, UploadKeeps
  <2>9. QED
    BY <1>4, <2>1, <2>2, <2>3, <2>4, <2>5, <2>6, <2>7, <2>8
<1>5. QED
  BY <1>1, <1>2, <1>3, <1>4 DEF CNext

(* For any number of processes, caches, rotations and restarts, nothing is *)
(* ever sealed for a church under a key other than its own (get_current_key *)
(* prefers a loud failure).                                                *)
THEOREM OneKeyPerChurchAlways == CSpec => []OneKeyPerChurch
<1>1. CustodyInv => OneKeyPerChurch
  <2>1. SUFFICES ASSUME CustodyInv PROVE OneKeyPerChurch
    OBVIOUS
  <2>2. church.status \in {Church, Absent}
    BY <2>1 DEF CustodyInv, Types, Rows
  <2>3. QED
    BY <2>1, <2>2 DEF CustodyInv, NothingYet, OneKey, OneKeyPerChurch
<1>2. QED
  BY <1>1, CustodyInit, CustodyNext, PTL DEF CSpec

(* The registry row always wraps the key the church's data is under, and   *)
(* somebody outside the system holds it too: whatever happens to the       *)
(* master key, rotate_key_from_escrow can bring it back.                   *)
THEOREM KeyIsRecoverableAlways == CSpec => []KeyIsRecoverable
<1>1. CustodyInv => KeyIsRecoverable
  BY DEF CustodyInv, OneKey, KeyIsRecoverable
<1>2. QED
  BY <1>1, CustodyInit, CustodyNext, PTL DEF CSpec

-----------------------------------------------------------------------------
(* Documents: the file is there before the row, and the backup before both. *)

Filed(volumes, mode, file) ==
  IF mode = "store" THEN \E f \in volumes : f.upload = file ELSE file = 0

\* Somebody at the church has confirmed a copy of its key.
Backed == church.fingerprint \in confirmed

DocumentsInv ==
  /\ documents \in Seq([mode : Mode, file : Nat])
  /\ EveryRecordHasItsFile
  /\ BackupComesFirst
  /\ church.backup => Backed
  /\ \A p \in Process :
       /\ copy[p].on # "nothing" /\ copy[p].row.backup => Backed
       /\ copy[p].on \in {"upload", "saving"} => Backed
       /\ copy[p].on = "saving" => Filed(files, copy[p].row.mode, copy[p].file)

LEMMA DocumentsInit == CInit => DocumentsInv
  BY DEF CInit, DocumentsInv, EveryRecordHasItsFile, BackupComesFirst, NotWorking, NoRow

\* Steps that file nothing and put no document in anybody's hands.
LEMMA PaperStands ==
  ASSUME Types, DocumentsInv, UNCHANGED <<documents, files>>,
         confirmed \subseteq confirmed', Backed => Backed', church'.backup => Backed',
         NEW p \in Process, NEW work, copy' = copy \/ copy' = [copy EXCEPT ![p] = work],
         work.on # "nothing" /\ work.row.backup => Backed',
         work.on = "upload" => Backed', work.on # "saving"
  PROVE  DocumentsInv'
<1>1. \A q \in Process : copy'[q] = copy[q] \/ copy'[q] = work
  BY DEF Types
<1>2. EveryRecordHasItsFile' /\ BackupComesFirst'
  BY DEF DocumentsInv, EveryRecordHasItsFile, BackupComesFirst
<1>3. ASSUME NEW q \in Process
      PROVE  /\ copy'[q].on # "nothing" /\ copy'[q].row.backup => Backed'
             /\ copy'[q].on \in {"upload", "saving"} => Backed'
             /\ copy'[q].on = "saving" => Filed(files', copy'[q].row.mode, copy'[q].file)
  <2>1. CASE copy'[q] = copy[q]
    BY <2>1 DEF DocumentsInv
  <2>2. CASE copy'[q] = work
    BY <2>2
  <2>3. QED
    BY <1>1, <2>1, <2>2
<1>4. QED
  BY <1>2, <1>3 DEF DocumentsInv

LEMMA NotWorkingIs ==
  NotWorking.on = "nothing" /\ NotWorking.row.backup = FALSE
  BY DEF NotWorking, NoRow

LEMMA UploadFiles ==
  ASSUME CustodyInv, DocumentsInv, NEW p \in Process, store_document(p)
  PROVE  DocumentsInv'
<1> DEFINE key == KeyOfRow(p, copy[p].row.wrapped)
           stored == IF copy[p].row.mode = "store" THEN uploads + 1 ELSE 0
<1>1. /\ copy[p].on = "upload"
      /\ copy[p].row.mode = "store" => key.dek # 0
      /\ files' = IF copy[p].row.mode = "store"
                  THEN files \cup {[upload |-> uploads + 1, dek |-> key.dek]} ELSE files
      /\ copy' = [copy EXCEPT ![p].on = "saving", ![p].file = stored]
      /\ UNCHANGED <<church, documents, confirmed>>
  BY DEF store_document, SealFile, registry
<1>2. Types /\ OneKey
  BY DEF CustodyInv
<1>3. key.dek \in {0, church.fingerprint} /\ Backed
  BY <1>2, <1>1, WorkIsForTheChurch, KeyIsTheChurchs DEF DocumentsInv
<1> HIDE DEF key
<1>4. files \subseteq files' /\ Filed(files', copy[p].row.mode, stored)
  <2>1. CASE copy[p].row.mode = "store"
    <3> DEFINE sealing == [upload |-> uploads + 1, dek |-> key.dek]
    <3>1. files' = files \cup {sealing} /\ stored = uploads + 1 /\ sealing.upload = uploads + 1
      BY <1>1, <2>1
    <3> HIDE DEF sealing, stored
    <3>2. QED
      BY <2>1, <3>1 DEF Filed
  <2>2. CASE copy[p].row.mode # "store"
    BY <1>1, <2>2 DEF Filed
  <2>3. QED
    BY <2>1, <2>2
<1> HIDE DEF stored
<1>5. /\ copy'[p].on = "saving" /\ copy'[p].row = copy[p].row /\ copy'[p].file = stored
      /\ \A q \in Process \ {p} : copy'[q] = copy[q]
  BY <1>2, <1>1 DEF Types, Work
<1>6. EveryRecordHasItsFile'
  BY <1>1, <1>4 DEF DocumentsInv, EveryRecordHasItsFile
<1>7. \A q \in Process : copy'[q].on = "saving" => Filed(files', copy'[q].row.mode, copy'[q].file)
  BY <1>4, <1>5 DEF DocumentsInv, Filed
<1>8. BackupComesFirst'
  BY <1>1, <1>3 DEF DocumentsInv, BackupComesFirst, Backed
<1>9. QED
  BY <1>1, <1>5, <1>6, <1>7, <1>3, <1>8 DEF DocumentsInv, Backed

LEMMA CommitFiles ==
  ASSUME Types, DocumentsInv, NEW p \in Process, commit_document(p)
  PROVE  DocumentsInv'
<1>1. /\ copy[p].on = "saving" /\ documents' = Append(documents, Row(p, copy[p].file))
      /\ copy' = [copy EXCEPT ![p] = NotWorking]
      /\ UNCHANGED <<church, files, confirmed>>
  BY DEF commit_document, registry
<1>2. Row(p, copy[p].file) \in [mode : Mode, file : Nat]
  BY DEF Types, Work, Rows, Row
<1>3. /\ documents' \in Seq([mode : Mode, file : Nat])
      /\ \A n \in DOMAIN documents' :
            \/ n \in DOMAIN documents /\ documents'[n] = documents[n]
            \/ documents'[n] = Row(p, copy[p].file)
  BY <1>1, <1>2 DEF DocumentsInv
<1>4. Filed(files, copy[p].row.mode, copy[p].file) /\ Backed
  BY <1>1 DEF DocumentsInv
<1>5. EveryRecordHasItsFile'
  BY <1>1, <1>3, <1>4 DEF DocumentsInv, EveryRecordHasItsFile, Row, Filed
<1>6. \A q \in Process : copy'[q] = NotWorking \/ copy'[q] = copy[q]
  BY <1>1 DEF Types
<1>7. QED
  BY <1>1, <1>3, <1>4, <1>5, <1>6, NotWorkingIs
  DEF DocumentsInv, BackupComesFirst, Backed

LEMMA DocumentsNext == CustodyInv /\ DocumentsInv /\ [CNext]_cvars => DocumentsInv'
<1>1. SUFFICES ASSUME CustodyInv, DocumentsInv, [CNext]_cvars PROVE DocumentsInv'
  OBVIOUS
<1>2. Types
  BY <1>1 DEF CustodyInv
<1>3. ASSUME UNCHANGED <<church, files, documents, confirmed, copy>> PROVE DocumentsInv'
  BY <1>1, <1>3 DEF DocumentsInv, EveryRecordHasItsFile, BackupComesFirst, Backed
<1>4. ASSUME NEW p \in Process, copy' = [copy EXCEPT ![p] = NotWorking],
             UNCHANGED <<church, files, documents, confirmed>>
      PROVE  DocumentsInv'
  BY <1>1, <1>2, <1>4, NotWorkingIs, PaperStands DEF DocumentsInv, Backed
<1>5. ASSUME NEW p \in Process, NEW m \in Chosen, NEW c \in BOOLEAN, provision_church(p, m, c)
      PROVE  DocumentsInv'
  <2>1. /\ UNCHANGED <<files, documents, copy, confirmed>>
        /\ church' = church \/ church'.backup = FALSE
        /\ church.status = Absent
    BY <1>5 DEF provision_church, volume
  <2>2. \A q \in Process : copy'[q].on = "nothing"
    BY <1>1, <2>1 DEF CustodyInv, NothingYet
  <2>3. QED
    BY <1>1, <2>1, <2>2 DEF DocumentsInv, EveryRecordHasItsFile, BackupComesFirst, Backed
<1>6. ASSUME NEW p \in Process, NEW what \in {"settings", "job", "upload"}, Load(p, what),
             what = "upload" => church.backup
      PROVE  DocumentsInv'
  <2> DEFINE work == [on |-> what, row |-> church, file |-> 0]
  <2>1. /\ copy' = [copy EXCEPT ![p] = work]
        /\ UNCHANGED <<church, files, documents, confirmed>>
    BY <1>6 DEF Load, registry, volume
  <2>2. (church.backup => Backed) /\ Backed' = Backed
    BY <1>1, <2>1 DEF DocumentsInv, Backed
  <2>3. work.row = church /\ work.on = what /\ what # "saving"
    OBVIOUS
  <2> HIDE DEF work
  <2>4. QED
    BY <1>1, <1>2, <1>6, <2>1, <2>2, <2>3, PaperStands
<1>7. ASSUME NEW p \in Process,
             (\E m \in Chosen : church_settings(p, m)) \/ set_document_mode(p)
      PROVE  DocumentsInv'
  <2>1. /\ church.status = Church /\ copy[p].on # "nothing"
        /\ copy[p].row \in Rows /\ copy[p].row.fingerprint = church.fingerprint
    BY <1>1, <1>7, WorkIsForTheChurch DEF church_settings, set_document_mode, Wraps
  <2>2. UNCHANGED <<files, documents, confirmed>>
    BY <1>7 DEF church_settings, set_document_mode, registry, volume
  <2>3. PICK work :
          /\ church'.fingerprint = church.fingerprint
          /\ church'.backup \in {church.backup, copy[p].row.backup}
          /\ copy' = [copy EXCEPT ![p] = work]
          /\ work.on \in {"nothing", "mode", "entry"}
          /\ work.on # "nothing" => work.row.backup = copy[p].row.backup
    <3>1. ASSUME NEW m \in Chosen, church_settings(p, m)
          PROVE  church' = copy[p].row
                 /\ \/ copy' = [copy EXCEPT ![p] = NotWorking]
                    \/ copy' = [copy EXCEPT ![p] =
                         [on |-> "mode", row |-> [church' EXCEPT !.mode = m], file |-> 0]]
      BY <3>1 DEF church_settings
    <3>2. CASE \E m \in Chosen : church_settings(p, m)
      BY <2>1, <3>1, <3>2, NotWorkingIs DEF Rows
    <3>3. CASE set_document_mode(p)
      <4>1. /\ church' = [church EXCEPT !.mode = copy[p].row.mode]
            /\ copy' = [copy EXCEPT ![p] = [copy[p] EXCEPT !.on = "entry"]]
        BY <3>3 DEF set_document_mode
      <4>2. [copy[p] EXCEPT !.on = "entry"].on = "entry"
            /\ [copy[p] EXCEPT !.on = "entry"].row = copy[p].row
        BY <1>2 DEF Types, Work
      <4>3. church'.fingerprint = church.fingerprint /\ church'.backup = church.backup
        BY <1>2, <4>1 DEF Types, Rows
      <4>4. QED
        BY <4>1, <4>2, <4>3
    <3>4. QED
      BY <1>7, <3>2, <3>3
  <2>4. Backed' = Backed /\ (church.backup \/ copy[p].row.backup => Backed)
    BY <1>1, <2>1, <2>2, <2>3 DEF DocumentsInv, Backed
  <2>5. QED
    BY <1>1, <1>2, <2>2, <2>3, <2>4, PaperStands
<1>8. ASSUME NEW p \in Process, church_restore_key(p) PROVE DocumentsInv'
  <2>1. PICK k \in 1..MaxDeks : rotate_key_from_escrow(p, k)
    BY <1>8 DEF church_restore_key
  <2>2. /\ church' = [church EXCEPT !.wrapped = Wrap(p, k), !.fingerprint = k]
        /\ k = church.fingerprint
        /\ UNCHANGED <<files, documents, copy, confirmed>>
    BY <2>1 DEF rotate_key_from_escrow, fingerprint_matches, volume
  <2>3. church'.backup = church.backup /\ church'.fingerprint = church.fingerprint
    BY <1>2, <2>2 DEF Types, Rows
  <2>4. QED
    BY <1>1, <2>2, <2>3 DEF DocumentsInv, EveryRecordHasItsFile, BackupComesFirst, Backed
<1>9. ASSUME NEW p \in Process, key_backup(p) PROVE DocumentsInv'
  <2> DEFINE work == [on |-> "confirming", row |-> church, file |-> 0]
  <2>1. /\ church.status = Church
        /\ Unwrap(p, church.wrapped).dek # 0
        /\ church' = [church EXCEPT !.backup = TRUE]
        /\ confirmed' = confirmed \cup {Unwrap(p, church.wrapped).dek}
        /\ copy' = [copy EXCEPT ![p] = work]
        /\ UNCHANGED <<files, documents>>
    BY <1>9 DEF key_backup, volume
  <2>2. church.wrapped \in Wrapped /\ church.wrapped.dek = church.fingerprint
    BY <1>1, <1>2, <2>1 DEF CustodyInv, Types, Rows, OneKey
  <2>3. Unwrap(p, church.wrapped).dek = church.fingerprint
    BY <2>1, <2>2 DEF Unwrap, Key
  <2>4. Backed'
    BY <1>2, <2>1, <2>3 DEF Types, Rows, Backed
  <2>5. work.on = "confirming"
    OBVIOUS
  <2> HIDE DEF work
  <2>6. QED
    BY <1>1, <1>2, <2>1, <2>4, <2>5, PaperStands
<1>10. ASSUME NEW p \in Process,
              \/ sweep(p) \/ key_backup_recorded(p) \/ mode_recorded(p)
              \/ abandon(p) \/ restart(p)
       PROVE  DocumentsInv'
  <2>1. /\ copy' = [copy EXCEPT ![p] = NotWorking]
        /\ UNCHANGED <<church, files, documents, confirmed>>
    BY <1>10 DEF sweep, key_backup_recorded, mode_recorded, abandon, restart, registry, volume
  <2>2. QED
    BY <1>4, <2>1
<1>11. ASSUME NEW p \in Process, store_document(p) \/ commit_document(p) PROVE DocumentsInv'
  BY <1>1, <1>2, <1>11, UploadFiles, CommitFiles
<1>12. ASSUME \/ rotate_master_key \/ UNCHANGED cvars
              \/ \E p \in Process : key_backup_download(p)
       PROVE  DocumentsInv'
  BY <1>3, <1>12 DEF rotate_master_key, cvars, key_backup_download, registry, volume
<1>13. QED
  BY <1>1, <1>5, <1>6, <1>7, <1>8, <1>9, <1>10, <1>11, <1>12 DEF CNext, GatePasses

(* encrypted_file.save runs before the row commits: wherever an upload     *)
(* dies, a record in store mode has its sealed file.                       *)
THEOREM EveryRecordHasItsFileAlways == CSpec => []EveryRecordHasItsFile
<1>1. DocumentsInv => EveryRecordHasItsFile
  BY DEF DocumentsInv
<1>2. QED
  BY <1>1, CustodyInit, CustodyNext, DocumentsInit, DocumentsNext, PTL DEF CSpec

(* ForceKeyBackupMiddleware: no document before somebody confirmed a copy   *)
(* of the key, nor a file under any other key, from a row loaded or saved  *)
(* earlier either; a process that dies before the trail says so included.  *)
THEOREM BackupComesFirstAlways == CSpec => []BackupComesFirst
<1>1. DocumentsInv => BackupComesFirst
  BY DEF DocumentsInv
<1>2. QED
  BY <1>1, CustodyInit, CustodyNext, DocumentsInit, DocumentsNext, PTL DEF CSpec

-----------------------------------------------------------------------------
(***************************************************************************)
(* Dependencies.  An edit that was validated against the graph it is saved *)
(* on closes no loop: a set that holds the choice and everything it waits  *)
(* for, but not the definition, is closed under the graph before and after *)
(* the save, so no walk that enters it comes back.                         *)
(***************************************************************************)

\* Induction along the first n hops, in terms of a set of good indices.
LEMMA HopInduction ==
  ASSUME NEW n \in Nat, NEW Good, 0 \in Good,
         \A k \in 1..n : (k-1) \in Good => k \in Good
  PROVE  \A k \in 0..n : k \in Good
<1> DEFINE Bad == {k \in 0..n : k \notin Good}
           R == OpToRel(<, Nat)
<1>1. SUFFICES ASSUME Bad # {} PROVE FALSE
  OBVIOUS
<1>2. PICK b \in Bad : \A k \in Bad : ~(<<k, b>> \in R)
  <2>1. IsWellFoundedOn(R, Nat)
    BY NatLessThanWellFounded
  <2>2. Bad \subseteq Nat
    OBVIOUS
  <2> HIDE DEF Bad, R
  <2>3. QED
    BY <1>1, <2>1, <2>2, WFMin
<1>3. b \in 1..n
  OBVIOUS
<1>4. b-1 \in 0..n /\ b-1 < b
  BY <1>3
<1>5. b-1 \in Good
  <2>1. <<b-1, b>> \in R
    BY <1>3, <1>4 DEF OpToRel
  <2> HIDE DEF R
  <2>2. b-1 \notin Bad
    BY <1>2, <2>1
  <2>3. QED
    BY <1>4, <2>2
<1>6. QED
  BY <1>3, <1>5

Node == Definition \cup {NoDefinition}

\* The walks of k hops up from a definition.
Hops(m, from, k) ==
  {f \in [0..k -> Node] :
     /\ f[0] = from
     /\ \A j \in 1..k : f[j] = IF f[j-1] = NoDefinition THEN NoDefinition ELSE m[f[j-1]]}

\* After, of any graph.
Walk(m, from, k) ==
  LET at[j \in 0..k] == CASE j = 0 -> from
                          [] j > 0 /\ at[j-1] = NoDefinition -> NoDefinition
                          [] OTHER -> m[at[j-1]]
  IN  at[k]

LEMMA HopsExist ==
  ASSUME NEW m \in [Definition -> Node], NEW from \in Node, NEW n \in Nat
  PROVE  Hops(m, from, n) # {}
<1> DEFINE Good == {k \in 0..n : Hops(m, from, k) # {}}
<1>1. 0 \in Good
  <2> DEFINE f == [j \in 0..0 |-> from]
  <2>1. f \in Hops(m, from, 0)
    BY DEF Hops
  <2>2. QED
    BY <2>1
<1>2. ASSUME NEW k \in 1..n, (k-1) \in Good
      PROVE  k \in Good
  <2>1. PICK f \in Hops(m, from, k-1) : TRUE
    BY <1>2
  <2>2. /\ f \in [0..(k-1) -> Node] /\ f[0] = from
        /\ \A j \in 1..(k-1) : f[j] = IF f[j-1] = NoDefinition THEN NoDefinition ELSE m[f[j-1]]
    BY DEF Hops
  <2> DEFINE last == IF f[k-1] = NoDefinition THEN NoDefinition ELSE m[f[k-1]]
             g == [j \in 0..k |-> IF j = k THEN last ELSE f[j]]
  <2>3. last \in Node
    <3>1. f[k-1] \in Node
      BY <2>2
    <3>2. QED
      BY <3>1 DEF Node
  <2>4. /\ g \in [0..k -> Node] /\ g[k] = last
        /\ \A j \in 0..k-1 : g[j] = f[j]
    <3> HIDE DEF last
    <3>1. \A j \in 0..k : j # k => j \in 0..(k-1)
      OBVIOUS
    <3>2. QED
      BY <2>2, <2>3, <3>1
  <2>5. ASSUME NEW j \in 1..k
        PROVE  g[j] = IF g[j-1] = NoDefinition THEN NoDefinition ELSE m[g[j-1]]
    <3>1. j-1 \in 0..k-1
      OBVIOUS
    <3>2. CASE j = k
      <4>1. g[j-1] = f[k-1]
        BY <2>4, <3>1, <3>2
      <4>2. QED
        BY <2>4, <3>2, <4>1
    <3>3. CASE j # k
      <4>1. j \in 1..(k-1) /\ j \in 0..(k-1)
        BY <3>3
      <4> HIDE DEF g, last
      <4>2. QED
        BY <2>2, <2>4, <3>1, <4>1
    <3>4. QED
      BY <3>2, <3>3
  <2>6. g[0] = from
    BY <2>2, <2>4
  <2> HIDE DEF g
  <2>7. g \in Hops(m, from, k)
    BY <2>4, <2>5, <2>6 DEF Hops
  <2>8. QED
    BY <2>7
<1>3. n \in Good
  <2> HIDE DEF Good
  <2>1. \A k \in 0..n : k \in Good
    BY <1>1, <1>2, HopInduction
  <2>2. QED
    BY <2>1
<1>4. QED
  BY <1>3

\* There is one walk from each place.
LEMMA HopsAgree ==
  ASSUME NEW m, NEW from, NEW n \in Nat, NEW f \in Hops(m, from, n),
         NEW k \in 0..n, NEW g \in Hops(m, from, k)
  PROVE  g[k] = f[k]
<1> DEFINE Good == {j \in 0..k : g[j] = f[j]}
<1>1. /\ g[0] = from /\ f[0] = from
      /\ \A j \in 1..k : g[j] = IF g[j-1] = NoDefinition THEN NoDefinition ELSE m[g[j-1]]
      /\ \A j \in 1..n : f[j] = IF f[j-1] = NoDefinition THEN NoDefinition ELSE m[f[j-1]]
  BY DEF Hops
<1>2. 0 \in Good
  BY <1>1
<1>3. ASSUME NEW j \in 1..k, (j-1) \in Good
      PROVE  j \in Good
  BY <1>1, <1>3
<1>4. k \in Good
  <2>1. k \in Nat
    OBVIOUS
  <2> HIDE DEF Good
  <2>2. \A j \in 0..k : j \in Good
    BY <1>2, <1>3, <2>1, HopInduction
  <2>3. QED
    BY <2>1, <2>2
<1>5. QED
  BY <1>4

LEMMA WalkHops ==
  ASSUME NEW m \in [Definition -> Node], NEW from \in Node, NEW n \in Nat,
         NEW f \in Hops(m, from, n), NEW k \in 0..n
  PROVE  Walk(m, from, k) = f[k]
<1> DEFINE at[j \in 0..k] == CASE j = 0 -> from
                               [] j > 0 /\ at[j-1] = NoDefinition -> NoDefinition
                               [] OTHER -> m[at[j-1]]
<1>1. PICK h \in Hops(m, from, k) : TRUE
  <2>1. k \in Nat
    OBVIOUS
  <2>2. QED
    BY <2>1, HopsExist
<1>2. /\ h \in [0..k -> Node] /\ h[0] = from
      /\ \A j \in 1..k : h[j] = IF h[j-1] = NoDefinition THEN NoDefinition ELSE m[h[j-1]]
  BY DEF Hops
<1>3. h = [j \in 0..k |-> CASE j = 0 -> from
                            [] j > 0 /\ h[j-1] = NoDefinition -> NoDefinition
                            [] OTHER -> m[h[j-1]]]
  BY <1>2
<1>4. at = [j \in 0..k |-> CASE j = 0 -> from
                            [] j > 0 /\ at[j-1] = NoDefinition -> NoDefinition
                            [] OTHER -> m[at[j-1]]]
  BY <1>3
<1> HIDE DEF at
<1>5. at[k] = h[k]
  <2> DEFINE Good == {j \in 0..k : at[j] = h[j]}
  <2>1. 0 \in Good
    BY <1>2, <1>4
  <2>2. ASSUME NEW j \in 1..k, (j-1) \in Good
        PROVE  j \in Good
    <3>1. j \in 0..k /\ j > 0 /\ at[j-1] = h[j-1]
      BY <2>2
    <3>2. at[j] = h[j]
      BY <1>2, <1>4, <3>1
    <3>3. QED
      BY <3>1, <3>2
  <2>3. k \in Nat
    OBVIOUS
  <2> HIDE DEF Good
  <2>4. \A j \in 0..k : j \in Good
    BY <2>1, <2>2, <2>3, HopInduction
  <2>5. k \in Good
    BY <2>3, <2>4
  <2>6. QED
    BY <2>5 DEF Good
<1>6. Walk(m, from, k) = at[k]
  BY DEF Walk, at
<1>7. QED
  BY <1>5, <1>6, HopsAgree

\* From follows on, the walk never meets d.
Clear(m, d, follows) ==
  \E S \in SUBSET Node :
    /\ {follows, NoDefinition} \subseteq S
    /\ d \notin S
    /\ \A e \in S \cap Definition : m[e] \in S

\* A validated choice keeps clear of the definition.
LEMMA ValidatedIsClear ==
  ASSUME must_follow \in [Definition -> Node], NEW d \in Definition, NEW follows \in Definition,
         ~_dependency_cycle(d, follows)
  PROVE  Clear(must_follow, d, follows)
<1>0. d # NoDefinition /\ MAX_DEPENDENCY_HOPS \in Nat
  BY DependencyAssumption DEF DependencyAssumption
<1>1. \A k \in Nat : After(follows, k) = Walk(must_follow, follows, k)
  BY DEF After, Walk
<1>2. PICK k \in 0..MAX_DEPENDENCY_HOPS-1 :
        /\ After(follows, k) = NoDefinition
        /\ \A j \in 0..k-1 : After(follows, j) # d
  BY DEF _dependency_cycle
<1>3. k \in Nat /\ follows \in Node
  BY <1>0 DEF Node
<1>4. PICK f \in Hops(must_follow, follows, k) : TRUE
  BY <1>3, HopsExist
<1>5. \A j \in 0..k : Walk(must_follow, follows, j) = f[j]
  BY <1>3, WalkHops
<1>6. /\ f \in [0..k -> Node] /\ f[0] = follows
      /\ \A j \in 1..k : f[j] = IF f[j-1] = NoDefinition THEN NoDefinition ELSE must_follow[f[j-1]]
  BY DEF Hops
<1>7. f[k] = NoDefinition /\ \A j \in 0..k-1 : f[j] # d
  BY <1>1, <1>2, <1>3, <1>5
<1> DEFINE S == {f[j] : j \in 0..k}
<1>8. S \in SUBSET Node /\ follows \in S /\ NoDefinition \in S
  BY <1>3, <1>6, <1>7
<1>9. d \notin S
  <2>1. \A j \in 0..k : j = k \/ j \in 0..k-1
    BY <1>3
  <2>2. QED
    BY <1>0, <1>7, <2>1
<1>10. ASSUME NEW e \in S \cap Definition
       PROVE  must_follow[e] \in S
  <2>1. PICK j \in 0..k : f[j] = e
    OBVIOUS
  <2>2. e # NoDefinition
    BY DependencyAssumption DEF DependencyAssumption
  <2>3. j+1 \in 1..k /\ j+1 \in 0..k /\ (j+1)-1 = j
    BY <1>3, <1>7, <2>1, <2>2
  <2>4. f[j+1] = must_follow[e]
    BY <1>6, <2>1, <2>2, <2>3
  <2>5. QED
    BY <2>3, <2>4
<1> HIDE DEF S
<1>11. QED
  BY <1>8, <1>9, <1>10 DEF Clear

\* Redirecting d to a choice that keeps clear of it makes no loop.
LEMMA ClearMakesNoLoop ==
  ASSUME NEW m \in [Definition -> Node], NEW d \in Definition, NEW follows \in Node,
         Clear(m, d, follows), NEW x \in Definition, NEW n \in Nat, n # 0,
         Walk([m EXCEPT ![d] = follows], x, n) = x
  PROVE  Walk(m, x, n) = x
<1> DEFINE m2 == [m EXCEPT ![d] = follows]
<1>1. /\ m2 \in [Definition -> Node] /\ x \in Node
      /\ m2[d] = follows /\ \A e \in Definition \ {d} : m2[e] = m[e]
  BY DEF Node
<1> HIDE DEF m2
<1>2. PICK f \in Hops(m2, x, n) : TRUE
  BY <1>1, HopsExist
<1>3. /\ f \in [0..n -> Node] /\ f[0] = x
      /\ \A j \in 1..n : f[j] = IF f[j-1] = NoDefinition THEN NoDefinition ELSE m2[f[j-1]]
  BY DEF Hops
<1>4. f[n] = x
  <2>1. Walk(m2, x, n) = f[n]
    BY <1>1, WalkHops
  <2>2. QED
    BY <2>1 DEF m2
<1>5. PICK S \in SUBSET Node :
        /\ {follows, NoDefinition} \subseteq S
        /\ d \notin S
        /\ \A e \in S \cap Definition : m[e] \in S
  BY DEF Clear
<1>6. ASSUME NEW p \in 0..n, f[p] \in S
      PROVE  \A j \in 0..n : p <= j => f[j] \in S
  <2> DEFINE Good == {j \in 0..n : p <= j => f[j] \in S}
  <2>1. 0 \in Good
    BY <1>6
  <2>2. ASSUME NEW j \in 1..n, (j-1) \in Good
        PROVE  j \in Good
    <3>1. CASE p = j
      BY <1>6, <3>1
    <3>2. CASE p # j /\ p <= j
      <4>1. p <= j-1 /\ j-1 \in 0..n
        BY <3>2
      <4>2. f[j-1] \in S
        BY <2>2, <4>1
      <4>3. f[j] = IF f[j-1] = NoDefinition THEN NoDefinition ELSE m2[f[j-1]]
        BY <1>3
      <4>4. f[j-1] # NoDefinition => f[j-1] \in Definition \ {d}
        BY <1>5, <4>2 DEF Node
      <4>5. f[j] \in S
        BY <1>1, <1>5, <4>2, <4>3, <4>4
      <4>6. QED
        BY <4>5
    <3>3. CASE ~(p <= j)
      BY <3>3
    <3>4. QED
      BY <3>1, <3>2, <3>3
  <2> HIDE DEF Good
  <2>3. \A j \in 0..n : j \in Good
    BY <2>1, <2>2, HopInduction
  <2>4. QED
    BY <2>3 DEF Good
<1>7. \A i \in 0..n : f[i] # d
  <2>1. SUFFICES ASSUME NEW q \in 0..n, f[q] = d PROVE FALSE
    OBVIOUS
  <2>2. PICK i \in 0..n-1 : f[i] = d
    <3>1. CASE q = n
      BY <1>3, <1>4, <2>1, <3>1
    <3>2. CASE q # n
      <4>1. q \in 0..n-1
        BY <3>2
      <4>2. QED
        BY <2>1, <4>1
    <3>3. QED
      BY <3>1, <3>2
  <2>3. i+1 \in 1..n /\ i+1 \in 0..n /\ (i+1)-1 = i /\ i \in 0..n /\ i+1 <= n
    OBVIOUS
  <2>4. f[i+1] = follows
    <3>1. d # NoDefinition
      BY DependencyAssumption DEF DependencyAssumption
    <3>2. f[i+1] = IF f[(i+1)-1] = NoDefinition THEN NoDefinition ELSE m2[f[(i+1)-1]]
      BY <1>3, <2>3
    <3>3. QED
      BY <1>1, <2>2, <2>3, <3>1, <3>2
  <2>5. f[n] \in S
    <3>1. f[i+1] \in S
      BY <1>5, <2>4
    <3>2. n \in 0..n
      OBVIOUS
    <3>3. QED
      BY <1>6, <2>3, <3>1, <3>2
  <2>6. f[0] \in S /\ 0 \in 0..n
    BY <1>3, <1>4, <2>5
  <2>7. f[i] \in S
    <3>1. 0 <= i
      OBVIOUS
    <3>2. QED
      BY <1>6, <2>3, <2>6, <3>1
  <2>8. QED
    BY <1>5, <2>2, <2>7
<1>8. f \in Hops(m, x, n)
  <2>1. ASSUME NEW j \in 1..n
        PROVE  f[j] = IF f[j-1] = NoDefinition THEN NoDefinition ELSE m[f[j-1]]
    <3>1. j-1 \in 0..n
      OBVIOUS
    <3>2. f[j-1] \in Node /\ f[j-1] # d
      BY <1>3, <1>7, <3>1
    <3>3. f[j-1] # NoDefinition => m2[f[j-1]] = m[f[j-1]]
      BY <1>1, <3>2 DEF Node
    <3>4. QED
      BY <1>3, <3>3
  <2>2. QED
    BY <1>3, <2>1 DEF Hops
<1>9. n \in 0..n
  OBVIOUS
<1>10. QED
  BY <1>1, <1>4, <1>8, <1>9, WalkHops

\* The graph has only definitions in it, an edit names what it edits, and one that was
\* validated against the graph there is keeps clear of its definition.
DependencyInv ==
  /\ DTypeOK
  /\ must_follow \in [Definition -> Node]
  /\ edit \in [Admin -> [d : Node, follows : Node, seen : BOOLEAN]]
  /\ \A a \in Admin :
       /\ edit[a].follows # NoDefinition => state[edit[a].follows] # "absent"
       /\ edit[a] # NoEdit /\ edit[a].seen => Clear(must_follow, edit[a].d, edit[a].follows)

LEMMA DependencyInit == DInit => DependencyInv
<1>1. SUFFICES ASSUME DInit PROVE DependencyInv
  OBVIOUS
<1>2. NoDefinition \in Node
  BY DEF Node
<1>3. /\ must_follow \in [Definition -> Node]
      /\ edit \in [Admin -> [d : Node, follows : Node, seen : BOOLEAN]]
  BY <1>1, <1>2 DEF DInit, NoEdit
<1>4. DTypeOK
  BY <1>1 DEF DInit, NoEdit, DTypeOK
<1>5. QED
  BY <1>1, <1>3, <1>4 DEF DInit, NoEdit, DependencyInv

\* What a posted form carries, if there is one.
LEMMA PostedEdit ==
  ASSUME DependencyInv, NEW a \in Admin, edit[a] # NoEdit
  PROVE  edit[a].d \in Definition /\ edit[a].follows \in Node /\ edit[a].seen \in BOOLEAN
BY DEF DependencyInv, DTypeOK, Node

LEMMA ValidateKeeps ==
  ASSUME DependencyInv, NEW a \in Admin, NEW d \in Definition, NEW follows \in Node,
         validate_definition(a, d, follows)
  PROVE  DependencyInv'
<1> DEFINE new == [d |-> d, follows |-> follows, seen |-> TRUE]
<1>1. /\ edit' = [edit EXCEPT ![a] = new]
      /\ must_follow' = must_follow /\ state' = state
      /\ follows # NoDefinition => state[follows] = "active" /\ ~_dependency_cycle(d, follows)
  BY DEF validate_definition, Choices, Node
<1>2. d # NoDefinition /\ d \in Node /\ NoDefinition \in Node
  BY DependencyAssumption DEF DependencyAssumption, Node
<1>3. /\ new \in [d : Node, follows : Node, seen : BOOLEAN]
      /\ new.d = d /\ new.follows = follows /\ new # NoEdit
  BY <1>2 DEF NoEdit
<1>4. Clear(must_follow, d, follows)
  <2>1. CASE follows = NoDefinition
    <3> DEFINE S == {NoDefinition}
    <3>1. S \in SUBSET Node /\ {follows, NoDefinition} \subseteq S /\ d \notin S
      BY <1>2, <2>1
    <3>2. \A e \in S \cap Definition : must_follow[e] \in S
      BY DependencyAssumption DEF DependencyAssumption
    <3> HIDE DEF S
    <3>3. QED
      BY <3>1, <3>2 DEF Clear
  <2>2. CASE follows # NoDefinition
    <3>1. follows \in Definition /\ must_follow \in [Definition -> Node]
      BY <2>2 DEF Node, DependencyInv
    <3>2. QED
      BY <1>1, <2>2, <3>1, ValidatedIsClear
  <2>3. QED
    BY <2>1, <2>2
<1> HIDE DEF new
<1>5. /\ edit' \in [Admin -> [d : Node, follows : Node, seen : BOOLEAN]]
      /\ edit'[a] = new /\ \A b \in Admin \ {a} : edit'[b] = edit[b]
  BY <1>1, <1>3 DEF DependencyInv
<1>6. \A b \in Admin : edit'[b].d = NoDefinition <=> edit'[b] = NoEdit
  BY <1>2, <1>3, <1>5 DEF DependencyInv, DTypeOK
<1>7. DTypeOK'
  BY <1>1, <1>6 DEF DependencyInv, DTypeOK, NoEdit
<1>8. \A b \in Admin :
        /\ edit'[b].follows # NoDefinition => state'[edit'[b].follows] # "absent"
        /\ edit'[b] # NoEdit /\ edit'[b].seen => Clear(must_follow', edit'[b].d, edit'[b].follows)
  BY <1>1, <1>3, <1>4, <1>5 DEF DependencyInv
<1>9. QED
  BY <1>1, <1>5, <1>7, <1>8 DEF DependencyInv, NoEdit

LEMMA SaveKeeps ==
  ASSUME DependencyInv, NEW a \in Admin, save_definition(a)
  PROVE  DependencyInv'
<1>1. edit[a] # NoEdit /\ must_follow' = [must_follow EXCEPT ![edit[a].d] = edit[a].follows]
  BY DEF save_definition
<1>2. PICK posted \in {"active", "retired"} : state' = [state EXCEPT ![edit[a].d] = posted]
  BY DEF save_definition
<1>3. edit[a].d \in Definition /\ edit[a].follows \in Node
  BY <1>1, PostedEdit
<1>4. must_follow' \in [Definition -> Node]
  BY <1>1, <1>3 DEF DependencyInv
<1>5. state' \in [Definition -> {"absent", "active", "retired"}]
  BY <1>2, <1>3 DEF DependencyInv, DTypeOK
<1>6. \A e \in Definition : state[e] # "absent" \/ e = edit[a].d => state'[e] # "absent"
  BY <1>2, <1>3 DEF DependencyInv, DTypeOK
<1>7. ASSUME NEW b \in Admin
      PROVE  \/ edit'[b] = NoEdit
             \/ /\ edit[b] # NoEdit /\ b # a
                /\ edit'[b] = [edit[b] EXCEPT !.seen = edit[b].seen /\ must_follow' = must_follow]
  BY DEF save_definition
<1>8. ASSUME NEW b \in Admin
      PROVE  /\ edit'[b] \in [d : Node, follows : Node, seen : BOOLEAN]
             /\ edit'[b].d = NoDefinition <=> edit'[b] = NoEdit
             /\ edit'[b] # NoEdit =>
                  /\ edit'[b].follows = edit[b].follows /\ edit'[b].d = edit[b].d
                  /\ edit[b] # NoEdit
                  /\ edit'[b].seen => edit[b].seen /\ must_follow' = must_follow
  <2>1. NoDefinition \in Node
    BY DEF Node
  <2>2. CASE edit'[b] = NoEdit
    BY <2>1, <2>2 DEF NoEdit
  <2>3. CASE /\ edit[b] # NoEdit
             /\ edit'[b] = [edit[b] EXCEPT !.seen = edit[b].seen /\ must_follow' = must_follow]
    <3>1. /\ edit[b] \in [d : Node, follows : Node, seen : BOOLEAN]
          /\ edit[b].d # NoDefinition
      BY <2>3 DEF DependencyInv, DTypeOK
    <3>2. edit'[b].d = edit[b].d /\ edit'[b].follows = edit[b].follows
      BY <2>3, <3>1
    <3>3. edit'[b] # NoEdit
      BY <3>1, <3>2 DEF NoEdit
    <3> DEFINE stands == edit[b].seen /\ must_follow' = must_follow
    <3>4. edit'[b].seen = stands /\ stands \in BOOLEAN
      BY <2>3, <3>1
    <3>5. edit'[b] \in [d : Node, follows : Node, seen : BOOLEAN]
      BY <2>3, <3>1
    <3>6. QED
      BY <2>3, <3>1, <3>2, <3>3, <3>4, <3>5
  <2>4. QED
    BY <1>7, <2>2, <2>3
<1>9. edit' \in [Admin -> [d : Node, follows : Node, seen : BOOLEAN]]
  <2>1. edit' = [b \in Admin |-> edit'[b]]
    BY DEF save_definition
  <2>2. QED
    BY <1>8, <2>1
<1>10. ASSUME NEW e \in Definition, must_follow'[e] # NoDefinition
       PROVE  state'[e] # "absent" /\ state'[must_follow'[e]] # "absent"
  <2>1. CASE e = edit[a].d
    <3>1. must_follow'[e] = edit[a].follows
      BY <1>1, <2>1 DEF DependencyInv
    <3>2. edit[a].follows \in Definition /\ state[edit[a].follows] # "absent"
      BY <1>3, <1>10, <3>1 DEF DependencyInv, Node
    <3>3. QED
      BY <1>6, <2>1, <3>1, <3>2
  <2>2. CASE e # edit[a].d
    <3>1. must_follow'[e] = must_follow[e]
      BY <1>1, <2>2 DEF DependencyInv
    <3>2. must_follow[e] \in Definition
      BY <1>10, <3>1 DEF DependencyInv, Node
    <3>3. QED
      BY <1>6, <1>10, <3>1, <3>2 DEF DependencyInv, DTypeOK
  <2>3. QED
    BY <2>1, <2>2
<1>11. DTypeOK'
  <2>1. \A b \in Admin : edit'[b].d = NoDefinition <=> edit'[b] = NoEdit
    BY <1>8
  <2>2. QED
    BY <1>5, <1>10, <2>1 DEF DTypeOK, NoEdit
<1>12. ASSUME NEW b \in Admin
       PROVE  /\ edit'[b].follows # NoDefinition => state'[edit'[b].follows] # "absent"
              /\ edit'[b] # NoEdit /\ edit'[b].seen =>
                   Clear(must_follow', edit'[b].d, edit'[b].follows)
  <2>1. CASE edit'[b] = NoEdit
    BY <2>1 DEF NoEdit
  <2>2. CASE edit'[b] # NoEdit
    <3>1. /\ edit'[b].follows = edit[b].follows /\ edit'[b].d = edit[b].d /\ edit[b] # NoEdit
          /\ edit'[b].seen => edit[b].seen /\ must_follow' = must_follow
      BY <1>8, <2>2
    <3>2. edit[b].follows \in Node
      BY <3>1, PostedEdit
    <3>3. edit[b].follows # NoDefinition => state'[edit[b].follows] # "absent"
      BY <1>6, <3>2 DEF DependencyInv, Node
    <3>4. QED
      BY <3>1, <3>3 DEF DependencyInv
  <2>3. QED
    BY <2>1, <2>2
<1>13. QED
  BY <1>4, <1>9, <1>11, <1>12 DEF DependencyInv, NoEdit

LEMMA ToggleKeeps ==
  ASSUME DependencyInv, NEW d \in Definition, definition_toggle_active(d)
  PROVE  DependencyInv'
<1>1. /\ state' \in [Definition -> {"absent", "active", "retired"}]
      /\ \A e \in Definition : state[e] # "absent" => state'[e] # "absent"
      /\ must_follow' = must_follow /\ edit' = edit
  BY DEF definition_toggle_active, DependencyInv, DTypeOK
<1>2. \A e \in Definition : must_follow[e] # NoDefinition => must_follow[e] \in Definition
  BY DEF DependencyInv, Node
<1>3. DTypeOK'
  BY <1>1, <1>2 DEF DependencyInv, DTypeOK, NoEdit
<1>4. \A a \in Admin : edit[a].follows # NoDefinition => edit[a].follows \in Definition
  BY DEF DependencyInv, Node
<1>5. QED
  BY <1>1, <1>3, <1>4 DEF DependencyInv, NoEdit

LEMMA DependencyNext == DependencyInv /\ [DNext]_dvars => DependencyInv'
<1>1. ASSUME DependencyInv, UNCHANGED dvars PROVE DependencyInv'
  BY <1>1 DEF DependencyInv, DTypeOK, NoEdit, dvars
<1>2. QED
  BY <1>1, ValidateKeeps, SaveKeeps, ToggleKeeps DEF DNext, Node

(* Definitions are only ever retired, by the toggle and by the form, so a  *)
(* prerequisite never dangles, with however many edits under way.          *)
THEOREM DTypeOKAlways == DSpec => []DTypeOK
<1>1. DependencyInv => DTypeOK
  BY DEF DependencyInv
<1>2. QED
  BY <1>1, DependencyInit, DependencyNext, PTL DEF DSpec

LEMMA LoopsWalk ==
  ASSUME NEW x \in Definition
  PROVE  /\ Loops(x) <=> \E k \in 1..Cardinality(Definition) : Walk(must_follow, x, k) = x
         /\ Loops(x)' <=> \E k \in 1..Cardinality(Definition) : Walk(must_follow', x, k) = x
<1>1. Loops(x) <=> \E k \in 1..Cardinality(Definition) : Walk(must_follow, x, k) = x
  BY DEF Loops, After, Walk
<1>2. Loops(x)' <=> \E k \in 1..Cardinality(Definition) : Walk(must_follow', x, k) = x
  BY DEF Loops, After, Walk
<1>3. QED
  BY <1>1, <1>2

LEMMA LoopsByOverlap ==
  ASSUME DependencyInv, [DNext]_dvars, NEW x \in Definition, Loops(x)', ~Loops(x)
  PROVE  \E a \in Admin : edit[a] # NoEdit /\ edit'[a] = NoEdit /\ ~edit[a].seen
<1>1. CASE must_follow' = must_follow
  BY <1>1, LoopsWalk
<1>2. ASSUME NEW a \in Admin, save_definition(a)
      PROVE  \E b \in Admin : edit[b] # NoEdit /\ edit'[b] = NoEdit /\ ~edit[b].seen
  <2>1. /\ edit[a] # NoEdit /\ edit'[a] = NoEdit
        /\ must_follow' = [must_follow EXCEPT ![edit[a].d] = edit[a].follows]
    BY <1>2 DEF save_definition
  <2>2. edit[a].d \in Definition /\ edit[a].follows \in Node
    BY <2>1, PostedEdit
  <2>3. PICK k \in 1..Cardinality(Definition) : Walk(must_follow', x, k) = x
    BY LoopsWalk
  <2>4. Walk(must_follow, x, k) # x
    BY LoopsWalk
  <2>5. k \in Nat /\ k # 0
    OBVIOUS
  <2>6. ~Clear(must_follow, edit[a].d, edit[a].follows)
    BY <2>1, <2>2, <2>3, <2>4, <2>5, ClearMakesNoLoop DEF DependencyInv
  <2>7. ~edit[a].seen
    BY <2>1, <2>6 DEF DependencyInv
  <2>8. QED
    BY <2>1, <2>7
<1>3. ASSUME ~\E a \in Admin : save_definition(a)
      PROVE  must_follow' = must_follow
  BY <1>3 DEF DNext, dvars, validate_definition, definition_toggle_active
<1>4. QED
  BY <1>1, <1>2, <1>3

(* However long the chain and however few hops the check follows, a loop   *)
(* takes two edits that overlap: the form refuses what it cannot follow.   *)
THEOREM OnlyOverlapLoopsAlways == DSpec => OnlyOverlapLoops
<1>1. DependencyInv /\ [DNext]_dvars =>
        [(\E d \in Definition : Loops(d)') /\ (\A d \in Definition : ~Loops(d))
           => \E a \in Admin : edit[a] # NoEdit /\ edit'[a] = NoEdit /\ ~edit[a].seen]_dvars
  BY LoopsByOverlap
<1>2. QED
  BY <1>1, DependencyInit, DependencyNext, PTL DEF DSpec, OnlyOverlapLoops
===============================================================================
