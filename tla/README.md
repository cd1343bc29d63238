# A verification of the volunteer risk-management system

The repository is a Django application that churches use to screen and train their
volunteers: which requirements each volunteer owes, who has done what and when it lapses,
criminal record checks and what they forbid, and the review of entries made by department
administrators; who those administrators are and how they sign in; the reminders they get; and the
key each church's records are sealed under. These modules model that in TLA+, check it with TLC on
small instances, and prove the main invariants with TLAPS for every value of the constants.

Contents: [the system](#1-the-system) · [modules](#2-the-modules-and-the-code) ·
[runs](#3-what-the-runs-show) · [fairness](#4-fairness) · [proofs](#5-what-is-proved) ·
[divergences](#6-where-the-code-and-its-words-disagree) ·
[not modelled](#7-what-is-not-modelled) · [plan](#8-plan)

## 1. The system

One PostgreSQL database, one schema per church, requests served by several processes at READ
COMMITTED with no row locks in the modelled code, and one Celery worker that Celery beat starts
nightly (`src/config/celery.py:30`). Every service call is one transaction
(`transaction.atomic`); `post_save` hooks queue work with `transaction.on_commit`.

| Component | State | Operations | Correct when |
|---|---|---|---|
| **Requirement rules** `requirements/models.py`, `services.py` | none: pure functions of rows, roles, dates, configuration | applicability, gates, deadlines, sync, recompute, turning 18, mark complete, waive, reverse | a row's status is backed by its dates; sync loses no history |
| **Requirement engine** `requirements/services.py`, `signals.py`, `org/views.py`, `core/tasks.py` | rows of each volunteer, assignments, definitions, the sweep's progress | record, assign, edit, owe and run syncs, nightly sweep | no gated row is owed ahead of its prerequisite; lapses are found; passes settle |
| **Criminal record screening** `requirements/services.py`, `org/models.py` | checks, convictions, decisions, the volunteer's block | record a check, convictions, override, resolve, retract | a disqualification is final and holds no role; a clearance has an operative check behind it |
| **Review gate** `review/*` | items with a status and a snapshot | open, supersede, affirm, send back | one open item per row, decisions are final, a send-back undoes exactly the rejected entry |
| **Documents** `documents/*` | sealed files, rows, the mode they were stored in | store, complete the backing row, review | a stored record has its sealed file; its completion is reviewed |
| **Organisation** `org/*` | volunteers, departments, roles, assignments | create, edit, deactivate, assign, end | ended is ended; the list follows the roles |
| **Access levels** `core/access.py`, `core/forms.py`, `accounts/views.py` | levels, grants with departments, the link to one's own file | invite, change access, deactivate, create and edit levels, link files | nobody hands out more than they hold; somebody can manage access; nobody decides their own entry while others could |
| **Sign-in** `accounts/links.py`, `accounts/webauthn_service.py`, `tenants/routing.py`, `core/middleware.py` | links, challenges, passkeys, church cookies, sessions | issue and spend links, register and use passkeys, bind a request to a church | a link signs its holder in once; a session is never somebody else's |
| **Reminders** `notifications/*`, `core/tasks.py` | reminder rows that claim, email rows | nightly scan, claim, digest, send | each deadline is announced; nothing is mailed twice; every send is on record |
| **Tenancy and keys** `tenants/*`, `core/keys.py`, `core/crypto.py` | churches, wrapped keys, a key cache in each process | provision, settings, back up, restore, rotate | one key per church and it can always be recovered |
| **Audit, reporting, templates, deployment** | log rows; none | append; read | nothing modelled depends on them |

**Interactions.** A view calls a service function. The service writes the row, re-derives what is
gated behind it (`refresh_dependents`), asks the review gate to open an item, and writes the audit
log, in one transaction. Saving a `RoleAssignment` or a `Volunteer` owes a sync that runs after
the commit and whose errors are swallowed (`_safe_sync`). Screening ends assignments, which owes
further syncs. Sending back an item writes requirement rows and checks through the same row
functions. The sweep visits the same rows at night, in three passes, and then raises reminders from
what it has just derived. Signing in happens on an address all churches share: the link or the
credential names the church, a signed cookie carries the choice, and the middleware binds every
later request by it. Whatever a request or a job writes is sealed under the key of the church it is
bound to, which comes from the row it was bound with or from a per-process cache.

**Hard behaviours.** Derived state (gates, statuses, deadlines) that every write has to keep up to
date; hooks that run late or not at all; a sweep whose date is fixed when it starts and whose
passes may have requests, midnight or a failure between them; objects loaded at the start of a
request and saved at its end; snapshots that a decision restores much later; a reminder claimed in
one transaction and mailed in none; cookies, sessions and challenges that outlive the schema they
were made in; keys cached in one process and replaced in another. `PROJECT.json`
lists each under `hazards`, at its line, with the properties aimed at it or the reason there is
none yet.

## 2. The modules and the code

```
Requirements ── RequirementEngine ── MCEngineChain, MCEngineCheck
     │      └── RequirementsProofs      RequirementEngineProofs
     ├── SyncRace ── SyncRaceProofs ──────────────── MCSyncRace
     ├── Screening ─┬─ ScreeningPolicy (refined)   ── MCScreening
     │              ├─ ScreeningRaces              ── MCScreeningRaces
     │              └─ ScreeningProofs
     ├── Review ── ReviewProofs ──────────────────── MCReview
     └── Reminders ── RemindersProofs ────────────── MCReminders

Calendar ── RequirementsProofs
SignIn ── OneTimeLink (refined) ── SignInProofs ──── MCSignIn
Access ───────────┐                               ── MCAccess
Custody ──────────┼─ ChurchProofs                 ── MCCustody
DependencyGraph ──┘                               ── MCDependencyGraph
```

**Requirements** holds the rules as operators. A row (`RequirementInstance`) is a record of status,
three dates (`completed`, `expires`, `due`, with `NoDate` for NULL), and two flags: whether the
row has a start date and whether it carries waiver details. Dates are natural numbers, and an
interval adds to them: what a month's length does to a date is Calendar's subject. A definition's fixed configuration is in CONSTANTS (`MustFollow`,
`Interval`, `Offset`, `AppliesToRole`, `AdultsOnly`, `Crc`, `Order`); what the church edits is
the context record `ctx`. The loop of `sync_volunteer_requirements` is a recursive function over
the definition order, so each definition sees the rows the earlier ones have just been given, as
in the loop. Operators carry the names of the functions they translate.

**RequirementEngine** is one volunteer's list over time. Each service call is one action because it
is one transaction. What runs after a commit is separate: `owed` counts syncs still to run,
`_safe_sync` runs one, `LoseSync` is the exception it swallows or the process that died. `sweep`
is the job in progress, with its phase and the date it works for; `SweepSync(asOf)`,
`SweepActivate` and `recompute_all_statuses` are its three passes and `SweepFails` is the
exception that ends one church's run. `nightly_sweep` starts it for today, `sweep_replayed` for a date
that is gone: replayed by hand for `as_of_iso`, reaching this church after midnight, or delivered again. `stale` records that a list is known to await a sync:
after a lost one, after a configuration edit (the code re-derives no list for those) and after
reversing a waiver on a row nothing follows.

**SyncRace** is the same list one level lower. A worker is a request, a sync or the nightly
recompute; it loads objects in one step (`LoadRequest`, `LoadSync`, `LoadRecompute`) and commits in
another, writing only the columns named in `update_fields` (`save`). Two steps are enough for a
transaction: its first save of a row locks the row until the commit, so nobody else's save of it comes
in between. The sync reads a prerequisite when it comes to the row behind it, and so does `Synced`.
The recompute has no transaction and saves row by row, each from the object its cursor brought.

**DependencyGraph** is the configuration the rules take as constant: who follows whom. A definition
is absent, active or retired; an edit is validated (`Choices`, `_dependency_cycle`) in one step and
saved in another, since no transaction encloses the two. `seen` is a ghost: whether the graph is still
the one the edit was validated against. Whether a dependency warns or gates does not change the graph,
and the starter template only adds definitions nobody follows yet.

**Calendar** is the arithmetic behind the clock units of the other modules: `add_months_to` with its
clamping, age from year and month, the trigger date on turning 18, and the onboarding window. It is
operators only, and what they promise is proved for every date (§5).

**Screening** adds the checks: result, date, which check superseded it, convictions, decisions,
outcome and the review item with its snapshot. Handlers take `seen`, the columns of the
Volunteer object the request loaded. In Screening `seen` is the row; **ScreeningRaces** lets a
request load, others commit, and then commits on the old object. A check displaced by a new one is
the operative one with the latest report date; when several share it the database picks, and so
does `\E`. **ScreeningPolicy** is the policy itself: the block, the roles, and which moves
are allowed between them.

**Review** is the gate around one requirement row and the documents attached to it. `owner` is a
ghost variable naming the item whose entry the row shows. Two fields of an item are ghosts too:
`rowBefore`, the row as it was, next to the snapshot the code actually keeps; and `over`, whose entry
that snapshot shows, so that a send-back, which puts the snapshot back, makes that entry the row's
again.

**Access** is the administrators' section of one church. `level` and `grant` are the `AccessLevel`
and `UserAccessGrant` rows, `account` the `is_active` flag of each user, `owner` the administrator
each volunteer file belongs to, `queue` the recorder of the review item open on each file. The
questions (`has_capability`, `is_unscoped`, `would_strand_the_church`, `may_review`,
`may_record_against`, ...) are operators under the names of `core/access.py`, each action is one
view, and its guards are the decorator, the form and the refusals in the order the view meets them.
`by` is a ghost: who made the request, for properties about what a person may do to themselves.

**SignIn** is the address every church shares. A browser has a cookie, which names a church, and a
session, which names a primary key and a password hash; `Bound` is the schema the middleware
chooses, `Acting` is the account Django finds in it. Two churches may give two people the same
primary key: what keeps them apart is the hash of the (unusable, random) password, an external
definition. `challenge` is the sequence of `WebAuthnChallenge` rows in every schema, each with the
schema it was written in; `answered` says where it is used up. `jar` is every cookie the browser was
ever handed, so that it may present any of them again. `signedIn`, `uses` and `answers` are ghosts.
**OneTimeLink** says what a link promises (issued, live, then spent or lapsed, one use), and
`Once == INSTANCE OneTimeLink WITH ...` reads its state out of the rows.

**Reminders** runs the rules of Requirements for one volunteer and adds the reminder pass: the sweep
derives the rows and reads what is owed (`sweep_tenant`), claims each reminder by its unique key
(`raise_reminder`), logs the digest (`send_digest`), hands it over (`provider_send`) and saves the
outcome (`mark_sent`, `mark_failed`). Workers may be at any two of these points at once, and `Crash`
ends any of them anywhere. A mail server that breaks the connection may have delivered first. The
engine's interleavings inside the first step are RequirementEngine's.

**Custody** is one church's key. `church` is the committed registry row, `cache` what each process
has unwrapped, `copy` the row a form or job loaded and is working with, `sealed` and `files` the keys
its columns and files are under. `KeyOfRow` and `KeyOfSchema` are the two ways `get_current_key`
answers: with a tenant object carrying its wrapped key, or with a bare schema, for which the cache
is trusted. A request that commits more than once is as many steps: `key_backup` and
`key_backup_recorded`, `church_settings`, `set_document_mode` and `mode_recorded`. `confirmed`, a ghost, is the keys
somebody at the church has confirmed a copy of. A wrapping has a seal of its own, because the nonce makes each wrapping different and
the cache is validated by its digest. Keys are numbers never used twice.

Definitions commented `Mutant:` are deliberately wrong variants. No specification uses
them; each shows that a property notices the mistake it stands for.

## 3. What the runs show

| Run | Configuration | Shows |
|---|---|---|
| `engine_gates` | an adults-only check, a course behind it, a placement behind the course and switched by the church; a birth date known or not; one role, ended and assigned again; every way out of service and back; sweeps for today and for day 1; dates to 2 | `GateHolds`: with nothing owed and no known staleness, no gated row is owed before its step; `ChainInOrder` is the premise of its proof (§5). `DecisionsStand`: a waiver ends only by reversal |
| `engine_rows` | an adults-only check and a yearly duty gated behind it, ordered duty first so that a pass meets the gated row before its gate; an unknown or known birth date, sweeps replayed for day 1, dates to 3, under fairness | types; completions are dated and not in the future; a current completion is never owed or parked; settled rows have no deadline, but for a lapsed one that a sweep for an earlier date has hidden; waiver details exactly on waived rows; history is kept; `LapseIsSeen`, `Converges` |
| `screening` | a check and a course, two checks on file reported on two days or on one, both kinds of recorder | `DisqualifiedHoldNoRole`, `DisqualificationIsPermanent`, `FollowsPolicy` (refinement); `ClearanceIsBacked`: the completion on the check's row is that of an operative cleared check, when checks are recorded in the order of their dates |
| `review_queue` | completions and waivers by scoped recorders, three items, dates to 3 | `OnlyUndoingUncovers`: recording never leaves the row showing an entry that has dropped out of the queue; only undoing a later one may. Send-backs undo their own entry and restore its dates |
| `review_kinds` | every kind of entry by every recorder, documents included | `OneOpenItem`: one open item per row |
| `access` | three administrators, two files (one not created yet), a department, the two built-in levels and a custom one, one level edit | `NoEscalation`: no chain of grants hands out more than the granter held. `StrandedOnlyByLevelEdit`, `BacklogNotUnlockedByDeactivation`: what the two refusals cover, and what they leave. `OwnEntryDecidedOnlyWhenAlone` |
| `sign_in` | two churches whose founders share an address and a primary key, a colleague, the operator; two links, two passkeys, three challenges, one browser | `NobodyActsAsAnother`, `ChallengeAnsweredOnce`, `SignInLands`, `LinksSignInOnce` (refinement) |
| `reminders` | somebody turning 18, a check for teachers and a course; two workers, two digests, two moves of the office, dates to 4 | `MailedAtMostOnce`, `EverySendIsLogged`, `DeadlineIsRaised` |
| `custody` | two processes, two keys, two master keys, three wrappings, one upload | `OneKeyPerChurch`, `KeyIsRecoverable`, `EveryRecordHasItsFile`, `BackupComesFirst` |
| `sync_race` | one yearly course, two workers, every kind of record, dates to 3, under fairness | `OnlyRequestsRecord`: no sync and no night changes what somebody recorded, whatever it had loaded. `DatesBelongTogether`: the columns of two saves never mix into a row nobody recorded. `LateOverdueHeals`: an old status saved over a renewal is put right by a later night |
| `dependency_graph` | four definitions, two administrators, two hops, so that chains outgrow what is followed | `OnlyOverlapLoops`: a loop needs an edit validated before another was saved |
| `races_permanent` | a check and a course behind it, one request that loaded the volunteer earlier | a counterexample, §6 |

**Bounds.** `Horizon`/`LastDay` bound the clock: 3 is enough for a completion, its expiry (one
interval later) and a day after it, which is when `Past` first holds. In `engine_gates` nothing
expires: the last day, 2, is the 18th birthday that opens the chain, and `NoDatePasses` says so. `MaxOwed` is 2
in both runs, the most one request owes there: assigning the role, ending it in service, deactivating with the role ended. A
request that would exceed it waits for the syncs already owed (or for one of them to be lost), so it
bounds concurrency and hides no single request. `Replayed` is day 1 in both: in `engine_rows` a sweep for
it may run on days 2 and 3, when what was recorded then has come up for renewal and has lapsed; in `engine_gates` on day 2, for the day
before the birthday. The views keep what a step can tell apart: `GateView` drops the dates that never pass,
`StaleIgnored` the ghost `stale`, which only `GateHolds` reads.
Two checks are enough for one to supersede and be superseded; retracting the newer revives the older.
Three items allow an entry, the entry that supersedes it, and one after a decision. One worker
holding an old object is enough, since every other request of the model may commit between
its load and its commit. `Editable` names the definitions the church edits; where that is not the question it is empty.

In `access` three people are enough for one to remove another while a third decides; the symmetry is
between the two who are not the founder. In `sign_in` the second link is a second one to the same
person or one to a namesake elsewhere; three challenges let one be superseded and one be answered in
another schema. `LiveView` leaves out what no guard reads again (what is left of a spent link, a dead
challenge but for its answers). In `reminders` date 2 is the 18th birthday, 3 the deadline and 4 the
night that announces it; two moves let the office record the work and take a role away. In `custody` three wrappings are a provisioning that fails,
the one that succeeds, and a re-wrapping under the second master key; `HeldView` keeps of a row that a
request holds the columns its next step reads. `Replayed` and `Backlog`
are left small in `reminders`: there a replay for an earlier date, and a digest with nothing but a
review backlog, are modelled but not explored.

In `sync_race` two workers are one that holds old objects and one that overtakes it; with a third
nothing new can happen between a load and its commit, because every record of the model may already.
Day 3 is the first on which a yearly completion of day 1 has lapsed and been renewed. In `dependency_graph` a chain of four is
the shortest whose end two hops do not reach; the real limit is twenty.

`MCAccess.cfg` turns deadlock checking off: a church whose last manager lost that
capability by an edit of the level can really do nothing more in the administrators' section.

## 4. Fairness

Only liveness uses it. `SweepGoesOn` is weakly fair: a sweep that has started goes on to its next pass or
ends. `nightly_sweep` is strongly fair: beat starts the job for today every night, and a replay may be in the
way of one night's but not of all. The later passes of a sweep that works for today are strongly
fair: a run may raise between passes (`SweepFails`), or go on past midnight, but not every night for
ever. Those three conditions name the date, so that replays for earlier dates cannot stand in for them. Nothing
is assumed of replays, of requests, of the clock or of `_safe_sync`: an owed sync may never run.
`Converges` is conditional on the edits and the replays ceasing, because administrators may otherwise keep a
list moving and a replay un-lapses what a night has lapsed. `LapseIsSeen` says that some lapsed row leads to
a moment with none, whatever is replayed; an administrator's action may help, and with the
administrators silent only the sweep can.

In SyncRace no request or hook lives for ever (`WF` of `Abandon`); the recompute is run every night
and does not die every night (`SF` of `LoadRecompute` and `RecomputeNext`, because a worker may be busy
with something else now and then).

## 5. What is proved

Assumptions: `RequirementsAssumption`, `EngineAssumption`, `ScreeningAssumption`, `SignInAssumption`,
`CustodyAssumption`, `ReviewAssumption`, `AccessAssumption`, `RemindersAssumption`,
`DependencyAssumption` (that of SyncRace bounds its run). They say only what the code guarantees: `Order`
enumerates the definitions; a criminal record check has a renewal interval; a primary key is unique in its schema and
a password marker everywhere; bounds are numbers. Nothing is assumed
about the number of definitions, the shape of the chain, cycles, or the length of the clock.

**RequirementsProofs** is about the loops, for any number of definitions: the recursive functions
of `sync_volunteer_requirements` and `activate_turning_18_checks` are total (`LoopExists`), and
whatever each iteration keeps the whole pass keeps (`SyncKeeps`, `Turn18Keeps`). A property of
lists is given as the set of lists that have it, so the same lemma serves invariants and action
properties. The induction over the loop index goes through the least index that would fail
(`LeastNatural`, `LoopInduction`). `SyncTrace` gives the pass as a run, from one list to the next, for
the proofs that have to say what was true when the loop came to a definition.

In the same module are the facts about Calendar, for every date (`MonthsAreDates`, `MonthsKeepOrder`,
`StepsNeverLate`, `AdultFromTrigger`, `AdultNeverLate`, `WindowNeverEarly`). They rest on two lemmas:
adding months moves that many months on and keeps the day or clamps it (`MonthsAdd`), and dates
compare by month, then by day (`BeforeIs`). `AdultNeverLate` is the "early is compliance-safe; never
late" of `org/models.py:427`; how early is at most the rest of the month of birth.

**RequirementEngineProofs.** The properties are not inductive by themselves. A row may stop
reading complete only because it lapsed, and a sweep may judge that by a date that has passed; so
`RowOK(i, t)` says of a row with a completion that it reads complete or waived or has lapsed by `t`. A sweep for an
earlier date finds a lapsed row that was given a new deadline not lapsed at all, and turns it
complete with that deadline on it; hence the exception in `SettledRowHasNoDeadline`, which is only such
rows (§6). `Rows` adds that no check is ever waived. `IInv` is `TypeOK` with this for every row. Each row operation keeps `RowOK`
(`CompleteKeepsRow`, `WaiveKeepsRow`, `RecomputeKeepsRow`, ...), one turn of the sync loop keeps
it, and so the loop does. One step lemma per group of actions (records, people, configuration,
syncs, sweep, clock) gives preservation, and `CompletionIsReal`, `CurrentCompletionCounts`,
`SettledRowHasNoDeadline` and `WaiverShownIffWaived` are read off the invariant. `HistoryKept` and
`DecisionsStand` follow in action form: a relation `Preserved` between two lists is kept through
the same loops.

`GateHolds` has a premise, `PrerequisitesFirst`: the church numbers each prerequisite before what waits
for it. Nothing enforces that, and otherwise one pass may not settle a list (§6). With it, a pass
that comes to a gated row has already settled the row it waits for, and does not touch that row again:
`SyncSettlesGates` says that after any pass no row is owed while it waits and no row is parked that
nothing holds back. The second half is needed because the sweep activates the checks of those who
turned 18 after its sync: if a row could be parked for no reason, that step could open what the sync had
closed. `GateClause` states both for a settled list and for a sweep between its two steps, the second for the
date the sweep works for: nobody is younger on a later day (`ParkedEarlier`), so a pass for today leaves a sweep
for an earlier date nothing to open. A write
re-derives the list if anything follows the row (`GateByWrite`); otherwise no gate reads that
row; a configuration edit owes nothing but marks the list stale.

**SyncRaceProofs** proves `DatesBelongTogether` and `OnlyRequestsRecord`, for any number of workers and
definitions. Of an object loaded long ago `RaceInv` says only this: what it shows completed is still
completed on the row (`Behind`). Nothing else of it can be relied on, and nothing else needs to be: a
pass never saves the date columns, a record saves the completion and its renewal together, and a status of
complete is saved only from an object with a completion.

**ScreeningProofs** proves `DisqualifiedHoldNoRole` and `DisqualificationIsPermanent` for Screening
(where requests do not overlap; with overlap they fail, §6), and the refinement `FollowsPolicy`:
initial states map to initial states, and each step to a policy step or a stutter. The mapping is
the identity on block and roles: the policy's point is which moves it leaves out.

`ClearanceIsBacked` is proved there too, for any number of checks. Its premise is `InDateOrder`, because
without it the property is false (§6). `Backed` is the strengthening: each check displaced the one
before it, and the completion in a snapshot is that of an earlier cleared check that is operative, or
that the retraction would make operative. A retraction puts back the snapshot and revives the
displaced check in one transaction, so the clause about snapshots becomes the clause about the row. `RowsExist`
and `CheckRow` are needed because the handlers look the check's row up again each time, and a row may
be created in between.

**SignInProofs** proves `NobodyActsAsAnother` and the refinement `LinksSignInOnce`, for any churches,
people, browsers and bounds. The first is not inductive: a session that does not resolve under one
cookie may resolve under the next. `SessionInv` says that the session itself is nobody's or that of
the person who signed in at that browser, whatever is bound; that the account `Acting` finds is that
person then follows from the uniqueness of the password markers. The second rests on
`LinksInv`, which adds that an unissued link was never used. Each action
of SignIn maps to `Issue`, `SignIn`, `Lapse` or a stutter; the recovery that writes several links at
once and the clock that ages all of them are why the abstract actions work on sets.

`ChallengeAnsweredOnce` follows from `ChallengeInv`: a challenge that was answered is used up, in
whichever schema it lies. Nothing else protects it: a sign-in renews the session key, which loses the
browser its challenges, except when the session already was that person's (`auth_login`). `SignInLands` combines `SessionInv` with the cookie: the account signed in to is
active in an open church, the response leaves that church's cookie unless it drops one, and then
exactly one account answers to the session.

**RemindersProofs** proves `MailedAtMostOnce`, `EverySendIsLogged` and `RTypeOK` for any number of
sweeps, requirements and lead times. `OnePlace` is the heart of `RemindersInv`: every claim is with one
sweep that has not mailed yet, or in one message, and nowhere else. `Logged` says that a sweep holding
a digest finds it in the log with the same entries. A crash only takes claims away from a sweep.

`DeadlineIsRaised` adds `Noticed`: what ran out the day before is raised already or still in the sweep's
hands, and every overdue notice on record was raised after its date. The second half is why finding
the key taken (`IntegrityError` in `raise_reminder`) is no loss: whoever took it raised the same deadline
after it had passed.

**ReviewProofs** proves `OneOpenItem`, `ItemsAreTerminal`, `OnlyUndoingUncovers` and the types for any
recorders, kinds of entry and clock. `SendBackUndoesItsOwn` and `SendBackRestoresDates` have a premise,
`AllReviewed`: every recorder is scoped and what they record is the row itself. Without it they are
false (§6). Their invariant is `ScopedInv`: the pending item is the row's last entry, unless that was a
waiver somebody has reversed; its snapshot is the row as it was before it; and while a waiver stands
the row keeps the dates in that snapshot.

**ChurchProofs** has a part for each of three components that share nothing. Of Access it proves all
five properties of `access`, for any levels, people, departments and files. The four action properties
need only the types: each view is checked against what its maker holds at that moment.

Of Custody it proves `OneKeyPerChurch` and `KeyIsRecoverable`, for any number of processes, keys
and wrappings. Neither is inductive: what is sealed next depends on what each process has cached and
on the registry rows that forms and jobs still hold. `OneKey` says that the row, every cache entry
and every such copy wrap one key, the one the fingerprint names and the escrow holds. `NothingYet`
is needed before a church exists: provisioning sets the key aside without touching the cache, so
nothing older may be there to answer in its place.

There too `EveryRecordHasItsFile` and `BackupComesFirst` come from `DocumentsInv`: while a backup
mark is on the row or on any copy of it somebody is about to save, somebody has confirmed a copy of the
key in use (`Backed`), and an upload about to write its row has its file. With `OneKey` this makes the key of every
sealed file a confirmed one, after restores too.

Of DependencyGraph it proves `DTypeOK` and `OnlyOverlapLoops`, for any number of definitions and
administrators and whatever the hop limit. `Clear(m, d, follows)` is the idea: some set holds the choice, and
with each definition what it follows, and does not hold `d`. A validated edit has such a set, the walk
the check made (`ValidatedIsClear`), and keeps it until somebody else's save changes the graph.
Redirecting `d` into the set makes no loop, since no walk leaves it (`ClearMakesNoLoop`).
`After` is a function defined by recursion over the hops; it is handled through the finite walks
`Hops`, which exist and agree (`HopsExist`, `HopsAgree`, `WalkHops`).

**Only model-checked:** liveness (`LapseIsSeen`, `Converges`, `LateOverdueHeals`: outside the prover's
reach). `GateHolds` without its premise is model-checked on lists in order only, where it holds;
`ClearanceIsBacked` has its premise in the property. Of overlapping screening requests nothing is proved:
what ScreeningRaces shows is a counterexample.

## 6. Where the code and its words disagree

One has a run whose counterexample is a behaviour of the code.

* `races_permanent`: an object loaded before a disqualification passes the guard in
  `set_screening_block`, and its save replaces the permanent block.

The following were found while modelling and have no run. Each is a behaviour the named action
or operator reproduces.

*Requirement lists*

* A sweep for an earlier date (`core/tasks.py:63`: replayed by hand, or reaching a church after midnight) finds a
  requirement that has lapsed since not lapsed. If it was parked in between, by a gate or a lost role, and came
  back with a new deadline, the row then reads complete with that deadline still on it, until a night for
  today turns it overdue again.
* A sync that loaded its rows before a completion was recorded finds it outstanding, and parks the
  completed row when the role has gone (`services.py:100`; "Keep any completed history untouched").
* A request that loaded the row before a waiver completes over it, which is what the docstring of
  `instance_complete` says must not happen (`requirements/views.py:332`).
* Two edits of definitions, each validated before the other is saved, close a loop, although "a loop
  cannot be picked in the first place" (`requirements/forms.py:104`). Every gated requirement in it is
  then not applicable for good, which buckets as satisfied.
* A recompute that brings an old object may turn a row overdue that was waived meanwhile, and no
  later night turns it back (it has no completion). A deadline refresh on an old object may put a deadline on a
  completed row, and a start on an old object makes a completed row read in progress.
* `sync_volunteer_requirements` calls itself idempotent (`services.py:76`), but a gated row created
  with its prerequisite already met is given its deadline only by the next pass.
* `sequence` orders the pass and is free (`requirements/models.py:225`): nothing relates it to
  `must_follow`. When a gated row comes before the adults-only check it waits for, as in `engine_rows`,
  then on the day somebody turns 18 a pass finds the check not applicable, which holds nothing back,
  activates it afterwards and leaves the gated row owed ahead of it until the next pass. Hence the premise
  of `GateHolds` in §5.
* A prerequisite's date corrected to a later one does not move the gated row's deadline, since the
  earlier of the two is kept (`services.py:261`; the comment at 235 says it would).
* `_dependency_cycle` calls every chain of twenty or more requirements a loop (`requirements/models.py:345`).
* The onboarding window counts three months back from today, the deadlines count forward
  (`services.py:1141`): at the ends of months the warning comes up to three days late.

*Screening and review*

* Of two entries on one row the later supersedes the earlier, whose item is closed as "no longer what is
  on file" (`review/recording.py:135`). Sending the later one back restores its snapshot, which is the
  earlier entry: on file again, unreviewed, and out of the queue.
* An approval recorded on a superseded check lifts the block of a newer Not Clear result nobody has
  decided (`record_discretionary_override`, `requirements/services.py:950`).
* Two reviewers who both read an item as pending both decide it: `_close` tests the copy
  (`review/models.py:221`; "All three are terminal", `:217`). Review decides on current copies.
* An entry by someone who needs no review leaves the older item pending (`review/recording.py:110`);
  sending that one back undoes the newer entry. `review_queue` therefore has scoped recorders only.
* A document's snapshot holds no dates (`documents/services.py:259`), so sending it back wipes the
  deadline or the earlier completion. `review_queue` therefore leaves documents out.
* Sending back a check makes the previous one operative again and leaves the retracted one
  operative too (`review/services.py:349`), and lifts a Not Clear block whichever check set it
  (`:353`; the comment says "Only a block this record set").
* A new check displaces one operative check, the latest by report date (`requirements/services.py:657`).
  With several checks of one date, or a back-dated one, that need not be the last recorded: after a
  cleared check, a Not Clear one sent back, and two more Not Clear ones of the same date, sending back the
  third can restore the row to the clearance of the first, which the fourth has displaced. This is the premise
  of `ClearanceIsBacked`.
* Two recorders of one row cannot collide on the index of open items: the save of the row makes the
  second wait until the first has committed, and its entry then supersedes the first's item.
* The rows a disqualification blocks are parked again by the hooks of the assignments it ended.
* A completion that the nightly recompute has moved to overdue counts as changed, so sending it
  back leaves the rejected completion in place (`review/services.py:242`).
* An assignment validated before a disqualification may commit after it.

*Access*

* Editing a level has no counterpart of `would_strand_the_church` (`accounts/views.py:1029`), so the
  last person who can manage access may lose it by an edit of the level they hold. The docstring says
  "Refuse a change that would leave the church with nobody who can manage access"
  (`core/access.py:261`). `StrandedOnlyByLevelEdit` shows it is the only way in a sequential system;
  two removals that overlap each see the other person.
* `own_review_backlog_unlocked_by_removing` is asked when a colleague is deactivated, not when their
  access is changed or their level edited; either also leaves somebody free to affirm their own work.
* Editing a level compares capabilities but no departments, so it may give its holders a capability
  where the editor has none.
* `may_record_against` says that what an administrator records on their own file shows up in the
  review queue (`core/access.py:373`); a church-wide administrator's entries are not queued at all
  (`core/audit.py:89`).

*Sign-in*

* A request that arrives with a cookie for a closed church has that cookie deleted on the way out,
  after the view: a sign-in made by that request sets the new church's cookie and loses it again
  (`core/middleware.py:54`; `tenants/routing.py:15` says every later request is bound). `SignInLands`
  excludes exactly this.
* Of two invitations to one person the second still works quietly after the first was used to enrol
  a passkey: what a link is called is decided when it is issued (`accounts/views.py:574`).

*Reminders*

* Reminders are keyed on the earlier of a row's two dates (`notifications/services.py:112`). A yearly
  requirement that lapsed, was parked when its role ended, and comes back behind a renewed prerequisite
  has a new deadline but still its old expiry; the key of that expiry is taken, so the new deadline gets
  no lead-time notice and no overdue one. The module says "renewing a requirement legitimately starts a
  fresh cycle" (`:14`).
* A claim is made before the digest. A church with notifications off, without a reachable
  administrator, or whose send fails or whose job dies, keeps the claims, so those reminders are never
  mailed (`BUILD_NOTES.md:100` has retries collapse to one email; `core/tasks.py:14` has the next run
  pick up). Lead times match exact dates, so a night without a sweep skips its lead times.

*Keys and documents*

* The settings form saves every column of the church it loaded (`tenants/views.py:183`): a backup
  confirmed meanwhile is undone on the row, and a re-wrapped key is replaced by the older wrapping.
  `KeyIsRecoverable` shows that a re-import from escrow still mends the second.
* "The confirmation is recorded on the church row and in its audit trail" (`tenants/views.py:240`), but in two
  commits (`tenants/models.py:189`, `tenants/views.py:277`): a process that dies between them leaves the
  gate open and nothing in the trail. So does a change of mode (`tenants/services.py:205`, `:208`).
* The confirmation of a backup accepts any ending of the fingerprint, one character included, where its
  label asks for the last four.
* An upload that dies between the file and the row leaves a sealed file nothing refers to.

## 7. What is not modelled

What an edit of a definition's cadence or applicability does to lists that exist: in the engine these
are constants; toggling and the gate mode are actions there, and DependencyGraph changes who follows
whom without any list. A sweep replayed for a date still to come, and two sweeps of one church at once
(RequirementEngine has one at a time, Reminders several); in SyncRace a recompute works for the day it starts on. In RequirementEngine a sync is one action and so is a batch of the nightly
recompute; SyncRace takes them apart for a fixed
definition list, and its run has one definition, so a gate that opens between a load and its save is
modelled but not explored. A reviewer's stale copy of an item.
Superseding document versions (`store_document` takes one, no view passes it) and the checks on an
upload. A birth date that is unknown is RequirementEngine's case, not Calendar's.

In Access each view is one step; the operator's repair commands and the attributes of a volunteer file
are left out. In SignIn: routing by a church's own hostname, rate limits, expiry of the cookie and of
the session, the links the command line issues, and two overlapping posts of one link; a signature
either verifies or not, and is the webauthn library's. A deactivated account's session resumes when
the account is reactivated, and the model has it so. In Reminders: one volunteer, and the wording and
recipients of the digest; whether a church has notifications on or a reachable administrator is
chosen freely at each pass. In Custody: one church, so that "another church's entry" is any other
number; the primitives themselves; the export and verification commands, which change nothing.

Audit rows, reports, the starter template, presentation and deployment: no property modelled here
reads them. `PROJECT.json` lists every component with its status.

## 8. Plan

Extending the model:

1. **Documents** - version chains, supersession, and their send-back; composed with Review.
2. Two views of the administrators' section at once (Access), two posts of one link (SignIn), and a
   reviewer's stale copy of an item (Review), each as its load and its commit.
3. The bucket rule of the reports, from the rows of Requirements.

Runs stay few: a counterexample gives way to a run that asks a new question, and is then described
in §6.

Proving: every safety property of the passing runs is proved, two of them with the premises of §5. What
is left is what a larger model brings (items 1 and 2), and the safety half of the liveness properties:
that a completed recompute leaves no lapsed completion unseen, and that a pass over a settled list in order
changes nothing.
