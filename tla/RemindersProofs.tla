---------------------------- MODULE RemindersProofs ----------------------------
(***************************************************************************)
(* For any number of sweeps, of requirements and of lead times: nothing is *)
(* mailed twice, everything mailed is in the log, and a pass that has      *)
(* finished claiming leaves no deadline of the day before unannounced.     *)
(***************************************************************************)
EXTENDS Reminders, RequirementsProofs

State == [phase : {"idle", "claiming", "mailing", "sent"}, asOf : 0..Horizon,
          todo : SUBSET Entry, claimed : SUBSET Entry, email : Nat,
          lapsed : SUBSET Definition]

Email == [items : SUBSET Entry, status : {"queued", "sent", "failed"}]

Types ==
    /\ inst \in List
    /\ roles \in SUBSET Role /\ serving \in BOOLEAN
    /\ today \in 1..Horizon
    /\ claims \subseteq [entry : Entry, raised : 1..Horizon]
    /\ worker \in [Worker -> State]
    /\ emails \in Seq(Email) /\ Len(emails) <= MaxDigests
    /\ \A w \in Worker : worker[w].email \in 0..Len(emails)
    /\ outbox \in Seq(SUBSET Entry)
    /\ moves \in 0..MaxMoves

Claimed == {c.entry : c \in claims}

\* Whose claims the provider has not been given.
Unsent == {w \in Worker : worker[w].phase \in {"claiming", "mailing"}}

\* Every claim is in one place: with one sweep, or in one message.
OnePlace ==
    /\ \A w \in Worker : worker[w].claimed \subseteq Claimed
    /\ \A m \in DOMAIN outbox : outbox[m] \subseteq Claimed
    /\ \A w, v \in Worker : w # v => worker[w].claimed \cap worker[v].claimed = {}
    /\ \A w \in Unsent : \A m \in DOMAIN outbox : worker[w].claimed \cap outbox[m] = {}
    /\ MailedAtMostOnce

\* A sweep that holds a digest finds it in the log, with the same entries.
Logged ==
    /\ \A w \in Worker : worker[w].phase \in {"mailing", "sent"} =>
          /\ worker[w].email \in DOMAIN emails
          /\ emails[worker[w].email].items = worker[w].claimed
    /\ EverySendIsLogged

RemindersInv == Types /\ OnePlace /\ Logged

-----------------------------------------------------------------------------
(* The rows stay rows.                                                       *)

\* A completion of either kind, and what follows from it.
LEMMA WriteIsList ==
    ASSUME NEW l \in List, NEW c \in Context, NEW asOf, NEW d \in Definition, NEW date \in Nat
    PROVE  /\ refresh_dependents([l EXCEPT ![d] = mark_complete(@, d, date)], c, asOf, d) \in List
           /\ refresh_dependents([l EXCEPT ![d] = clear_crc(@, date)], c, asOf, d) \in List
<1>1. l[d] \in Instance
  BY DEF List
<1>2. Interval[d] \in Nat /\ CrcMonths \in Nat
  BY RequirementsAssumption DEF RequirementsAssumption
<1>3. expiry_for(d, date) \in Nat
  BY <1>2 DEF expiry_for, NoDate
<1>4. mark_complete(l[d], d, date) \in Instance /\ clear_crc(l[d], date) \in Instance
  <2>1. mark_complete(l[d], d, date) \in Instance
    BY <1>1, <1>3 DEF mark_complete, Instance, Status, NoDate
  <2>2. date + CrcMonths \in Nat
    BY <1>2
  <2>3. clear_crc(l[d], date) \in Instance
    BY <1>1, <2>2 DEF clear_crc, Instance, Status, NoDate
  <2>4. QED  BY <2>1, <2>3
<1>5. /\ [l EXCEPT ![d] = mark_complete(@, d, date)] \in List
      /\ [l EXCEPT ![d] = clear_crc(@, date)] \in List
  BY <1>4 DEF List
<1>6. QED  BY <1>5, SyncIsList DEF refresh_dependents

LEMMA DueDateIsDate ==
    ASSUME NEW i \in Instance, i.expires # NoDate \/ i.due # NoDate
    PROVE  effective_due_date(i) \in Date
  BY DEF effective_due_date, Instance, Date, NoDate

\* What a sweep finds owed has the date the claim is keyed by.
LEMMA DueAreEntries ==
    ASSUME NEW l \in List, NEW asOf \in Date
    PROVE  find_due_reminders(l, asOf) \subseteq Entry
<1>1. \A d \in Definition : l[d] \in Instance
  BY DEF List
<1>2. approaching(l, asOf) \subseteq Entry
  <2>1. ASSUME NEW n \in LeadDays, NEW d \in Definition, Nears(l[d], n, asOf)
        PROVE  [instance |-> d,
                kind |-> IF TurnedEighteen(d, l[d]) THEN "turning_18" ELSE "lead_time",
                lead |-> n, date |-> effective_due_date(l[d])] \in Entry
    <3>1. n \in Nat \ {0}
      BY RemindersAssumption DEF RemindersAssumption
    <3>2. asOf + n # 0
      BY <3>1 DEF Date
    <3>3. effective_due_date(l[d]) \in Date
      BY <1>1, <2>1, <3>2, DueDateIsDate DEF Nears, NoDate
    <3>4. QED  BY <3>1, <3>3 DEF Entry
  <2>2. QED  BY <2>1 DEF approaching
<1>3. newly_overdue(l, asOf) \subseteq Entry
  <2>1. ASSUME NEW d \in Definition, asOf > 1, asOf - 1 \in {l[d].expires, l[d].due}
        PROVE  [instance |-> d, kind |-> "overdue", lead |-> 0,
                date |-> effective_due_date(l[d])] \in Entry
    <3>1. asOf - 1 # 0
      BY <2>1 DEF Date
    <3>2. effective_due_date(l[d]) \in Date
      BY <1>1, <2>1, <3>1, DueDateIsDate DEF NoDate
    <3>3. QED  BY <3>2 DEF Entry
  <2>2. QED  BY <2>1 DEF newly_overdue
<1>4. QED  BY <1>2, <1>3 DEF find_due_reminders

-----------------------------------------------------------------------------
LEMMA ContextIs ==
    ASSUME NEW held \in SUBSET Role
    PROVE  [ctx EXCEPT !.roles = held] \in Context /\ (roles = held => ctx \in Context)
<1>1. AdultFrom \in Nat /\ Gateable \subseteq Definition
  BY RemindersAssumption DEF RemindersAssumption, Gateable
<1>2. QED  BY <1>1 DEF ctx, Context

LEMMA IdleIs == Idle \in State /\ Idle.phase = "idle" /\ Idle.claimed = {} /\ Idle.email = 0
<1>1. NoDate \in 0..Horizon
  BY RemindersAssumption DEF RemindersAssumption, Date, NoDate
<1>2. QED  BY <1>1 DEF Idle, State

LEMMA RemindersInit == RInit => RemindersInv
<1> SUFFICES ASSUME RInit PROVE RemindersInv
  OBVIOUS
<1>1. inst \in List
  <2> DEFINE none == [d \in Definition |-> Absent]
  <2>1. none \in List
    BY BlankIsInstance DEF List
  <2>2. ctx \in Context
    BY ContextIs DEF RInit
  <2> HIDE DEF none
  <2>3. sync_volunteer_requirements(none, ctx, today) \in List
    BY <2>1, <2>2, SyncIsList
  <2>4. QED  BY <2>3 DEF RInit, none
<1>2. Types
  <2>1. 1 \in 1..Horizon /\ 0 <= MaxDigests /\ 0 \in 0..MaxMoves
    BY RemindersAssumption DEF RemindersAssumption, Date
  <2>2. /\ emails = <<>> /\ outbox = <<>> /\ claims = {} /\ today = 1 /\ moves = 0
        /\ roles = Role /\ serving = TRUE /\ worker = [w \in Worker |-> Idle]
    BY DEF RInit
  <2>3. QED  BY <1>1, <2>1, <2>2, IdleIs DEF Types
<1>3. OnePlace
  BY IdleIs DEF RInit, OnePlace, Unsent, MailedAtMostOnce
<1>4. Logged
  BY IdleIs DEF RInit, Logged, EverySendIsLogged
<1>5. QED  BY <1>2, <1>3, <1>4 DEF RemindersInv

-----------------------------------------------------------------------------
(* The parts of a pass.                                                      *)

\* What the office and the clock do leaves claims and mail alone.
LEMMA PostStands ==
    ASSUME RemindersInv, Types', UNCHANGED <<claims, worker, post>>
    PROVE  RemindersInv'
<1>1. OnePlace'
  BY DEF RemindersInv, OnePlace, Claimed, Unsent, MailedAtMostOnce, post
<1>2. Logged'
  BY DEF RemindersInv, Logged, EverySendIsLogged, post
<1>3. QED  BY <1>1, <1>2 DEF RemindersInv

\* A sweep that drops what it holds, or starts holding nothing.
LEMMA EmptyHanded ==
    ASSUME RemindersInv, Types', NEW w \in Worker, NEW state \in State,
           Set(w, state), state.claimed = {}, state.phase \in {"idle", "claiming"},
           UNCHANGED <<claims, post>>
    PROVE  RemindersInv'
<1>1. /\ worker'[w] = state
      /\ \A v \in Worker \ {w} : worker'[v] = worker[v]
  BY DEF RemindersInv, Types, Set
<1>2. OnePlace'
  <2>1. \A v \in Worker : worker'[v].claimed \subseteq worker[v].claimed
    BY <1>1
  <2>2. \A v \in Unsent' : worker'[v].claimed = {} \/ v \in Unsent
    BY <1>1 DEF Unsent
  <2>3. outbox' = outbox /\ Claimed' = Claimed
    BY DEF post, Claimed
  <2>4. /\ \A v \in Worker : worker'[v].claimed \subseteq Claimed'
        /\ \A m \in DOMAIN outbox' : outbox'[m] \subseteq Claimed'
    BY <2>1, <2>3 DEF RemindersInv, OnePlace
  <2>5. \A u, v \in Worker : u # v => worker'[u].claimed \cap worker'[v].claimed = {}
    BY <2>1 DEF RemindersInv, OnePlace
  <2>6. \A v \in Unsent' : \A m \in DOMAIN outbox' : worker'[v].claimed \cap outbox'[m] = {}
    BY <2>1, <2>2, <2>3 DEF RemindersInv, OnePlace, Unsent
  <2>7. QED
    BY <2>3, <2>4, <2>5, <2>6 DEF RemindersInv, OnePlace, MailedAtMostOnce
<1>3. Logged'
  BY <1>1 DEF RemindersInv, Logged, EverySendIsLogged, post
<1>4. QED  BY <1>2, <1>3 DEF RemindersInv

LEMMA SweepKeeps ==
    ASSUME RemindersInv, NEW w \in Worker, NEW asOf \in Replayed \cup {today},
           sweep_tenant(w, asOf)
    PROVE  RemindersInv'
<1> DEFINE state == [Idle EXCEPT !.phase = "claiming", !.asOf = asOf,
                        !.todo = find_due_reminders(inst', asOf),
                        !.lapsed = RanOut(inst', asOf)]
<1>1. asOf \in Date /\ asOf \in 0..Horizon /\ asOf <= today
  BY RemindersAssumption DEF RemindersAssumption, RemindersInv, Types, sweep_tenant, Date
<1>2. inst' \in List
  <2>1. inst \in List /\ ctx \in Context
    BY ContextIs DEF RemindersInv, Types
  <2> DEFINE synced == sync_volunteer_requirements(inst, ctx, asOf)
             rows == activate_turning_18_checks(synced, ctx, asOf)
  <2>2. synced \in List
    BY <2>1, SyncIsList
  <2> HIDE DEF synced
  <2>3. rows \in List
    BY <2>1, <2>2, Turn18IsList
  <2> HIDE DEF rows
  <2>4. [d \in Definition |-> recompute(rows[d], asOf)] \in List
    BY <2>3, RecomputeIsInstance DEF List
  <2>5. QED  BY <2>1, <2>4 DEF sweep_tenant, rows, synced
<1>3. find_due_reminders(inst', asOf) \subseteq Entry
  BY <1>1, <1>2, DueAreEntries
<1>4. state \in State /\ state.claimed = {} /\ state.phase = "claiming" /\ state.email = 0
  <2>1. RanOut(inst', asOf) \subseteq Definition
    BY DEF RanOut
  <2>2. QED  BY <1>1, <1>3, <2>1, IdleIs DEF Idle, State
<1>5. Set(w, state) /\ UNCHANGED <<person, today, claims, post>>
  BY DEF sweep_tenant
<1> HIDE DEF state
<1>6. Types'
  <2>1. worker' \in [Worker -> State]
    BY <1>4, <1>5 DEF RemindersInv, Types, Set
  <2>2. \A v \in Worker : worker'[v].email \in 0..Len(emails')
    BY <1>4, <1>5 DEF RemindersInv, Types, Set, post
  <2>3. QED  BY <1>2, <1>5, <2>1, <2>2 DEF RemindersInv, Types, person, post
<1>7. QED  BY <1>4, <1>5, <1>6, EmptyHanded

\* The unique index: what a sweep claims, nobody had claimed.
LEMMA ClaimKeeps ==
    ASSUME RemindersInv, NEW w \in Worker, NEW entry, raise_reminder(w, entry)
    PROVE  RemindersInv'
<1> USE DEF RemindersInv
<1>1. /\ worker[w].phase = "claiming" /\ worker[w] \in State
      /\ entry \in worker[w].todo /\ entry \in Entry
  BY DEF raise_reminder, Types, State
<1>2. CASE Raised(entry)
  <2> DEFINE state == [worker[w] EXCEPT !.todo = @ \ {entry}]
  <2>1. claims' = claims /\ Set(w, state) /\ UNCHANGED <<inst, person, today, post>>
    BY <1>2 DEF raise_reminder, ClaimEntry
  <2>2. /\ state \in State /\ state.claimed = worker[w].claimed
        /\ state.phase = worker[w].phase /\ state.email = worker[w].email
    BY <1>1 DEF State
  <2> HIDE DEF state
  <2>3. /\ worker' \in [Worker -> State]
        /\ \A v \in Worker : /\ worker'[v].claimed = worker[v].claimed
                             /\ worker'[v].phase = worker[v].phase
                             /\ worker'[v].email = worker[v].email
    BY <2>1, <2>2 DEF Types, Set
  <2>4. Types'
    BY <2>1, <2>3 DEF Types, person, post
  <2>5. OnePlace'
    BY <2>1, <2>3 DEF OnePlace, Claimed, Unsent, MailedAtMostOnce, post
  <2>6. Logged'
    BY <2>1, <2>3 DEF Logged, EverySendIsLogged, post
  <2>7. QED  BY <2>4, <2>5, <2>6
<1>3. CASE ~Raised(entry)
  <2> DEFINE state == [worker[w] EXCEPT !.todo = @ \ {entry}, !.claimed = @ \cup {entry}]
  <2>1. /\ claims' = claims \cup {[entry |-> entry, raised |-> today]}
        /\ Set(w, state) /\ UNCHANGED <<inst, person, today, post>>
    BY <1>3 DEF raise_reminder, ClaimEntry
  <2>2. /\ state \in State /\ state.claimed = worker[w].claimed \cup {entry}
        /\ state.phase = "claiming" /\ state.email = worker[w].email
    BY <1>1 DEF State
  <2> HIDE DEF state
  <2>3. /\ worker' \in [Worker -> State] /\ worker'[w] = state
        /\ \A v \in Worker \ {w} : worker'[v] = worker[v]
    BY <2>1, <2>2 DEF Types, Set
  <2>4. Types'
    <3>1. claims' \subseteq [entry : Entry, raised : 1..Horizon]
      BY <1>1, <2>1 DEF Types
    <3>2. \A v \in Worker : worker'[v].email \in 0..Len(emails')
      BY <2>1, <2>2, <2>3 DEF Types, post
    <3>3. QED  BY <2>1, <2>3, <3>1, <3>2 DEF Types, person, post
  <2>5. entry \notin Claimed /\ Claimed' = Claimed \cup {entry}
    <3> DEFINE made == [entry |-> entry, raised |-> today]
    <3>1. made.entry = entry /\ claims' = claims \cup {made}
      BY <2>1
    <3> HIDE DEF made
    <3>2. Claimed' = {c.entry : c \in claims \cup {made}}
      BY <3>1 DEF Claimed
    <3>3. QED  BY <1>3, <3>1, <3>2 DEF Raised, Claimed
  <2>6. OnePlace'
    <3>1. outbox' = outbox /\ Unsent' \subseteq Unsent
      BY <1>1, <2>1, <2>2, <2>3 DEF post, Unsent
    <3>2. \A v \in Worker : worker'[v].claimed \subseteq Claimed'
      BY <2>2, <2>3, <2>5 DEF OnePlace
    <3>3. \A m \in DOMAIN outbox' : outbox'[m] \subseteq Claimed'
      BY <2>5, <3>1 DEF OnePlace
    <3>4. \A u, v \in Worker : u # v => worker'[u].claimed \cap worker'[v].claimed = {}
      BY <2>2, <2>3, <2>5 DEF OnePlace
    <3>5. \A v \in Unsent' : \A m \in DOMAIN outbox' :
             worker'[v].claimed \cap outbox'[m] = {}
      BY <2>2, <2>3, <2>5, <3>1 DEF OnePlace, Unsent
    <3>6. QED
      BY <3>1, <3>2, <3>3, <3>4, <3>5 DEF OnePlace, MailedAtMostOnce
  <2>7. Logged'
    BY <2>1, <2>2, <2>3 DEF Logged, EverySendIsLogged, post
  <2>8. QED  BY <2>4, <2>6, <2>7
<1>4. QED  BY <1>2, <1>3

\* A sweep that ends without mailing, or dies.
LEMMA DropKeeps ==
    ASSUME RemindersInv, NEW w \in Worker,
           Set(w, Idle), UNCHANGED <<inst, person, today, claims, post>>
    PROVE  RemindersInv'
<1>1. /\ worker' \in [Worker -> State]
      /\ \A v \in Worker : worker'[v].email \in 0..Len(emails)
  BY IdleIs DEF RemindersInv, Types, Set
<1>2. Types'
  BY <1>1 DEF RemindersInv, Types, person, post
<1>3. QED  BY <1>2, IdleIs, EmptyHanded

\* The digest is logged before the provider sees it.
LEMMA QueueKeeps ==
    ASSUME RemindersInv, NEW w \in Worker, NEW stale, send_digest(w, stale)
    PROVE  RemindersInv'
<1> USE DEF RemindersInv
<1> DEFINE state == [Idle EXCEPT !.phase = "mailing", !.claimed = worker[w].claimed,
                                 !.email = Len(emails) + 1]
<1>1. /\ worker[w].phase = "claiming" /\ Len(emails) < MaxDigests
      /\ emails' = Append(emails, QueueRow(w)) /\ Set(w, state)
      /\ UNCHANGED <<inst, person, today, claims, outbox>>
  BY DEF send_digest, queue_digest, Mailing
<1>2. /\ emails \in Seq(Email) /\ Len(emails) \in Nat /\ worker[w].claimed \subseteq Entry
      /\ MaxDigests \in Nat
  BY RemindersAssumption DEF Types, State, RemindersAssumption
<1>3. QueueRow(w) \in Email /\ QueueRow(w).items = worker[w].claimed
  BY <1>2 DEF QueueRow, Email
<1>4. /\ emails' \in Seq(Email) /\ Len(emails') = Len(emails) + 1
      /\ \A n \in DOMAIN emails : n \in DOMAIN emails' /\ emails'[n] = emails[n]
      /\ emails'[Len(emails) + 1] = QueueRow(w)
  BY <1>1, <1>2, <1>3
<1>5. /\ state \in State /\ state.claimed = worker[w].claimed
      /\ state.phase = "mailing" /\ state.email = Len(emails) + 1
  <2> DEFINE held == worker[w].claimed
             next == Len(emails) + 1
  <2>1. held \in SUBSET Entry /\ next \in Nat
    BY <1>2
  <2>2. state = [Idle EXCEPT !.phase = "mailing", !.claimed = held, !.email = next]
    OBVIOUS
  <2> HIDE DEF held, next, state
  <2>3. state \in State /\ state.claimed = held /\ state.phase = "mailing" /\ state.email = next
    BY <2>1, <2>2, IdleIs DEF State
  <2>4. QED  BY <2>3 DEF held, next
<1> HIDE DEF state
<1>6. /\ worker' \in [Worker -> State] /\ worker'[w] = state
      /\ \A v \in Worker \ {w} : worker'[v] = worker[v]
  BY <1>1, <1>5 DEF Types, Set
<1>7. Types'
  <2>1. \A v \in Worker : worker'[v].email \in 0..Len(emails')
    BY <1>2, <1>4, <1>5, <1>6 DEF Types
  <2>2. QED  BY <1>1, <1>2, <1>4, <1>6, <2>1 DEF Types, person
<1>8. OnePlace'
  <2>1. \A v \in Worker : worker'[v].claimed = worker[v].claimed
    BY <1>5, <1>6
  <2>2. Unsent' = Unsent /\ outbox' = outbox /\ Claimed' = Claimed
    BY <1>1, <1>5, <1>6 DEF Unsent, Claimed
  <2>3. MailedAtMostOnce'
    BY <2>2 DEF OnePlace, MailedAtMostOnce
  <2>4. \A v \in Unsent' : \A m \in DOMAIN outbox' : worker'[v].claimed \cap outbox'[m] = {}
    BY <2>1, <2>2 DEF OnePlace, Unsent
  <2>5. QED  BY <2>1, <2>2, <2>3, <2>4 DEF OnePlace
<1>9. Logged'
  <2>1. EverySendIsLogged'
    BY <1>1, <1>4 DEF Logged, EverySendIsLogged
  <2>2. ASSUME NEW v \in Worker, worker'[v].phase \in {"mailing", "sent"}
        PROVE  /\ worker'[v].email \in DOMAIN emails'
               /\ emails'[worker'[v].email].items = worker'[v].claimed
    <3>1. CASE v = w
      BY <1>2, <1>3, <1>4, <1>5, <1>6, <3>1
    <3>2. CASE v # w
      BY <1>4, <1>6, <2>2, <3>2 DEF Logged
    <3>3. QED  BY <3>1, <3>2
  <2>3. QED  BY <2>1, <2>2 DEF Logged
<1>10. QED  BY <1>7, <1>8, <1>9

\* The provider takes a message: its entries were with this sweep and nowhere else.
LEMMA Delivered ==
    ASSUME RemindersInv, NEW w \in Worker, NEW state \in State,
           worker[w].phase = "mailing",
           Set(w, state), state.phase \in {"idle", "sent"},
           state.claimed \subseteq worker[w].claimed,
           outbox' = Append(outbox, worker[w].claimed), UNCHANGED claims,
           Len(emails') = Len(emails), DOMAIN emails' = DOMAIN emails,
           \A n \in DOMAIN emails : emails'[n].items = emails[n].items
    PROVE  outbox' \in Seq(SUBSET Entry) /\ OnePlace' /\ EverySendIsLogged'
<1> USE DEF RemindersInv
<1> DEFINE last == Len(outbox) + 1
<1>1. /\ outbox \in Seq(SUBSET Entry) /\ Len(outbox) \in Nat
      /\ worker[w].claimed \subseteq Entry /\ w \in Unsent
  BY DEF Types, State, Unsent
<1>2. /\ outbox' \in Seq(SUBSET Entry)
      /\ DOMAIN outbox' = DOMAIN outbox \cup {last} /\ last \notin DOMAIN outbox
      /\ \A m \in DOMAIN outbox : outbox'[m] = outbox[m]
      /\ outbox'[last] = worker[w].claimed
  BY <1>1
<1> HIDE DEF last
<1>3. /\ worker'[w] = state
      /\ \A v \in Worker \ {w} : worker'[v] = worker[v]
  BY DEF Types, Set
<1>4. Claimed' = Claimed
  BY DEF Claimed
<1>5. OnePlace'
  <2>1. \A v \in Worker : worker'[v].claimed \subseteq worker[v].claimed
    BY <1>3
  <2>2. \A v \in Unsent' : v \in Unsent /\ v # w
    BY <1>3 DEF Unsent
  <2>3. /\ \A v \in Worker : worker'[v].claimed \subseteq Claimed'
        /\ \A u, v \in Worker : u # v => worker'[u].claimed \cap worker'[v].claimed = {}
    BY <1>4, <2>1 DEF OnePlace
  <2>4. \A m \in DOMAIN outbox' : outbox'[m] \subseteq Claimed'
    BY <1>2, <1>4 DEF OnePlace
  <2>5. \A v \in Unsent' : \A m \in DOMAIN outbox' : worker'[v].claimed \cap outbox'[m] = {}
    <3>1. \A v \in Unsent' : v \in Worker /\ worker'[v].claimed \cap worker[w].claimed = {}
      BY <2>1, <2>2 DEF OnePlace, Unsent
    <3>2. QED  BY <1>2, <2>1, <2>2, <3>1 DEF OnePlace
  <2>6. MailedAtMostOnce'
    <3>1. \A m \in DOMAIN outbox : outbox[m] \cap worker[w].claimed = {}
      BY <1>1 DEF OnePlace
    <3>2. QED  BY <1>2, <3>1 DEF OnePlace, MailedAtMostOnce
  <2>7. QED  BY <2>3, <2>4, <2>5, <2>6 DEF OnePlace
<1>6. EverySendIsLogged'
  <2>1. worker[w].email \in DOMAIN emails /\ emails[worker[w].email].items = worker[w].claimed
    BY DEF Logged
  <2>2. \E n \in DOMAIN emails' : emails'[n].items = outbox'[last]
    BY <1>2, <2>1
  <2>3. ASSUME NEW m \in DOMAIN outbox
        PROVE  \E n \in DOMAIN emails' : emails'[n].items = outbox'[m]
    <3>1. PICK n \in DOMAIN emails : emails[n].items = outbox[m]
      BY DEF Logged, EverySendIsLogged
    <3>2. QED  BY <1>2, <3>1
  <2>4. QED  BY <1>2, <2>2, <2>3 DEF EverySendIsLogged
<1>7. QED  BY <1>2, <1>5, <1>6

\* Saving an outcome changes the status of one row of the log.
LEMMA OutcomeIs ==
    ASSUME Types, NEW w \in Worker, NEW status \in {"sent", "failed"}, Outcome(w, status)
    PROVE  /\ emails' \in Seq(Email) /\ Len(emails') = Len(emails)
           /\ DOMAIN emails' = DOMAIN emails
           /\ \A n \in DOMAIN emails : emails'[n].items = emails[n].items
<1>1. emails \in Seq(Email) /\ \A n \in DOMAIN emails : emails[n] \in Email
  BY DEF Types
<1>2. \A n \in DOMAIN emails :
         /\ [emails[n] EXCEPT !.status = status] \in Email
         /\ [emails[n] EXCEPT !.status = status].items = emails[n].items
  BY <1>1 DEF Email
<1>3. emails' = [emails EXCEPT ![worker[w].email] = [emails[worker[w].email] EXCEPT !.status = status]]
  BY DEF Outcome
<1> DEFINE row == [emails[worker[w].email] EXCEPT !.status = status]
<1>4. worker[w].email \in DOMAIN emails =>
        row \in Email /\ row.items = emails[worker[w].email].items
  BY <1>2
<1> HIDE DEF row
<1>5. CASE worker[w].email \in DOMAIN emails
  <2>1. emails' = [emails EXCEPT ![worker[w].email] = row]
    BY <1>3 DEF row
  <2>2. emails' \in Seq(Email) /\ Len(emails') = Len(emails) /\ DOMAIN emails' = DOMAIN emails
    BY <1>1, <1>4, <1>5, <2>1
  <2>3. \A n \in DOMAIN emails : emails'[n] = IF n = worker[w].email THEN row ELSE emails[n]
    BY <1>1, <2>1
  <2>4. QED  BY <1>4, <2>2, <2>3
<1>6. CASE worker[w].email \notin DOMAIN emails
  <2>1. emails' = emails
    BY <1>1, <1>3, <1>6
  <2>2. QED  BY <1>1, <2>1
<1>7. QED  BY <1>5, <1>6

LEMMA ProviderKeeps ==
    ASSUME RemindersInv, NEW w \in Worker, provider_send(w)
    PROVE  RemindersInv'
<1> USE DEF RemindersInv
<1> DEFINE state == [worker[w] EXCEPT !.phase = "sent"]
<1>1. /\ worker[w].phase = "mailing" /\ outbox' = Append(outbox, worker[w].claimed)
      /\ Set(w, state) /\ UNCHANGED <<inst, person, today, claims, emails>>
  BY DEF provider_send
<1>2. /\ state \in State /\ state.phase = "sent" /\ state.claimed = worker[w].claimed
      /\ state.email = worker[w].email
  BY DEF Types, State
<1> HIDE DEF state
<1>3. outbox' \in Seq(SUBSET Entry) /\ OnePlace' /\ EverySendIsLogged'
  BY <1>1, <1>2, Delivered
<1>4. /\ worker' \in [Worker -> State]
      /\ \A v \in Worker : /\ worker'[v].email = worker[v].email
                           /\ worker'[v].claimed = worker[v].claimed
                           /\ worker'[v].phase \in {worker[v].phase, "sent"}
                           /\ v # w => worker'[v].phase = worker[v].phase
  BY <1>1, <1>2 DEF Types, Set
<1>5. Types'
  BY <1>1, <1>3, <1>4 DEF Types, person
<1>6. Logged'
  BY <1>1, <1>3, <1>4 DEF Logged
<1>7. QED  BY <1>3, <1>5, <1>6

LEMMA MarkKeeps ==
    ASSUME RemindersInv, NEW w \in Worker, NEW delivered \in BOOLEAN,
           mark_sent(w) \/ mark_failed(w, delivered)
    PROVE  RemindersInv'
<1> USE DEF RemindersInv
<1>1. /\ Set(w, Idle) /\ UNCHANGED <<inst, person, today, claims>>
      /\ Outcome(w, "sent") \/ Outcome(w, "failed")
      /\ worker[w].phase \in {"mailing", "sent"}
      /\ \/ outbox' = outbox
         \/ worker[w].phase = "mailing" /\ outbox' = Append(outbox, worker[w].claimed)
  BY DEF mark_sent, mark_failed
<1>2. /\ emails' \in Seq(Email) /\ Len(emails') = Len(emails)
      /\ DOMAIN emails' = DOMAIN emails
      /\ \A n \in DOMAIN emails : emails'[n].items = emails[n].items
  BY <1>1, OutcomeIs
<1>3. /\ worker' \in [Worker -> State] /\ worker'[w] = Idle
      /\ \A v \in Worker \ {w} : worker'[v] = worker[v]
      /\ \A v \in Worker : worker'[v].email \in 0..Len(emails)
  BY <1>1, IdleIs DEF Types, Set
<1>4. outbox' \in Seq(SUBSET Entry) /\ OnePlace' /\ EverySendIsLogged'
  <2>1. CASE outbox' = outbox
    <3>1. Claimed' = Claimed
      BY <1>1 DEF Claimed
    <3>2. /\ \A v \in Worker : worker'[v].claimed \subseteq worker[v].claimed
          /\ Unsent' \subseteq Unsent
      BY <1>3, IdleIs DEF Unsent
    <3>3. OnePlace'
      BY <2>1, <3>1, <3>2 DEF OnePlace, MailedAtMostOnce, Unsent
    <3>4. EverySendIsLogged'
      BY <1>2, <2>1 DEF Logged, EverySendIsLogged
    <3>5. QED  BY <2>1, <3>3, <3>4 DEF Types
  <2>2. CASE worker[w].phase = "mailing" /\ outbox' = Append(outbox, worker[w].claimed)
    BY <1>1, <1>2, <2>2, IdleIs, Delivered
  <2>3. QED  BY <1>1, <2>1, <2>2
<1>5. Types'
  BY <1>1, <1>2, <1>3, <1>4 DEF Types, person
<1>6. Logged'
  BY <1>2, <1>3, <1>4, IdleIs DEF Logged
<1>7. QED  BY <1>4, <1>5, <1>6

LEMMA PassKeeps ==
    ASSUME RemindersInv, Pass
    PROVE  RemindersInv'
<1>1. PICK w \in Worker :
         \/ \E asOf \in Replayed \cup {today} : sweep_tenant(w, asOf)
         \/ \E entry \in worker[w].todo : raise_reminder(w, entry)
         \/ \E stale \in Backlog : \/ send_digest(w, stale)
                                   \/ \E enabled, reachable \in BOOLEAN :
                                        send_nothing(w, stale, enabled, reachable)
         \/ \E delivered \in BOOLEAN : mark_failed(w, delivered)
         \/ provider_send(w) \/ mark_sent(w)
         \/ Crash(w)
  BY DEF Pass
<1>2. ASSUME NEW asOf \in Replayed \cup {today}, sweep_tenant(w, asOf) PROVE RemindersInv'
  BY <1>2, SweepKeeps
<1>3. ASSUME NEW entry \in worker[w].todo, raise_reminder(w, entry) PROVE RemindersInv'
  BY <1>3, ClaimKeeps
<1>4. ASSUME NEW stale \in Backlog, send_digest(w, stale) PROVE RemindersInv'
  BY <1>4, QueueKeeps
<1>5. ASSUME NEW stale \in Backlog, NEW enabled \in BOOLEAN, NEW reachable \in BOOLEAN,
             send_nothing(w, stale, enabled, reachable)
      PROVE  RemindersInv'
  BY <1>5, DropKeeps DEF send_nothing
<1>6. ASSUME NEW delivered \in BOOLEAN, mark_failed(w, delivered) PROVE RemindersInv'
  BY <1>6, MarkKeeps
<1>7. ASSUME provider_send(w) PROVE RemindersInv'
  BY <1>7, ProviderKeeps
<1>8. ASSUME mark_sent(w) PROVE RemindersInv'
  BY <1>8, TRUE \in BOOLEAN, MarkKeeps
<1>9. ASSUME Crash(w) PROVE RemindersInv'
  BY <1>9, DropKeeps DEF Crash
<1>10. QED  BY <1>1, <1>2, <1>3, <1>4, <1>5, <1>6, <1>7, <1>8, <1>9

LEMMA OfficeKeeps ==
    ASSUME RemindersInv, Office
    PROVE  RemindersInv'
<1> USE DEF RemindersInv
<1>0. /\ inst \in List /\ ctx \in Context /\ today \in Nat
      /\ moves \in Nat /\ MaxMoves \in Nat
  <2>1. inst \in List /\ ctx \in Context
    BY ContextIs DEF Types
  <2>2. Horizon \in Nat /\ MaxMoves \in Nat
    BY RemindersAssumption DEF RemindersAssumption, Date
  <2>3. today \in Nat /\ moves \in Nat
    BY <2>2 DEF Types
  <2>4. QED  BY <2>1, <2>2, <2>3
<1>1. ASSUME NEW d \in Recorded, mark_requirement_complete(d) \/ record_crc_cleared(d)
      PROVE  RemindersInv'
  <2>1. d \in Definition
    BY RemindersAssumption DEF RemindersAssumption
  <2>2. inst' \in List
    <3>1. /\ refresh_dependents([inst EXCEPT ![d] = mark_complete(@, d, today)],
                                ctx, today, d) \in List
          /\ refresh_dependents([inst EXCEPT ![d] = clear_crc(@, today)], ctx, today, d) \in List
      BY <1>0, <2>1, WriteIsList
    <3>2. QED  BY <1>1, <3>1 DEF mark_requirement_complete, record_crc_cleared
  <2>3. /\ UNCHANGED <<roles, serving, today, claims, worker, emails, outbox>>
        /\ moves' \in 0..MaxMoves
    BY <1>0, <1>1 DEF mark_requirement_complete, record_crc_cleared, Meanwhile, Move, post
  <2>4. Types'
    BY <2>2, <2>3 DEF Types
  <2>5. QED  BY <2>3, <2>4, PostStands DEF post
<1>2. ASSUME NEW r \in Changing, change_roles(r)
      PROVE  RemindersInv'
  <2>1. roles' \in SUBSET Role
    BY <1>2, RemindersAssumption DEF RemindersAssumption, change_roles, Types
  <2>2. inst' \in List
    BY <1>0, <1>2, <2>1, ContextIs, SyncIsList DEF change_roles
  <2>3. /\ UNCHANGED <<serving, today, claims, worker, emails, outbox>>
        /\ moves' \in 0..MaxMoves
    BY <1>0, <1>2 DEF change_roles, Meanwhile, Move, post
  <2>4. Types'
    BY <2>1, <2>2, <2>3 DEF Types
  <2>5. QED  BY <2>3, <2>4, PostStands DEF post
<1>3. ASSUME volunteer_toggle_active
      PROVE  RemindersInv'
  <2>1. /\ UNCHANGED <<inst, roles, today, claims, worker, emails, outbox>>
        /\ moves' \in 0..MaxMoves /\ serving' \in BOOLEAN
    BY <1>0, <1>3 DEF volunteer_toggle_active, Meanwhile, Move, post
  <2>2. Types'
    BY <2>1 DEF Types
  <2>3. QED  BY <2>1, <2>2, PostStands DEF post
<1>4. ASSUME Tick
      PROVE  RemindersInv'
  <2>1. /\ UNCHANGED <<inst, roles, serving, moves, claims, worker, emails, outbox>>
        /\ today' \in 1..Horizon
    BY <1>4, RemindersAssumption DEF Tick, person, post, Types, RemindersAssumption, Date
  <2>2. Types'
    BY <2>1 DEF Types
  <2>3. QED  BY <2>1, <2>2, PostStands DEF post
<1>5. QED  BY <1>1, <1>2, <1>3, <1>4 DEF Office

LEMMA RemindersNext == RemindersInv /\ [RNext]_rvars => RemindersInv'
<1>1. SUFFICES ASSUME RemindersInv, [RNext]_rvars PROVE RemindersInv'
  OBVIOUS
<1>2. CASE RNext
  BY <1>1, <1>2, PassKeeps, OfficeKeeps DEF RNext
<1>3. CASE UNCHANGED rvars
  <2>1. /\ UNCHANGED <<inst, roles, serving, today, moves>>
        /\ UNCHANGED <<claims, worker, post>>
    BY <1>3 DEF rvars, post
  <2>2. Types'
    BY <1>1, <2>1 DEF RemindersInv, Types, post
  <2>3. QED  BY <1>1, <2>1, <2>2, PostStands
<1>4. QED  BY <1>1, <1>2, <1>3

(***************************************************************************)
(* The unique key on ReminderLog: however many sweeps overlap, are         *)
(* repeated for earlier dates or die, no reminder is mailed twice.         *)
(***************************************************************************)
THEOREM MailedAtMostOnceAlways == RSpec => []MailedAtMostOnce
<1>1. RemindersInv => MailedAtMostOnce
  BY DEF RemindersInv, OnePlace
<1>2. QED  BY <1>1, RemindersInit, RemindersNext, PTL DEF RSpec

(***************************************************************************)
(* send_digest writes the EmailLog row first: whatever the provider took   *)
(* is in the log with all it covered, wherever the sweep died.             *)
(***************************************************************************)
THEOREM EverySendIsLoggedAlways == RSpec => []EverySendIsLogged
<1>1. RemindersInv => EverySendIsLogged
  BY DEF RemindersInv, Logged
<1>2. QED  BY <1>1, RemindersInit, RemindersNext, PTL DEF RSpec

(***************************************************************************)
(* Every claim has a date in its key, so that the unique index, which lets *)
(* null keys repeat, applies to it.                                        *)
(***************************************************************************)
THEOREM RTypeOKAlways == RSpec => []RTypeOK
<1>1. RemindersInv => RTypeOK
  BY DEF RemindersInv, Types, RTypeOK, State, List
<1>2. QED  BY <1>1, RemindersInit, RemindersNext, PTL DEF RSpec

-----------------------------------------------------------------------------
(* No deadline goes by without its notice.                                   *)

Notice(d, date) == [instance |-> d, kind |-> "overdue", lead |-> 0, date |-> date]

\* A sweep that is claiming still holds the notice of what ran out, or it was raised.
\* That the notice is on record from an earlier sweep is as good, because no notice is
\* raised before its date has passed.
Noticed ==
    /\ \A c \in claims : c.entry.kind = "overdue" => c.entry.date < c.raised
    /\ \A w \in Worker : worker[w].phase = "claiming" =>
          /\ worker[w].asOf \in Date /\ worker[w].asOf <= today
          /\ \A e \in worker[w].todo : e.kind = "overdue" => e.date < worker[w].asOf
          /\ \A d \in worker[w].lapsed :
                \/ RaisedAfter(d, worker[w].asOf - 1)
                \/ Notice(d, worker[w].asOf - 1) \in worker[w].todo

\* newly_overdue looks for either date; what it raises is keyed by the one that governs.
LEMMA NoticesArePast ==
    ASSUME NEW l \in List, NEW asOf \in Date, NEW e \in find_due_reminders(l, asOf),
           e.kind = "overdue"
    PROVE  e.date < asOf
<1>1. e \notin approaching(l, asOf)
  <2>1. ASSUME e \in approaching(l, asOf) PROVE e.kind \in {"turning_18", "lead_time"}
    BY <2>1 DEF approaching
  <2>2. QED  BY <2>1
<1>2. PICK d \in Definition :
        /\ e = [instance |-> d, kind |-> "overdue", lead |-> 0,
                date |-> effective_due_date(l[d])]
        /\ asOf > 1 /\ asOf - 1 \in {l[d].expires, l[d].due}
  <2>1. e \in newly_overdue(l, asOf)
    BY <1>1 DEF find_due_reminders
  <2>2. QED  BY <2>1 DEF newly_overdue
<1>3. l[d] \in Instance
  BY DEF List
<1>4. effective_due_date(l[d]) < asOf
  BY <1>2, <1>3 DEF effective_due_date, Instance, Date, NoDate
<1>5. QED  BY <1>2, <1>4

\* What ran out the day before is among what the sweep finds.
LEMMA RanOutIsFound ==
    ASSUME NEW l \in List, NEW asOf \in Date, NEW d \in RanOut(l, asOf)
    PROVE  Notice(d, asOf - 1) \in find_due_reminders(l, asOf)
<1>1. /\ d \in Definition /\ serving /\ asOf > 1 /\ Chased(l[d])
      /\ l[d].status # "complete" /\ effective_due_date(l[d]) = asOf - 1
  BY DEF RanOut
<1>2. l[d] \in Instance
  BY <1>1 DEF List
<1>3. asOf - 1 \in {l[d].expires, l[d].due}
  BY <1>1, <1>2 DEF effective_due_date
<1>4. Notice(d, asOf - 1) \in newly_overdue(l, asOf)
  BY <1>1, <1>3 DEF newly_overdue, Notice
<1>5. QED  BY <1>1, <1>4 DEF find_due_reminders

\* Claims only accumulate.
LEMMA RaisedStays ==
    ASSUME claims \subseteq claims', NEW d, NEW date, RaisedAfter(d, date)
    PROVE  RaisedAfter(d, date)'
  BY DEF RaisedAfter

\* The sweeps a step leaves alone, or that stop claiming.
LEMMA OthersNoticed ==
    ASSUME RemindersInv, Noticed, RemindersInv', claims \subseteq claims', today <= today',
           NEW w \in Worker, worker'[w] = worker[w] \/ worker'[w].phase # "claiming",
           worker'[w].phase = "claiming"
    PROVE  /\ worker'[w].asOf \in Date /\ worker'[w].asOf <= today'
           /\ \A e \in worker'[w].todo : e.kind = "overdue" => e.date < worker'[w].asOf
           /\ \A d \in worker'[w].lapsed :
                 \/ RaisedAfter(d, worker[w].asOf - 1)'
                 \/ Notice(d, worker'[w].asOf - 1) \in worker'[w].todo
<1>1. worker'[w] = worker[w] /\ worker[w].phase = "claiming"
  OBVIOUS
<1>2. today \in Nat /\ today' \in Nat
  <2>1. Horizon \in Nat
    BY RemindersAssumption DEF RemindersAssumption, Date
  <2>2. QED  BY <2>1 DEF RemindersInv, Types
<1>3. /\ worker[w].asOf \in Date /\ worker[w].asOf <= today
      /\ \A e \in worker[w].todo : e.kind = "overdue" => e.date < worker[w].asOf
      /\ \A d \in worker[w].lapsed :
            \/ RaisedAfter(d, worker[w].asOf - 1)
            \/ Notice(d, worker[w].asOf - 1) \in worker[w].todo
  BY <1>1 DEF Noticed
<1>4. worker'[w].asOf <= today'
  BY <1>1, <1>2, <1>3 DEF Date
<1>5. ASSUME NEW d \in worker[w].lapsed
      PROVE  \/ RaisedAfter(d, worker[w].asOf - 1)'
             \/ Notice(d, worker[w].asOf - 1) \in worker[w].todo
  BY <1>1, <1>3 DEF RaisedAfter
<1>6. QED  BY <1>1, <1>3, <1>4, <1>5

LEMMA SweepNotices ==
    ASSUME RemindersInv, Noticed, RemindersInv', NEW w \in Worker,
           NEW asOf \in Replayed \cup {today}, sweep_tenant(w, asOf)
    PROVE  Noticed'
<1> DEFINE state == [Idle EXCEPT !.phase = "claiming", !.asOf = asOf,
                        !.todo = find_due_reminders(inst', asOf),
                        !.lapsed = RanOut(inst', asOf)]
<1>1. asOf \in Date /\ asOf <= today /\ today \in Nat
  BY RemindersAssumption DEF RemindersAssumption, RemindersInv, Types, sweep_tenant, Date
<1>2. /\ Set(w, state) /\ UNCHANGED <<claims, today>> /\ inst' \in List
      /\ worker \in [Worker -> State]
  BY DEF sweep_tenant, RemindersInv, Types
<1>3. /\ state.phase = "claiming" /\ state.asOf = asOf
      /\ state.todo = find_due_reminders(inst', asOf)
      /\ state.lapsed = RanOut(inst', asOf)
  BY DEF Idle
<1> HIDE DEF state
<1>4. worker'[w] = state /\ \A v \in Worker \ {w} : worker'[v] = worker[v]
  BY <1>2 DEF Set
<1>5. \A e \in state.todo : e.kind = "overdue" => e.date < asOf
  BY <1>1, <1>2, <1>3, NoticesArePast
<1>6. \A d \in state.lapsed : Notice(d, asOf - 1) \in state.todo
  BY <1>1, <1>2, <1>3, RanOutIsFound
<1>7. ASSUME NEW v \in Worker, worker'[v].phase = "claiming"
      PROVE  /\ worker'[v].asOf \in Date /\ worker'[v].asOf <= today'
             /\ \A e \in worker'[v].todo : e.kind = "overdue" => e.date < worker'[v].asOf
             /\ \A d \in worker'[v].lapsed :
                   \/ RaisedAfter(d, worker[v].asOf - 1)'
                   \/ Notice(d, worker'[v].asOf - 1) \in worker'[v].todo
  <2>1. CASE v = w
    BY <1>1, <1>2, <1>3, <1>4, <1>5, <1>6, <2>1
  <2>2. CASE v # w
    BY <1>1, <1>2, <1>4, <1>7, <2>2, OthersNoticed
  <2>3. QED  BY <2>1, <2>2
<1>8. QED  BY <1>2, <1>7 DEF Noticed

LEMMA ClaimNotices ==
    ASSUME RemindersInv, Noticed, RemindersInv', NEW w \in Worker, NEW entry,
           raise_reminder(w, entry)
    PROVE  Noticed'
<1>1. /\ worker[w].phase = "claiming" /\ worker[w] \in State /\ worker \in [Worker -> State]
      /\ entry \in worker[w].todo /\ entry \in Entry
      /\ worker[w].asOf \in Date /\ worker[w].asOf <= today
      /\ \A e \in worker[w].todo : e.kind = "overdue" => e.date < worker[w].asOf
      /\ \A d \in worker[w].lapsed :
            \/ RaisedAfter(d, worker[w].asOf - 1)
            \/ Notice(d, worker[w].asOf - 1) \in worker[w].todo
  BY DEF raise_reminder, RemindersInv, Types, State, Noticed
<1>2. today' = today /\ today \in Nat
  BY RemindersAssumption DEF RemindersAssumption, RemindersInv, Types, raise_reminder, Date
<1>3. entry.kind = "overdue" => entry.date < today
  BY <1>1, <1>2 DEF Entry, Date
<1>4. /\ claims \subseteq claims'
      /\ \E c \in claims' : c.entry = entry
      /\ \A c \in claims' : c.entry.kind = "overdue" => c.entry.date < c.raised
  <2>1. CASE Raised(entry)
    BY <2>1 DEF raise_reminder, ClaimEntry, Raised, Noticed
  <2>2. CASE ~Raised(entry)
    <3> DEFINE made == [entry |-> entry, raised |-> today]
    <3>1. claims' = claims \cup {made} /\ made.entry = entry /\ made.raised = today
      BY <2>2 DEF raise_reminder, ClaimEntry
    <3> HIDE DEF made
    <3>2. QED  BY <1>3, <3>1 DEF Noticed
  <2>3. QED  BY <2>1, <2>2
<1>5. /\ worker'[w].phase = "claiming" /\ worker'[w].asOf = worker[w].asOf
      /\ worker'[w].todo = worker[w].todo \ {entry}
      /\ worker'[w].lapsed = worker[w].lapsed
      /\ \A v \in Worker \ {w} : worker'[v] = worker[v]
  <2> DEFINE dropped == [worker[w] EXCEPT !.todo = @ \ {entry}]
             held == [worker[w] EXCEPT !.todo = @ \ {entry}, !.claimed = @ \cup {entry}]
  <2>1. Set(w, dropped) \/ Set(w, held)
    BY DEF raise_reminder, ClaimEntry
  <2>2. \A state \in {dropped, held} :
          /\ state.phase = "claiming" /\ state.asOf = worker[w].asOf
          /\ state.todo = worker[w].todo \ {entry} /\ state.lapsed = worker[w].lapsed
    BY <1>1 DEF State
  <2> HIDE DEF dropped, held
  <2>3. PICK state \in {dropped, held} : Set(w, state)
    BY <2>1
  <2>4. worker'[w] = state /\ \A v \in Worker \ {w} : worker'[v] = worker[v]
    BY <1>1, <2>3 DEF Set
  <2>5. QED  BY <2>2, <2>4
<1>6. ASSUME NEW d \in worker[w].lapsed
      PROVE  \/ RaisedAfter(d, worker[w].asOf - 1)'
             \/ Notice(d, worker'[w].asOf - 1) \in worker'[w].todo
  <2>1. CASE RaisedAfter(d, worker[w].asOf - 1)
    BY <1>4, <1>5, <2>1 DEF RaisedAfter
  <2>2. CASE Notice(d, worker[w].asOf - 1) \in worker[w].todo
                /\ Notice(d, worker[w].asOf - 1) # entry
    BY <1>5, <2>2
  <2>3. CASE Notice(d, worker[w].asOf - 1) = entry
    <3>1. entry.instance = d /\ entry.kind = "overdue" /\ entry.date = worker[w].asOf - 1
      BY <2>3 DEF Notice
    <3>2. QED  BY <1>4, <1>5, <3>1 DEF RaisedAfter
  <2>4. QED  BY <1>1, <2>1, <2>2, <2>3
<1>7. ASSUME NEW v \in Worker, worker'[v].phase = "claiming"
      PROVE  /\ worker'[v].asOf \in Date /\ worker'[v].asOf <= today'
             /\ \A e \in worker'[v].todo : e.kind = "overdue" => e.date < worker'[v].asOf
             /\ \A d \in worker'[v].lapsed :
                   \/ RaisedAfter(d, worker[v].asOf - 1)'
                   \/ Notice(d, worker'[v].asOf - 1) \in worker'[v].todo
  <2>1. CASE v = w
    BY <1>1, <1>2, <1>5, <1>6, <2>1
  <2>2. CASE v # w
    BY <1>2, <1>4, <1>5, <1>7, <2>2, OthersNoticed
  <2>3. QED  BY <2>1, <2>2
<1>8. QED  BY <1>4, <1>7 DEF Noticed

\* Every other step leaves the claims, and each sweep, as they are or ends the claiming.
LEMMA RestNotices ==
    ASSUME RemindersInv, Noticed, RemindersInv', claims' = claims, today <= today',
           \A w \in Worker : worker'[w] = worker[w] \/ worker'[w].phase # "claiming"
    PROVE  Noticed'
<1>1. ASSUME NEW v \in Worker, worker'[v].phase = "claiming"
      PROVE  /\ worker'[v].asOf \in Date /\ worker'[v].asOf <= today'
             /\ \A e \in worker'[v].todo : e.kind = "overdue" => e.date < worker'[v].asOf
             /\ \A d \in worker'[v].lapsed :
                   \/ RaisedAfter(d, worker[v].asOf - 1)'
                   \/ Notice(d, worker'[v].asOf - 1) \in worker'[v].todo
  BY <1>1, OthersNoticed
<1>2. QED  BY <1>1 DEF Noticed

LEMMA NextNotices ==
    ASSUME RemindersInv, Noticed, RNext
    PROVE  Noticed'
<1>0. RemindersInv' /\ worker \in [Worker -> State] /\ today \in Nat
  BY RemindersNext, RemindersAssumption DEF RemindersAssumption, Date, RemindersInv, Types
<1>1. ASSUME NEW w \in Worker, NEW state, Set(w, state), state.phase # "claiming",
             UNCHANGED <<claims, today>>
      PROVE  Noticed'
  <2>1. \A v \in Worker : worker'[v] = worker[v] \/ worker'[v].phase # "claiming"
    BY <1>0, <1>1 DEF Set
  <2>2. QED  BY <1>0, <1>1, <2>1, RestNotices
<1>2. ASSUME NEW w \in Worker, NEW stale, send_digest(w, stale) PROVE Noticed'
  <2> DEFINE state == [Idle EXCEPT !.phase = "mailing", !.claimed = worker[w].claimed,
                                   !.email = Len(emails) + 1]
  <2>1. Set(w, state) /\ UNCHANGED <<claims, today>>
    BY <1>2 DEF send_digest, queue_digest, Mailing
  <2>2. state.phase = "mailing"
    BY DEF Idle
  <2> HIDE DEF state
  <2>3. QED  BY <1>1, <2>1, <2>2
<1>3. ASSUME NEW w \in Worker, provider_send(w) PROVE Noticed'
  <2> DEFINE state == [worker[w] EXCEPT !.phase = "sent"]
  <2>1. Set(w, state) /\ UNCHANGED <<claims, today>>
    BY <1>3 DEF provider_send
  <2>2. state.phase = "sent"
    BY <1>0 DEF State
  <2> HIDE DEF state
  <2>3. QED  BY <1>1, <2>1, <2>2
<1>4. ASSUME NEW w \in Worker, Set(w, Idle), UNCHANGED <<claims, today>> PROVE Noticed'
  BY <1>1, <1>4, IdleIs
<1>5. ASSUME Pass PROVE Noticed'
  <2>1. PICK w \in Worker :
           \/ \E asOf \in Replayed \cup {today} : sweep_tenant(w, asOf)
           \/ \E entry \in worker[w].todo : raise_reminder(w, entry)
           \/ \E stale \in Backlog : send_digest(w, stale)
           \/ provider_send(w)
           \/ Set(w, Idle) /\ UNCHANGED <<claims, today>>
    BY <1>5 DEF Pass, send_nothing, mark_failed, mark_sent, Crash
  <2>2. QED  BY <1>0, <1>2, <1>3, <1>4, <2>1, SweepNotices, ClaimNotices
<1>6. ASSUME Office PROVE Noticed'
  <2>1. UNCHANGED <<claims, worker>> /\ today <= today'
    <3>1. CASE Tick
      BY <1>0, <3>1 DEF Tick
    <3>2. CASE Meanwhile
      BY <1>0, <3>2 DEF Meanwhile
    <3>3. Tick \/ Meanwhile
      BY <1>6 DEF Office, mark_requirement_complete, record_crc_cleared, change_roles,
                  volunteer_toggle_active
    <3>4. QED  BY <3>1, <3>2, <3>3
  <2>2. QED  BY <1>0, <2>1, RestNotices
<1>7. QED  BY <1>5, <1>6 DEF RNext

(***************************************************************************)
(* find_due_reminders and raise_reminder: when a sweep has claimed all it  *)
(* found, each deadline that ran out the day before it worked for has a    *)
(* notice raised after that deadline, by this sweep or another one.        *)
(***************************************************************************)
THEOREM DeadlineIsRaisedAlways == RSpec => []DeadlineIsRaised
<1>1. RInit => Noticed
  BY IdleIs DEF RInit, Noticed
<1>2. RemindersInv /\ Noticed /\ [RNext]_rvars => Noticed'
  <2>1. SUFFICES ASSUME RemindersInv, Noticed, UNCHANGED rvars PROVE Noticed'
    BY NextNotices
  <2>2. QED  BY <2>1 DEF rvars, Noticed, RaisedAfter
<1>3. Noticed => DeadlineIsRaised
  BY DEF Noticed, DeadlineIsRaised, ClaimsDone
<1>4. QED  BY <1>1, <1>2, <1>3, RemindersInit, RemindersNext, PTL DEF RSpec
===============================================================================
