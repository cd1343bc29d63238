---------------------------- MODULE ScreeningRaces ----------------------------
(***************************************************************************)
(* The screening requests as a server runs them: a request reads the       *)
(* volunteer's row when it starts, works on that object, and commits later *)
(* (READ COMMITTED, no row lock), so the block it checks may be the one    *)
(* another request has replaced meanwhile.                                 *)
(***************************************************************************)
EXTENDS Screening

CONSTANT Worker          \* bound: requests in flight at the same time

VARIABLE loaded          \* the volunteer object each request holds, if any

NotLoaded == [block |-> "not loaded", serving |-> FALSE]

rvars == <<svars, loaded>>

RInit == SInit /\ loaded = [w \in Worker |-> NotLoaded]

Load(w) ==
    /\ loaded[w] = NotLoaded
    /\ loaded' = [loaded EXCEPT ![w] = volunteer]
    /\ UNCHANGED svars

Commit(w) ==
    /\ loaded[w] # NotLoaded
    /\ loaded' = [loaded EXCEPT ![w] = NotLoaded]
    /\ Request(loaded[w])

\* The user goes away, or the form is refused.
Abandon(w) ==
    /\ loaded[w] # NotLoaded
    /\ loaded' = [loaded EXCEPT ![w] = NotLoaded]
    /\ UNCHANGED svars

RNext ==
    \/ \E w \in Worker : Load(w) \/ Commit(w) \/ Abandon(w)
    \/ OtherRequest /\ UNCHANGED loaded

RSpec == RInit /\ [][RNext]_rvars
===============================================================================
