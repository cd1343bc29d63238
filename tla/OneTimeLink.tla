---------------------------- MODULE OneTimeLink ----------------------------
(* What a sign-in link promises (src/apps/accounts/models.py:288): it is   *)
(* made for one person, it signs that person in at most once and only      *)
(* while it lives, and once spent or lapsed it never comes back.           *)
EXTENDS Naturals

CONSTANTS Links, People, Nobody

VARIABLES
  state,    \* unissued, live, spent or lapsed
  holder,   \* whom each link is for
  uses      \* how many times each link has signed somebody in

vars == <<state, holder, uses>>

Init ==
  /\ state = [l \in Links |-> "unissued"]
  /\ holder = [l \in Links |-> Nobody]
  /\ uses = [l \in Links |-> 0]

\* One address may belong to accounts at several churches: a link for each at once.
Issue ==
  \E S \in SUBSET Links : \E for \in [S -> People] :
    /\ \A l \in S : state[l] = "unissued"
    /\ state' = [l \in Links |-> IF l \in S THEN "live" ELSE state[l]]
    /\ holder' = [l \in Links |-> IF l \in S THEN for[l] ELSE holder[l]]
    /\ UNCHANGED uses

SignIn(l) ==
  /\ state[l] = "live"
  /\ state' = [state EXCEPT ![l] = "spent"]
  /\ uses' = [uses EXCEPT ![l] = @ + 1]
  /\ UNCHANGED holder

\* Time passes for every link at once.
Lapse ==
  \E S \in SUBSET {l \in Links : state[l] = "live"} :
    /\ state' = [l \in Links |-> IF l \in S THEN "lapsed" ELSE state[l]]
    /\ UNCHANGED <<holder, uses>>

Next == Issue \/ (\E l \in Links : SignIn(l)) \/ Lapse

Spec == Init /\ [][Next]_vars
=============================================================================
