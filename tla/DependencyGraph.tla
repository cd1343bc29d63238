---------------------------- MODULE DependencyGraph ----------------------------
(***************************************************************************)
(* What requirement follows what. Administrators create, edit and retire   *)
(* definitions; each edit is checked against the chain there is when it is *)
(* validated and written afterwards, without a transaction around the two. *)
(* Whether a dependency warns or gates does not shape the graph and is     *)
(* left out, and so is the hop-by-hop reading of a chain in a validation.  *)
(***************************************************************************)
EXTENDS Naturals, FiniteSets

CONSTANTS
    Definition,
    NoDefinition,
    Admin,               \* bound: edits in flight at the same time
    MAX_DEPENDENCY_HOPS

ASSUME DependencyAssumption ==
    /\ NoDefinition \notin Definition
    /\ MAX_DEPENDENCY_HOPS \in Nat \ {0}

VARIABLES
    state,               \* absent, active or retired
    must_follow,
    edit                 \* per administrator: a validated edit not yet saved

dvars == <<state, must_follow, edit>>

\* seen: the graph the edit was validated against still stands.
NoEdit == [d |-> NoDefinition, follows |-> NoDefinition, seen |-> TRUE]

DInit ==
    /\ state = [d \in Definition |-> "absent"]
    /\ must_follow = [d \in Definition |-> NoDefinition]
    /\ edit = [a \in Admin |-> NoEdit]

-----------------------------------------------------------------------------
(* Walking the graph.                                                        *)

\* Where the walk up from a definition is after k hops.
After(from, k) ==
    LET at[j \in 0..k] == CASE j = 0 -> from
                            [] j > 0 /\ at[j-1] = NoDefinition -> NoDefinition
                            [] OTHER -> must_follow[at[j-1]]
    IN  at[k]

\* Mutant: running out of hops counts as having found no loop.
cycle_within_hops(d, follows) ==
    \E k \in 0..MAX_DEPENDENCY_HOPS-1 : After(follows, k) = d

\* The walk up from the choice comes back here, or has no end within the hops allowed.
_dependency_cycle(d, follows) ==
    \A k \in 0..MAX_DEPENDENCY_HOPS-1 :
        After(follows, k) = NoDefinition => \E j \in 0..k-1 : After(follows, j) = d

\* The definition and what follows it, as far down as the hops go.
dependent_pks(d) ==
    LET found[k \in 0..MAX_DEPENDENCY_HOPS] ==
            IF k = 0 THEN {d}
            ELSE found[k-1] \cup {e \in Definition : must_follow[e] \in found[k-1]}
    IN  found[MAX_DEPENDENCY_HOPS]

\* What the form offers.
Choices(d) ==
    {e \in Definition : state[e] = "active"}
        \ (IF state[d] = "absent" THEN {} ELSE dependent_pks(d))

-----------------------------------------------------------------------------
(* What administrators do. A definition that is being created has no row yet.  *)

validate_definition(a, d, follows) ==
    /\ edit[a] = NoEdit
    /\ state[d] = "absent" => \A b \in Admin : edit[b].d # d
    /\ follows \in Choices(d) \cup {NoDefinition}
    /\ follows # NoDefinition => follows # d /\ ~_dependency_cycle(d, follows)
    /\ edit' = [edit EXCEPT ![a] = [d |-> d, follows |-> follows, seen |-> TRUE]]
    /\ UNCHANGED <<state, must_follow>>

\* The form saves every column, is_active as it was posted.
save_definition(a) ==
    /\ edit[a] # NoEdit
    /\ must_follow' = [must_follow EXCEPT ![edit[a].d] = edit[a].follows]
    /\ \E posted \in {"active", "retired"} : state' = [state EXCEPT ![edit[a].d] = posted]
    /\ edit' = [b \in Admin |->
                   CASE b = a -> NoEdit
                     [] b # a /\ edit[b] # NoEdit ->
                            [edit[b] EXCEPT !.seen = @ /\ must_follow' = must_follow]
                     [] OTHER -> edit[b]]

\* Mutant: retiring a definition takes it out of the table.
toggle_deleting(d) ==
    /\ state[d] = "active"
    /\ state' = [state EXCEPT ![d] = "absent"]
    /\ UNCHANGED <<must_follow, edit>>

definition_toggle_active(d) ==
    /\ state[d] # "absent"
    /\ state' = [state EXCEPT ![d] = IF @ = "active" THEN "retired" ELSE "active"]
    /\ UNCHANGED <<must_follow, edit>>

DNext ==
    \/ \E a \in Admin, d \in Definition, follows \in Definition \cup {NoDefinition} :
          validate_definition(a, d, follows)
    \/ \E a \in Admin : save_definition(a)
    \/ \E d \in Definition : definition_toggle_active(d)

DSpec == DInit /\ [][DNext]_dvars

-----------------------------------------------------------------------------
(* Properties                                                                *)

\* The definition follows itself, through others or at once.
Loops(d) == \E k \in 1..Cardinality(Definition) : After(d, k) = d

\* Definitions are retired and never removed, so what one follows is always there.
DTypeOK ==
    /\ state \in [Definition -> {"absent", "active", "retired"}]
    /\ \A d \in Definition :
          must_follow[d] # NoDefinition =>
              state[d] # "absent" /\ state[must_follow[d]] # "absent"
    /\ \A a \in Admin : edit[a].d = NoDefinition <=> edit[a] = NoEdit

\* However long the chains grow, beyond what the dropdown and the check follow, no edit
\* closes a loop unless another was saved after it had been validated.
OnlyOverlapLoops ==
    [][(\E d \in Definition : Loops(d)') /\ (\A d \in Definition : ~Loops(d))
          => \E a \in Admin : edit[a] # NoEdit /\ edit'[a] = NoEdit /\ ~edit[a].seen]_dvars
===============================================================================
