----------------------------- MODULE MCEngineCheck -----------------------------
(* An adults-only criminal record check, and a yearly duty gated behind it,   *)
(* for leaders.  The view leaves out what only GateHolds reads: whether the    *)
(* list is known to await a sync.                                             *)
EXTENDS RequirementEngine

MCDefinition == {"check", "duty"}
\* The gated duty comes first, so that one pass cannot resolve both.
MCOrder == <<"duty", "check">>
MCAppliesToRole == [d \in MCDefinition |-> IF d = "check" THEN {"leader"} ELSE Role]
MCMustFollow == [d \in MCDefinition |-> IF d = "duty" THEN "check" ELSE NoDefinition]
MCInterval == [d \in MCDefinition |-> 1]
MCOffset == [d \in MCDefinition |-> 0]

StaleIgnored == <<inst, person, config, today, owed, sweep>>
===============================================================================
