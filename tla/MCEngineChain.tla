----------------------------- MODULE MCEngineChain -----------------------------
(* A chain of three: an adults-only criminal record check, a course behind    *)
(* it, and a placement behind the course.  Nobody takes a step here because   *)
(* of a date other than a birthday: with Horizon 2 no renewal and no deadline *)
(* passes.  So the view keeps of a row only what the gates and a reversed     *)
(* waiver look at: status, whether it was started, whether it was completed.  *)
EXTENDS RequirementEngine

MCDefinition == {"check", "course", "placement"}
MCOrder == <<"check", "course", "placement">>
MCAppliesToRole == [d \in MCDefinition |-> Role]
MCMustFollow == [d \in MCDefinition |->
    CASE d = "course" -> "check" [] d = "placement" -> "course" [] OTHER -> NoDefinition]
MCOneTime == [d \in MCDefinition |-> 0]

ASSUME ChainInOrder == PrerequisitesFirst

\* The premise of the view: the first renewal and the first deadline are both later.
ASSUME NoDatePasses == \A b \in BirthChoices : Horizon <= CrcMonths /\ Horizon <= b

RowView == [d \in Definition |-> <<inst[d].status, inst[d].started, inst[d].completed # NoDate>>]

GateView == <<RowView, person, config, today, owed, sweep, stale>>
===============================================================================
