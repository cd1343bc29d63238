------------------------------ MODULE MCScreeningRaces ------------------------------
(* The same volunteer, with requests that overlap.                            *)
EXTENDS ScreeningRaces

MCDefinition == {"check", "course"}
MCOrder == <<"check", "course">>
MCAppliesToRole == [d \in MCDefinition |-> Role]
MCMustFollow == [d \in MCDefinition |-> IF d = "course" THEN "check" ELSE NoDefinition]
MCInterval == [d \in MCDefinition |-> 0]
MCOffset == [d \in MCDefinition |-> 0]
===============================================================================
