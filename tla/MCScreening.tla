------------------------------ MODULE MCScreening ------------------------------
(* A volunteer with a criminal record check and one ordinary course.          *)
EXTENDS Screening

MCDefinition == {"check", "course"}
MCOrder == <<"check", "course">>
MCAppliesToRole == [d \in MCDefinition |-> Role]
MCMustFollow == [d \in MCDefinition |-> IF d = "course" THEN "check" ELSE NoDefinition]
MCInterval == [d \in MCDefinition |-> 0]
MCOffset == [d \in MCDefinition |-> 0]
===============================================================================
