------------------------------- MODULE MCReview -------------------------------
(* A yearly course, reviewed.                                                 *)
EXTENDS Review

MCOrder == <<"course">>
MCAppliesToRole == [d \in {"course"} |-> Role]
MCMustFollow == [d \in {"course"} |-> NoDefinition]
MCInterval == [d \in {"course"} |-> 1]
MCOffset == [d \in {"course"} |-> 0]
===============================================================================
