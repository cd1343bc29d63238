------------------------------- MODULE MCSyncRace -------------------------------
(* A yearly course asked of leaders.                                            *)
EXTENDS SyncRace

MCOrder == <<"course">>
MCAppliesToRole == [d \in Definition |-> Role]
MCMustFollow == [d \in Definition |-> NoDefinition]
MCInterval == [d \in Definition |-> 1]
MCOffset == [d \in Definition |-> 0]
===============================================================================
