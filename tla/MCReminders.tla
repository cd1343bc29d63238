----------------------------- MODULE MCReminders -----------------------------
(* The criminal record check of somebody who turns 18 on day 2, asked of      *)
(* teachers, and a course everybody takes once.                               *)
EXTENDS Reminders, TLC

CONSTANTS w1, w2

File == {"check", "course"}
FileOrder == <<"check", "course">>
FileRoles == [d \in File |-> IF d = "check" THEN {"teacher"} ELSE Role]
FileFollows == [d \in File |-> NoDefinition]
FileInterval == [d \in File |-> 0]
FileOffset == [d \in File |-> 0]

Interchangeable == Permutations(Worker)
===============================================================================
