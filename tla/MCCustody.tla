------------------------------ MODULE MCCustody ------------------------------
(* Two interchangeable processes. The view forgets the columns of a loaded  *)
(* row that the step it is held for never looks at: only the settings form  *)
(* is saved with all of them.                                               *)
EXTENDS Custody, TLC

CONSTANTS p1, p2

Interchangeable == Permutations(Process)

Held(work) ==
  CASE work.on = "settings" -> <<work.on, work.row>>
    [] work.on = "mode" -> <<work.on, work.row.mode>>
    [] work.on \in {"nothing", "entry"} -> <<work.on>>
    [] work.on \in {"job", "confirming"} -> <<work.on, work.row.wrapped>>
    [] OTHER -> <<work.on, work.row.wrapped, work.row.mode, work.file>>

HeldView ==
  <<church, deks, seals, sealed, files, documents, uploads, master, deployed, cache,
    escrow, confirmed, [p \in Process |-> Held(copy[p])]>>
=============================================================================
