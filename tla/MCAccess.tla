------------------------------ MODULE MCAccess ------------------------------
(* One existing file and one to create, one department. The view leaves    *)
(* out `by`, which no action reads and the properties read primed only.    *)
EXTENDS Access, TLC

CONSTANTS a1, a2, a3, f1, f2, d1

MCServed == (f1 :> {d1}) @@ (f2 :> {})
MCCapability == {"manage_users", "view_volunteers", "record_screening", "view_audit"}
MCCapSets == {{}, {"manage_users", "view_volunteers"}, {"view_volunteers", "record_screening"},
              {"view_volunteers", "view_audit"}}
StateView == <<level, account, grant, owner, queue, edits>>
Others == Permutations({a2, a3})
=============================================================================
