------------------------------ MODULE MCSignIn ------------------------------
(* Two churches whose founders, one person with one address, share a       *)
(* primary key; a colleague at the first. The view forgets what is left of *)
(* a spent link and all but the answers of a challenge nobody can answer:  *)
(* no guard looks at either again.                                         *)
EXTENDS SignIn, TLC

CONSTANTS chA, chB, fA, fB, cA, op, console, k1, k2, l1, l2

MCSchemaOf == (fA :> chA) @@ (cA :> chA) @@ (fB :> chB) @@ (op :> console)
MCPk == (fA :> 1) @@ (cA :> 2) @@ (fB :> 1) @@ (op :> 1)
MCEmail == (fA :> "f") @@ (cA :> "c") @@ (fB :> "f") @@ (op :> "op")
MCPassword == [u \in Users |-> u]
MCFounder == (chA :> fA) @@ (chB :> fB)
Interchangeable == Permutations({l1, l2}) \cup Permutations({k1, k2})

Dead(row) == row.spent \/ row.for = Gone \/ row.left = 0
LiveView ==
  <<church, account, passkey, cookie, jar, session, signedIn,
    [l \in Links |-> IF link[l].spent THEN [link[l] EXCEPT !.left = 0] ELSE link[l]],
    [i \in DOMAIN challenge |-> IF Dead(challenge[i]) THEN <<challenge[i].answers>> ELSE <<challenge[i]>>]>>
=============================================================================
