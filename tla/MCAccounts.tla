----------------------------- MODULE MCAccounts -----------------------------
(***************************************************************************)
(* Two users of which the second may take the name of the first when it is *)
(* deleted, a third with another name; one key, one connection, two        *)
(* requests at a time and as many after another as there are ids for.      *)
(***************************************************************************)
EXTENDS Accounts, TLC

CONSTANTS ann, bob, u1, u2, u3, r1, r2, d1, d2

MCNameOf == (u1 :> ann) @@ (u2 :> ann) @@ (u3 :> bob)

\* No call and no property tells these apart.
Alike == Permutations({u1, u2}) \cup Permutations({r1, r2}) \cup Permutations({d1, d2})

=============================================================================
