--------------------------- MODULE MCPasswordReset ---------------------------
(* Instances of PasswordReset for TLC. *)
EXTENDS PasswordReset, FiniteSets, TLC

CONSTANT u1    \* a user
CONSTANTS name1, stranger    \* what is typed; stranger names nobody

OneAccount == (name1 :> u1) @@ (stranger :> None)

\* Bound: one session at a time.  A session is asked for nothing but its existence,
\* and expires at any time.
OneSession == Cardinality(sessions') <= 1

Symmetry == Permutations(Requests) \cup Permutations(Managers) \cup Permutations(Clients)
                \cup Permutations(Temps) \cup Permutations(Chosen)
=============================================================================
