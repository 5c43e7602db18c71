----------------------------- MODULE MCJobSystem -----------------------------
(* The module TLC runs: the job system, its claims and its symmetries.  Nothing orders tasks, *)
(* tool calls or commands.                                                                    *)
EXTENDS JobClaims, TLC

Symmetries == {p @@ q @@ r : p \in Permutations(Tasks), q \in Permutations(Calls),
                             r \in Permutations(Commands)}
=============================================================================
