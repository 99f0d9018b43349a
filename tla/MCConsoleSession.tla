-------------------------- MODULE MCConsoleSession --------------------------
(* ConsoleSession for TLC: the fetches are those of the left tab; the right *)
(* one only loads pages, signs in and out and resets the password.          *)
EXTENDS ConsoleSession, TLC, FiniteSets

CONSTANT left

MCTabOf == [f \in Fetches |-> left]
MCSymmetry == Permutations(Tokens) \cup Permutations(Fetches)

\* Bounds: tokens issued and password changes, with the requests in flight on
\* top of them.  A third or fourth request is served while few were issued.
MCBound ==
    LET done == Cardinality({t \in Tokens : token[t] # "none"}) + password
        underWay == Cardinality({r \in Requests : pc[r] # "idle"})
    IN  done <= 3 /\ done + underWay <= 5
=============================================================================
