-------------------------- MODULE CommandContract --------------------------
(***************************************************************************)
(* What the control service promises about a device command: it is         *)
(* submitted once, it is closed sooner or later and never opened again,    *)
(* and it is reported successful, or written to the shadow as desired,     *)
(* only if the broker accepted it.                                         *)
(***************************************************************************)
CONSTANT Commands

VARIABLES
    submitted,  \* commands with a row
    closed,     \* commands whose status is final
    succeeded,  \* commands whose status is success
    accepted    \* commands the broker has accepted

vars == <<submitted, closed, succeeded, accepted>>

Init ==
    /\ submitted = {} /\ closed = {} /\ succeeded = {} /\ accepted = {}

Submit(c) ==
    /\ c \notin submitted
    /\ submitted' = submitted \cup {c}
    /\ UNCHANGED <<closed, succeeded, accepted>>

Accept(c) ==
    /\ c \in submitted
    /\ accepted' = accepted \cup {c}
    /\ UNCHANGED <<submitted, closed, succeeded>>

\* A set of commands is closed at once (a time-out), each with either outcome;
\* a closed command may still change its outcome.
Close(S) ==
    /\ S \subseteq submitted
    /\ closed' = closed \cup S
    /\ succeeded' \subseteq accepted
    /\ \A c \in Commands \ S : c \in succeeded' <=> c \in succeeded
    /\ UNCHANGED <<submitted, accepted>>

Next ==
    \/ \E c \in Commands : Submit(c) \/ Accept(c)
    \/ \E S \in SUBSET Commands : Close(S)

Spec == Init /\ [][Next]_vars

\* No submitted command stays open.
EveryCommandCloses == \A c \in Commands : c \in submitted ~> c \in closed
=============================================================================
