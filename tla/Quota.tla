------------------------------- MODULE Quota -------------------------------
(***************************************************************************)
(* What a limit on rows promises.  The services count the rows in one      *)
(* statement and create one in a later one, without a transaction:         *)
(* product-service.ts, device-service.ts, ota-service.ts.                  *)
(***************************************************************************)
EXTENDS Naturals, FiniteSets

CONSTANTS
    Requests,  \* requests that may be served together
    Limit      \* the documented limit

VARIABLES
    used,     \* rows that count
    admitted  \* requests that counted fewer than Limit, still to create

quotaVars == <<used, admitted>>

QuotaInit ==
    /\ used = 0
    /\ admitted = {}

Admit(r) ==
    /\ r \notin admitted
    /\ used < Limit
    /\ admitted' = admitted \cup {r}
    /\ UNCHANGED used

Occupy(r) ==
    /\ r \in admitted
    /\ used' = used + 1
    /\ admitted' = admitted \ {r}

\* A later check refuses the request, or it dies.
Withdraw(r) ==
    /\ r \in admitted
    /\ admitted' = admitted \ {r}
    /\ UNCHANGED used

Vacate ==
    /\ used > 0
    /\ used' = used - 1
    /\ UNCHANGED admitted

QuotaNext ==
    \/ \E r \in Requests : Admit(r) \/ Occupy(r) \/ Withdraw(r)
    \/ Vacate

QuotaSpec == QuotaInit /\ [][QuotaNext]_quotaVars

\* The limit is overrun by no more than the requests served together, less the
\* one that was within it.
OverrunBounded == used + Cardinality(admitted) < Limit + Cardinality(Requests)
=============================================================================
