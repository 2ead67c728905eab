----------------------------- MODULE MCTokenCache -----------------------------
(***************************************************************************)
(* A small instance of TokenCache for TLC.                                 *)
(***************************************************************************)
EXTENDS TokenCache, TLC

\* For the runs that check no liveness.
MCSymmetry ==
    Permutations(Goroutine) \cup Permutations(Resource) \cup Permutations(Token)

\* Time passes only while no goroutine can run: each is idle, has an HTTP call
\* under way or waits for a lock that another one holds.
Waiting(g) ==
    \/ pc[g] \in {"idle", "request", "response", "revokeRequest", "revokeResponse"}
    \/ pc[g] \in {"read", "lock", "evict"} /\ writer # None

PromptNext == Next /\ (clock' # clock => \A g \in Goroutine : Waiting(g))

PromptSpec == Init /\ [][PromptNext]_vars

=============================================================================
