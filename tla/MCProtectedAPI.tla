---------------------------- MODULE MCProtectedAPI ----------------------------
(***************************************************************************)
(* A small instance of ProtectedAPI for TLC.                               *)
(***************************************************************************)
EXTENDS ProtectedAPI, TLC

CONSTANTS q1, q2, other, c1, uA, uB, rd, wr

MCCaller      == Request \cup {Other}
MCScopeString == {None} \cup SUBSET Scope

\* Bound and unbound tokens, with the required scope, another, none and blanks.
MCGrants ==
    {[client |-> c1, resource |-> uA,   scope |-> {rd}],
     [client |-> c1, resource |-> uB,   scope |-> {}],
     [client |-> c1, resource |-> None, scope |-> {wr}],
     [client |-> c1, resource |-> None, scope |-> None]}

MCSymmetry == Permutations(Request) \cup Permutations(RawToken \ {Unissued})

=============================================================================
