------------------------------ MODULE MCRtEvent ------------------------------
(***************************************************************************)
(* An instance for TLC: main and the touch interrupt send, two threads of  *)
(* one priority receive.                                                   *)
(***************************************************************************)
EXTENDS RtEvent, TLC

CONSTANTS a, b

MCPriority == (main :> 0) @@ (a :> 1) @@ (b :> 1) @@ (idle :> 2)
MCWaits    == {-1, 0, 1}
AllOrAny   == {[set |-> {1, 2}, and |-> TRUE, clear |-> TRUE],
               [set |-> {1, 2}, and |-> FALSE, clear |-> TRUE],
               [set |-> {2}, and |-> TRUE, clear |-> FALSE]}
Twins      == Permutations({a, b})
=============================================================================
