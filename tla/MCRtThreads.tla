----------------------------- MODULE MCRtThreads -----------------------------
(***************************************************************************)
(* An instance for TLC: main, which is the most urgent, and two threads of *)
(* one priority, above the idle thread.                                    *)
(***************************************************************************)
EXTENDS RtThreads

CONSTANTS a, b

MCPriority == (main :> 0) @@ (a :> 1) @@ (b :> 1) @@ (idle :> 2)
=============================================================================
