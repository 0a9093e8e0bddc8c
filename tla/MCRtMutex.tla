------------------------------ MODULE MCRtMutex ------------------------------
(***************************************************************************)
(* An instance for TLC: three threads of different priorities above idle,  *)
(* the last of which never sleeps or waits, and a mutex of each kind.      *)
(***************************************************************************)
EXTENDS RtMutex

CONSTANTS mid, low

MCPriority == (main :> 0) @@ (mid :> 1) @@ (low :> 2) @@ (idle :> 3)
MCFlag     == <<"FIFO", "PRIO">>
MCWaits    == (main :> {-1, 1}) @@ (mid :> {-1}) @@ (low :> {0})

\* An error is read only by the thread that waited for a mutex, and its waiting begins
\* with clearing it; before that it decides nothing.
Live == <<[k EXCEPT !.error = [t \in Threads |-> IF wants[t] = None THEN "EOK" ELSE @[t]]],
          pc, clock, left, idles>>
=============================================================================
