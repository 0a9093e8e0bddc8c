-------------------------- MODULE MCRtMessageQueue --------------------------
(***************************************************************************)
(* The message queue with a pool of two blocks, for TLC.                   *)
(*                                                                         *)
(* Live is the part of the state that later steps can depend on, and the   *)
(* VIEW of the run: TLC tells two states apart only by it.  It leaves out  *)
(* the arguments of calls that have returned, what was received, the       *)
(* result of a wait nobody looks at any more, and old data in blocks that  *)
(* are free or about to be written.                                        *)
(***************************************************************************)
EXTENDS RtMessageQueue, TLC

CONSTANTS t1, t2, t3, m1, m2

Filled(b) == In(b, queued) \/ \E t \in Threads :
                 msg[t] = b /\ pc[t] \in {"linkin", "linkurgent", "copyout"}
Sends(t) == pc[t] \in {"sendwait", "sendready", "copyin", "linkin", "copyurgent", "linkurgent"}
Waits(t) == pc[t] \in {"sendwait", "sendready", "recvwait", "recvready"}

Live ==
    <<next, list, pool, wait, pc, msg, resetting,
      [b \in Blocks  |-> IF Filled(b) THEN data[b] ELSE None],
      [t \in Threads |-> IF Sends(t) THEN val[t] ELSE None],
      [t \in Threads |-> IF Waits(t) THEN <<timeout[t], error[t]>> ELSE <<>>]>>
=============================================================================
