---------------------------- MODULE BoundedQueue ----------------------------
(***************************************************************************)
(* What a message queue of the kernel promises its users: a sequence of    *)
(* messages with Places places.  A message takes its place before a        *)
(* receiver can see it and gives it back after it was delivered, so the    *)
(* queue may refuse a message while it has fewer than Places to offer.     *)
(***************************************************************************)
EXTENDS Naturals, Sequences

CONSTANTS Threads, Values, Places, None

VARIABLES q,      \* messages a receiver can take, oldest first
          used,   \* places taken
          want,   \* per thread: the message it is sending, if any
          got     \* per thread: the message it received last

vars == <<q, used, want, got>>

\* A request: to the front (urgent) or the back, with or without a place yet.
Request(v, front, placed) == [val |-> v, front |-> front, placed |-> placed]

Init == /\ q = <<>> /\ used = 0
        /\ want = [t \in Threads |-> None] /\ got = [t \in Threads |-> None]

TakePlace == used < Places /\ used' = used + 1

\* Only an ordinary message waits for its place.
Ask(t, v) == /\ want[t] = None /\ want' = [want EXCEPT ![t] = Request(v, FALSE, FALSE)]
             /\ UNCHANGED <<q, used, got>>

Enter(t, v, front) ==
    /\ want[t] \in {None, Request(v, FALSE, FALSE)}
    /\ TakePlace /\ want' = [want EXCEPT ![t] = Request(v, front, TRUE)]
    /\ UNCHANGED <<q, got>>

GiveUp(t) == /\ want[t] # None /\ ~want[t].placed /\ want' = [want EXCEPT ![t] = None]
             /\ UNCHANGED <<q, used, got>>

Put(t) == /\ want[t] # None /\ want[t].placed
          /\ q' = IF want[t].front THEN <<want[t].val>> \o q ELSE Append(q, want[t].val)
          /\ want' = [want EXCEPT ![t] = None]
          /\ UNCHANGED <<used, got>>

Get(t) == /\ q # <<>>
          /\ q' = Tail(q) /\ got' = [got EXCEPT ![t] = Head(q)]
          /\ UNCHANGED <<used, want>>

Release == /\ Len(q) < used /\ used' = used - 1
           /\ UNCHANGED <<q, want, got>>

\* A reset discards messages, the oldest first, and their places.
Discard == /\ q # <<>> /\ q' = Tail(q) /\ used' = used - 1
           /\ UNCHANGED <<want, got>>

Next ==
    \/ \E t \in Threads :
        \/ \E v \in Values : Ask(t, v) \/ \E front \in BOOLEAN : Enter(t, v, front)
        \/ GiveUp(t) \/ Put(t) \/ Get(t)
    \/ Release \/ Discard

Spec == Init /\ [][Next]_vars
=============================================================================
