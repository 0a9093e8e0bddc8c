----------------------------- MODULE HeapRegions ----------------------------
(***************************************************************************)
(* What a heap promises: the regions it has handed out lie in its memory   *)
(* and do not overlap, and none of them moves, shrinks or vanishes unless  *)
(* its owner asks for it.                                                  *)
(***************************************************************************)
EXTENDS Integers

CONSTANT Size          \* bytes of memory

VARIABLE live          \* regions handed out: records [ptr, size]

Region == [ptr : Nat, size : Nat \ {0}]

Disjoint(r, s) == r.ptr + r.size <= s.ptr \/ s.ptr + s.size <= r.ptr

Init == live = {}

Fitting(r, others) ==
    /\ r \in Region /\ r.ptr + r.size <= Size
    /\ \A s \in others : Disjoint(r, s)

Alloc == \E r \in live' \ live : Fitting(r, live) /\ live' = live \cup {r}

Free == \E r \in live : live' = live \ {r}

\* A region is cut short, or grows where it is.
Resize ==
    \E r \in live, new \in live' \ live :
       /\ new.ptr = r.ptr /\ Fitting(new, live \ {r})
       /\ live' = (live \ {r}) \cup {new}

Next == Alloc \/ Free \/ Resize

Spec == Init /\ [][Next]_live
=============================================================================
