---------------------------- MODULE LinkedLists ----------------------------
(***************************************************************************)
(* Singly linked lists of the kernel, and the sequences they stand for.    *)
(***************************************************************************)
EXTENDS Naturals, Sequences

NULL == 0

\* b is in s; s has no element twice.
In(b, s) == \E i \in 1..Len(s) : s[i] = b
Distinct(s) == \A i, j \in 1..Len(s) : s[i] = s[j] => i = j

\* The list that starts at first and follows the links nx is s.
Chain(nx, first, s) ==
    /\ first = IF s = <<>> THEN NULL ELSE s[1]
    /\ \A i \in 1..Len(s) : nx[s[i]] = IF i = Len(s) THEN NULL ELSE s[i + 1]

\* rt_list_remove: s without its i-th element.
Without(s, i) == [j \in 1..(Len(s) - 1) |-> IF j < i THEN s[j] ELSE s[j + 1]]
=============================================================================
