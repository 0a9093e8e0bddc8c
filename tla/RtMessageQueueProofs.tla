------------------------ MODULE RtMessageQueueProofs ------------------------
(***************************************************************************)
(* No block of a message queue is lost, shared or in two lists, for any    *)
(* number of threads, blocks and messages.  IInv is the inductive          *)
(* invariant: the properties, the waiting lists and what a sender has done *)
(* before it links its block.                                              *)
(***************************************************************************)
EXTENDS RtMessageQueue, SequenceTheorems, TLAPS

-----------------------------------------------------------------------------
(* Sequences without repetition and singly linked lists. *)


LEMMA ConsFacts ==
    ASSUME NEW S, NEW x \in S, NEW s \in Seq(S)
    PROVE  /\ <<x>> \o s \in Seq(S) /\ Len(<<x>> \o s) = Len(s) + 1
           /\ (<<x>> \o s)[1] = x
           /\ \A i \in 1..Len(s) : (<<x>> \o s)[i + 1] = s[i]
<1>1. <<x>> \in Seq(S) /\ Len(<<x>>) = 1 /\ <<x>>[1] = x
  OBVIOUS
<1>2. /\ <<x>> \o s \in Seq(S)
      /\ Len(<<x>> \o s) = Len(<<x>>) + Len(s)
      /\ \A i \in 1 .. Len(<<x>>) + Len(s) : (<<x>> \o s)[i] =
                     IF i <= Len(<<x>>) THEN <<x>>[i] ELSE s[i - Len(<<x>>)]
  BY <1>1, ConcatProperties, Zenon
<1>3. Len(s) \in Nat
  BY LenProperties, Zenon
<1>4. (<<x>> \o s)[1] = x
  BY <1>1, <1>2, <1>3
<1>5. ASSUME NEW i \in 1..Len(s) PROVE (<<x>> \o s)[i + 1] = s[i]
  BY <1>1, <1>2, <1>3
<1> QED
  BY <1>1, <1>2, <1>3, <1>4, <1>5

LEMMA AppendFacts ==
    ASSUME NEW S, NEW x \in S, NEW s \in Seq(S)
    PROVE  /\ Append(s, x) \in Seq(S) /\ Len(Append(s, x)) = Len(s) + 1
           /\ Append(s, x)[Len(s) + 1] = x
           /\ \A i \in 1..Len(s) : Append(s, x)[i] = s[i]
           /\ Len(s) \in Nat
OBVIOUS

LEMMA TailFacts ==
    ASSUME NEW S, NEW s \in Seq(S), s # <<>>
    PROVE  /\ Tail(s) \in Seq(S) /\ Len(Tail(s)) = Len(s) - 1 /\ Len(s) \in Nat \ {0}
           /\ Head(s) = s[1] /\ Head(s) \in S
           /\ \A i \in 1..(Len(s) - 1) : Tail(s)[i] = s[i + 1]
<1>1. Len(s) \in Nat \ {0}
  BY LenProperties, EmptySeq, Zenon
<1> QED
  BY <1>1, HeadTailProperties

LEMMA WithoutFacts ==
    ASSUME NEW S, NEW s \in Seq(S), NEW i \in 1..Len(s)
    PROVE  /\ Without(s, i) \in Seq(S) /\ Len(Without(s, i)) = Len(s) - 1
           /\ \A j \in 1..(Len(s) - 1) : Without(s, i)[j] = IF j < i THEN s[j] ELSE s[j + 1]
<1>1. Len(s) - 1 \in Nat /\ Len(s) \in Nat
  BY LenProperties
<1>2. Without(s, i) \in [1..(Len(s) - 1) -> S]
  BY <1>1, ElementOfSeq DEF Without
<1>3. Without(s, i) \in Seq(S)
  BY <1>1, <1>2, SeqDef, Zenon
<1> QED
  BY <1>1, <1>2, <1>3, LenProperties DEF Without

LEMMA WithoutDistinct ==
    ASSUME NEW S, NEW s \in Seq(S), NEW k \in 1..Len(s), Distinct(s)
    PROVE  Distinct(Without(s, k))
<1> DEFINE w == Without(s, k)
<1>1. /\ Len(s) \in Nat /\ Len(w) = Len(s) - 1
      /\ \A j \in 1..(Len(s) - 1) : w[j] = IF j < k THEN s[j] ELSE s[j + 1]
  BY WithoutFacts, LenProperties, Zenon
<1> HIDE DEF w
<1>2. ASSUME NEW i \in 1..Len(w), NEW j \in 1..Len(w), w[i] = w[j] PROVE i = j
  <2>1. w[i] = s[IF i < k THEN i ELSE i + 1] /\ (IF i < k THEN i ELSE i + 1) \in 1..Len(s)
    BY <1>1
  <2>2. w[j] = s[IF j < k THEN j ELSE j + 1] /\ (IF j < k THEN j ELSE j + 1) \in 1..Len(s)
    BY <1>1
  <2>3. (IF i < k THEN i ELSE i + 1) = (IF j < k THEN j ELSE j + 1)
    BY <1>2, <2>1, <2>2, Zenon DEF Distinct
  <2> QED
    BY <1>1, <2>3
<1> QED
  BY <1>2, Zenon DEF w, Distinct

LEMMA TailIsWithout ==
    ASSUME NEW S, NEW s \in Seq(S), s # <<>>
    PROVE  Tail(s) = Without(s, 1) /\ 1 \in 1..Len(s)
<1>1. Len(s) \in Nat \ {0} /\ Len(s) - 1 \in Nat
  BY TailFacts
<1>2. Tail(s) \in [1..(Len(s) - 1) -> S]
  BY <1>1, TailFacts, LenProperties, Zenon
<1>3. Without(s, 1) \in [1..(Len(s) - 1) -> S]
  BY <1>1, WithoutFacts, LenProperties
<1>4. \A j \in 1..(Len(s) - 1) : Tail(s)[j] = Without(s, 1)[j]
  BY <1>1, TailFacts DEF Without
<1> QED
  BY <1>1, <1>2, <1>3, <1>4

LEMMA InTail ==
    ASSUME NEW S, NEW s \in Seq(S), s # <<>>, Distinct(s), NEW b
    PROVE  In(b, Tail(s)) <=> In(b, s) /\ b # s[1]
<1>1. /\ Len(Tail(s)) = Len(s) - 1 /\ Len(s) \in Nat \ {0}
      /\ \A i \in 1..(Len(s) - 1) : Tail(s)[i] = s[i + 1]
  BY TailFacts, Zenon
<1>2. ASSUME In(b, Tail(s)) PROVE In(b, s) /\ b # s[1]
  BY <1>1, <1>2 DEF In, Distinct
<1>3. ASSUME In(b, s), b # s[1] PROVE In(b, Tail(s))
  <2>1. PICK i \in 1..Len(s) : s[i] = b
    BY <1>3, Zenon DEF In
  <2>2. i # 1 /\ i - 1 \in 1..(Len(s) - 1) /\ Tail(s)[i - 1] = s[(i - 1) + 1] /\ (i - 1) + 1 = i
    BY <1>1, <1>3, <2>1
  <2> QED
    BY <1>1, <2>1, <2>2, Zenon DEF In
<1> QED
  BY <1>2, <1>3, Zenon

LEMMA InCons ==
    ASSUME NEW S, NEW x \in S, NEW s \in Seq(S), NEW b
    PROVE  In(b, <<x>> \o s) <=> b = x \/ In(b, s)
<1> DEFINE c == <<x>> \o s
<1>1. /\ Len(c) = Len(s) + 1 /\ c[1] = x /\ Len(s) \in Nat
      /\ \A i \in 1..Len(s) : c[i + 1] = s[i]
  BY ConsFacts, LenProperties
<1> HIDE DEF c
<1>2. ASSUME In(b, c) PROVE b = x \/ In(b, s)
  <2>1. PICK i \in 1..Len(c) : c[i] = b
    BY <1>2, Zenon DEF In
  <2>2. i = 1 \/ (i - 1 \in 1..Len(s) /\ c[(i - 1) + 1] = s[i - 1] /\ (i - 1) + 1 = i)
    BY <1>1
  <2> QED
    BY <1>1, <2>1, <2>2, Zenon DEF In
<1>3. ASSUME b = x \/ In(b, s) PROVE In(b, c)
  BY <1>1, <1>3 DEF In
<1> QED
  BY <1>2, <1>3, Zenon DEF c

LEMMA InAppend ==
    ASSUME NEW S, NEW x \in S, NEW s \in Seq(S), NEW b
    PROVE  In(b, Append(s, x)) <=> b = x \/ In(b, s)
<1> DEFINE c == Append(s, x)
<1>1. /\ Len(c) = Len(s) + 1 /\ c[Len(s) + 1] = x /\ Len(s) \in Nat
      /\ \A i \in 1..Len(s) : c[i] = s[i]
  BY AppendFacts
<1> HIDE DEF c
<1> QED
  BY <1>1 DEF In, c

LEMMA DistinctTail ==
    ASSUME NEW S, NEW s \in Seq(S), s # <<>>, Distinct(s)
    PROVE  Distinct(Tail(s))
BY TailIsWithout, WithoutDistinct, Zenon

LEMMA DistinctCons ==
    ASSUME NEW S, NEW x \in S, NEW s \in Seq(S), Distinct(s), ~In(x, s)
    PROVE  Distinct(<<x>> \o s)
<1> DEFINE c == <<x>> \o s
<1>1. /\ Len(c) = Len(s) + 1 /\ c[1] = x /\ Len(s) \in Nat
      /\ \A i \in 1..Len(s) : c[i + 1] = s[i]
  BY ConsFacts, LenProperties
<1> HIDE DEF c
<1>2. ASSUME NEW i \in 1..Len(c), NEW j \in 1..Len(c), c[i] = c[j] PROVE i = j
  <2>1. i = 1 \/ (i - 1 \in 1..Len(s) /\ c[i] = s[i - 1])
    <3>1. i # 1 => i - 1 \in 1..Len(s) /\ c[(i - 1) + 1] = s[i - 1] /\ (i - 1) + 1 = i
      BY <1>1
    <3> QED
      BY <3>1, Zenon
  <2>2. j = 1 \/ (j - 1 \in 1..Len(s) /\ c[j] = s[j - 1])
    <3>1. j # 1 => j - 1 \in 1..Len(s) /\ c[(j - 1) + 1] = s[j - 1] /\ (j - 1) + 1 = j
      BY <1>1
    <3> QED
      BY <3>1, Zenon
  <2> QED
    BY <1>1, <1>2, <2>1, <2>2 DEF In, Distinct
<1> QED
  BY <1>2, Zenon DEF c, Distinct

LEMMA DistinctAppend ==
    ASSUME NEW S, NEW x \in S, NEW s \in Seq(S), Distinct(s), ~In(x, s)
    PROVE  Distinct(Append(s, x))
<1> DEFINE c == Append(s, x)
<1>1. /\ Len(c) = Len(s) + 1 /\ c[Len(s) + 1] = x /\ Len(s) \in Nat
      /\ \A i \in 1..Len(s) : c[i] = s[i]
  BY AppendFacts
<1> HIDE DEF c
<1> QED
  BY <1>1 DEF In, Distinct, c

LEMMA ChainKeeps ==
    ASSUME NEW S, NEW s \in Seq(S), NEW nx, NEW ny, NEW first, Chain(nx, first, s),
           \A i \in 1..Len(s) : ny[s[i]] = nx[s[i]]
    PROVE  Chain(ny, first, s)
BY DEF Chain

LEMMA ChainTail ==
    ASSUME NEW S, NEW s \in Seq(S), s # <<>>, NEW nx, NEW first, Chain(nx, first, s)
    PROVE  Chain(nx, nx[first], Tail(s))
<1> DEFINE c == Tail(s)
<1>1. /\ Len(c) = Len(s) - 1 /\ Len(s) \in Nat \ {0} /\ c \in Seq(S)
      /\ \A i \in 1..(Len(s) - 1) : c[i] = s[i + 1]
  BY TailFacts, Zenon
<1>2. (c = <<>>) <=> (Len(c) = 0)
  BY <1>1, EmptySeq, Zenon
<1> HIDE DEF c
<1>3. first = s[1]
  BY Zenon DEF Chain
<1>4. \A i \in 1..Len(s) : nx[s[i]] = IF i = Len(s) THEN NULL ELSE s[i + 1]
  BY Zenon DEF Chain
<1>5. nx[s[1]] = IF 1 = Len(s) THEN NULL ELSE s[1 + 1]
  BY <1>1, <1>4
<1>6. 1 # Len(s) => c[1] = s[1 + 1]
  BY <1>1
<1>7. nx[first] = IF c = <<>> THEN NULL ELSE c[1]
  BY <1>1, <1>2, <1>3, <1>5, <1>6
<1>8. ASSUME NEW i \in 1..Len(c)
      PROVE  nx[c[i]] = IF i = Len(c) THEN NULL ELSE c[i + 1]
  <2>1. i + 1 \in 1..Len(s) /\ c[i] = s[i + 1]
    BY <1>1
  <2>2. nx[s[i + 1]] = IF i + 1 = Len(s) THEN NULL ELSE s[(i + 1) + 1]
    BY <1>4, <2>1, Zenon
  <2>3. i # Len(c) => c[i + 1] = s[(i + 1) + 1]
    BY <1>1
  <2>4. (i = Len(c)) <=> (i + 1 = Len(s))
    BY <1>1
  <2> QED
    BY <2>1, <2>2, <2>3, <2>4, Zenon
<1> QED
  BY <1>7, <1>8, Zenon DEF Chain, c

LEMMA ChainCons ==
    ASSUME NEW S, NEW s \in Seq(S), NEW x \in S, NEW nx, NEW ny, NEW first,
           Chain(nx, first, s), ny[x] = first,
           \A i \in 1..Len(s) : ny[s[i]] = nx[s[i]]
    PROVE  Chain(ny, x, <<x>> \o s)
<1> DEFINE c == <<x>> \o s
<1>1. /\ Len(c) = Len(s) + 1 /\ c[1] = x /\ Len(s) \in Nat /\ c \in Seq(S)
      /\ \A i \in 1..Len(s) : c[i + 1] = s[i]
  BY ConsFacts, LenProperties
<1>2. (s = <<>>) <=> (Len(s) = 0)
  BY EmptySeq, Zenon
<1> HIDE DEF c
<1>3. c # <<>>
  BY <1>1, EmptySeq
<1>4. ny[c[1]] = IF 1 = Len(c) THEN NULL ELSE c[1 + 1]
  BY <1>1, <1>2 DEF Chain
<1>5. ASSUME NEW i \in 1..Len(s)
      PROVE  ny[c[i + 1]] = IF i + 1 = Len(c) THEN NULL ELSE c[(i + 1) + 1]
  <2>1. nx[s[i]] = IF i = Len(s) THEN NULL ELSE s[i + 1]
    BY Zenon DEF Chain
  <2>2. i # Len(s) => c[(i + 1) + 1] = s[i + 1]
    BY <1>1
  <2> QED
    BY <1>1, <2>1, <2>2
<1>6. ASSUME NEW j \in 1..Len(c)
      PROVE  ny[c[j]] = IF j = Len(c) THEN NULL ELSE c[j + 1]
  <2>1. j = 1 \/ (j - 1 \in 1..Len(s) /\ (j - 1) + 1 = j)
    BY <1>1
  <2> QED
    BY <1>4, <1>5, <2>1, Zenon
<1> QED
  BY <1>1, <1>3, <1>6, Zenon DEF Chain, c

LEMMA ChainAppend ==
    ASSUME NEW S, NEW s \in Seq(S), NEW x \in S, NEW nx, NEW ny, NEW first,
           Chain(nx, first, s), ny[x] = NULL,
           s # <<>> => ny[s[Len(s)]] = x,
           \A i \in 1..Len(s) : i # Len(s) => ny[s[i]] = nx[s[i]]
    PROVE  Chain(ny, IF s = <<>> THEN x ELSE first, Append(s, x))
<1> DEFINE c == Append(s, x)
<1>1. /\ Len(c) = Len(s) + 1 /\ c[Len(s) + 1] = x /\ Len(s) \in Nat /\ c \in Seq(S)
      /\ \A i \in 1..Len(s) : c[i] = s[i]
  BY AppendFacts
<1>2. (s = <<>>) <=> (Len(s) = 0)
  BY EmptySeq, Zenon
<1> HIDE DEF c
<1>3. c # <<>>
  BY <1>1, EmptySeq
<1>4. (IF s = <<>> THEN x ELSE first) = c[1]
  BY <1>1, <1>2 DEF Chain
<1>5. ASSUME NEW i \in 1..Len(s)
      PROVE  ny[c[i]] = IF i = Len(c) THEN NULL ELSE c[i + 1]
  <2>1. nx[s[i]] = IF i = Len(s) THEN NULL ELSE s[i + 1]
    BY Zenon DEF Chain
  <2>2. i # Len(s) => c[i + 1] = s[i + 1]
    BY <1>1
  <2> QED
    BY <1>1, <1>2, <2>1, <2>2
<1>6. ASSUME NEW j \in 1..Len(c)
      PROVE  ny[c[j]] = IF j = Len(c) THEN NULL ELSE c[j + 1]
  BY <1>1, <1>5
<1> QED
  BY <1>3, <1>4, <1>6, Zenon DEF Chain, c

LEMMA LastOfTail ==
    ASSUME NEW S, NEW s \in Seq(S), s # <<>>, Distinct(s)
    PROVE  (IF s[Len(s)] = s[1] THEN NULL ELSE s[Len(s)])
           = (IF Tail(s) = <<>> THEN NULL ELSE Tail(s)[Len(Tail(s))])
<1> DEFINE c == Tail(s)
<1>1. /\ Len(c) = Len(s) - 1 /\ Len(s) \in Nat \ {0} /\ c \in Seq(S)
      /\ \A i \in 1..(Len(s) - 1) : c[i] = s[i + 1]
  BY TailFacts, Zenon
<1>2. (c = <<>>) <=> (Len(c) = 0)
  BY <1>1, EmptySeq, Zenon
<1> HIDE DEF c
<1>3. (s[Len(s)] = s[1]) <=> (Len(s) = 1)
  BY <1>1 DEF Distinct
<1>4. Len(s) # 1 => c[Len(s) - 1] = s[(Len(s) - 1) + 1] /\ (Len(s) - 1) + 1 = Len(s)
  BY <1>1
<1> QED
  BY <1>1, <1>2, <1>3, <1>4 DEF c
-----------------------------------------------------------------------------
(* The inductive invariant. *)

\* A thread is on a waiting list once, and only while it is suspended there.
WaitInv ==
    /\ \A i \in 1..Len(recvq) : pc[recvq[i]] = "recvwait"
    /\ \A i \in 1..Len(sendq) : pc[sendq[i]] = "sendwait"
    /\ \A i, j \in 1..Len(recvq) : recvq[i] = recvq[j] => i = j
    /\ \A i, j \in 1..Len(sendq) : sendq[i] = sendq[j] => i = j

Sending == {"sendwait", "sendready", "copyin", "linkin", "copyurgent", "linkurgent"}

\* A thread that sends has something to send, and has copied it and cleared the
\* block's link before it links the block.
SendOf(t) == /\ pc[t] \in Sending => val[t] \in Values
             /\ pc[t] \in {"linkin", "linkurgent"} => data[msg[t]] = val[t]
             /\ pc[t] = "linkin" => next[msg[t]] = NULL

SendInv == \A t \in Threads : SendOf(t)
-----------------------------------------------------------------------------
\* Arguments, results, errors and timeouts keep their types.
LEMMA CallTypeStep == TypeOK /\ [Next]_vars => CallType'
<1> SUFFICES ASSUME TypeOK, [Next]_vars PROVE CallType'
  BY Zenon
<1> USE PoolAssumption, NoneAssumption DEF NULL, Blocks
<1>1. ASSUME NEW t \in Threads, NEW v \in Values, SendNow(t, v) PROVE CallType'
  BY <1>1, Zenon DEF TypeOK, PoolType, ThreadType, CallType, SendNow, GetFree, Step, list, pool, wait, call, Points, Holding
<1>2. ASSUME NEW t \in Threads, NEW v \in Values, UrgentNow(t, v) PROVE CallType'
  BY <1>2, Zenon DEF TypeOK, PoolType, ThreadType, CallType, UrgentNow, GetFree, Step, list, pool, wait, call, Points, Holding
<1>3. ASSUME NEW t \in Threads, NEW v \in Values, NEW to \in Timeouts, SendWait(t, v, to) PROVE CallType'
  BY <1>3, TimeoutAssumption, Zenon DEF TypeOK, PoolType, ThreadType, CallType, SendWait, SuspendSender, Step, list, pool, wait, call, Points, Holding
<1>4. ASSUME NEW t \in Threads, NEW to \in Timeouts, RecvWait(t, to) PROVE CallType'
  BY <1>4, TimeoutAssumption, Zenon DEF TypeOK, PoolType, ThreadType, CallType, RecvWait, SuspendReceiver, Step, list, pool, wait, call, Points, Holding
<1>5. ASSUME NEW t \in Threads, SendFull(t) PROVE CallType'
  BY <1>5, Zenon DEF TypeOK, PoolType, ThreadType, CallType, SendFull, Step, list, pool, wait, call, Points, Holding
<1>6. ASSUME NEW t \in Threads, SendFails(t) PROVE CallType'
  BY <1>6, Zenon DEF TypeOK, PoolType, ThreadType, CallType, SendFails, Remaining, Step, list, pool, wait, call, Points, Holding
<1>7. ASSUME NEW t \in Threads, SendAgain(t) PROVE CallType'
  BY <1>7, Zenon DEF TypeOK, PoolType, ThreadType, CallType, SendAgain, GetFree, SuspendSender, Step, list, pool, wait, call, Points, Holding
<1>8. ASSUME NEW t \in Threads, CopyIn(t) PROVE CallType'
  BY <1>8, Zenon DEF TypeOK, PoolType, ThreadType, CallType, CopyIn, Step, list, pool, wait, call, Points, Holding
<1>9. ASSUME NEW t \in Threads, LinkIn(t) PROVE CallType'
  BY <1>9, Zenon DEF TypeOK, PoolType, ThreadType, CallType, LinkIn, Linked, Step, list, pool, wait, call, Points, Holding
<1>10. ASSUME NEW t \in Threads, CopyUrgent(t) PROVE CallType'
  BY <1>10, Zenon DEF TypeOK, PoolType, ThreadType, CallType, CopyUrgent, Step, list, pool, wait, call, Points, Holding
<1>11. ASSUME NEW t \in Threads, LinkUrgent(t) PROVE CallType'
  BY <1>11, Zenon DEF TypeOK, PoolType, ThreadType, CallType, LinkUrgent, Linked, Step, list, pool, wait, call, Points, Holding
<1>12. ASSUME NEW t \in Threads, RecvNow(t) PROVE CallType'
  BY <1>12, Zenon DEF TypeOK, PoolType, ThreadType, CallType, RecvNow, GetHead, Unlink, Step, list, pool, wait, call, Points, Holding
<1>13. ASSUME NEW t \in Threads, RecvFails(t) PROVE CallType'
  BY <1>13, Zenon DEF TypeOK, PoolType, ThreadType, CallType, RecvFails, Remaining, Step, list, pool, wait, call, Points, Holding
<1>14. ASSUME NEW t \in Threads, RecvAgain(t) PROVE CallType'
  BY <1>14, Zenon DEF TypeOK, PoolType, ThreadType, CallType, RecvAgain, GetHead, Unlink, SuspendReceiver, Step, list, pool, wait, call, Points, Holding
<1>15. ASSUME NEW t \in Threads, CopyOut(t) PROVE CallType'
  BY <1>15 DEF TypeOK, PoolType, ThreadType, CallType, CopyOut, Step, list, pool, wait, call, Points, Holding
<1>16. ASSUME NEW t \in Threads, PutFree(t) PROVE CallType'
  BY <1>16, Zenon DEF TypeOK, PoolType, ThreadType, CallType, PutFree, Step, list, pool, wait, call, Points, Holding
<1>17. ASSUME NEW t \in Threads, SenderTimeout(t) PROVE CallType'
  BY <1>17, Zenon DEF TypeOK, PoolType, ThreadType, CallType, SenderTimeout, Expire, Ready, Step, list, pool, wait, call, Points, Holding
<1>18. ASSUME NEW t \in Threads, ReceiverTimeout(t) PROVE CallType'
  BY <1>18, Zenon DEF TypeOK, PoolType, ThreadType, CallType, ReceiverTimeout, Expire, Ready, Step, list, pool, wait, call, Points, Holding
<1>19. ASSUME NEW t \in Threads, Reset(t) PROVE CallType'
  BY <1>19, Zenon DEF TypeOK, PoolType, ThreadType, CallType, Reset, Ready, Step, list, pool, wait, call, Points, Holding
<1>20. ASSUME ResetBlock PROVE CallType'
  BY <1>20, Zenon DEF TypeOK, PoolType, ThreadType, CallType, ResetBlock, Unlink, Step, list, pool, wait, call, Points, Holding
<1>21. ASSUME ResetDone PROVE CallType'
  BY <1>21, Zenon DEF TypeOK, PoolType, ThreadType, CallType, ResetDone, Step, list, pool, wait, call, Points, Holding
<1>22. CASE UNCHANGED vars
  BY <1>22, Zenon DEF TypeOK, PoolType, ThreadType, CallType, vars, list, pool, wait, call
<1> QED
  BY <1>1, <1>2, <1>3, <1>4, <1>5, <1>6, <1>7, <1>8, <1>9, <1>10, <1>11, <1>12, <1>13, <1>14, <1>15, <1>16, <1>17, <1>18, <1>19, <1>20, <1>21, <1>22, Zenon DEF Next, Calls, Goes

Lists == TypeOK /\ ListsSound
ThreadInv == ThreadType /\ WaitInv

LEMMA HeadBlock ==
    ASSUME Lists, resetting = None, entry # 0
    PROVE  queued # <<>> /\ head = queued[1] /\ head \in Blocks
<1>1. queued # <<>> /\ Len(queued) \in Nat \ {0}
  BY EmptySeq, LenProperties, Zenon DEF Lists, TypeOK, PoolType, ListsSound
<1> QED
  BY <1>1, ElementOfSeq DEF Lists, TypeOK, PoolType, ListsSound, Chain

LEMMA FreeBlock ==
    ASSUME Lists, free # NULL
    PROVE  unused # <<>> /\ free = unused[1] /\ free \in Blocks
<1>1. unused # <<>> /\ Len(unused) \in Nat \ {0}
  BY EmptySeq, LenProperties, Zenon DEF Lists, TypeOK, PoolType, ListsSound, Chain
<1> QED
  BY <1>1, ElementOfSeq DEF Lists, TypeOK, PoolType, ListsSound, Chain

LEMMA FirstBlock ==
    ASSUME Lists, head # NULL
    PROVE  queued # <<>> /\ head = queued[1] /\ head \in Blocks
<1>1. queued # <<>> /\ Len(queued) \in Nat \ {0}
  BY EmptySeq, LenProperties, Zenon DEF Lists, TypeOK, PoolType, ListsSound, Chain
<1> QED
  BY <1>1, ElementOfSeq DEF Lists, TypeOK, PoolType, ListsSound, Chain

Waiting == {"recvwait", "sendwait"}

\* A running thread goes from one point to another.
LEMMA Moves ==
    ASSUME ThreadInv, NEW t \in Threads, NEW to \in Points, NEW m \in 0..MaxMsgs,
           pc[t] \notin Waiting, pc' = [pc EXCEPT ![t] = to],
           msg' = [msg EXCEPT ![t] = m], m # NULL <=> to \in Holding,
           recvq' = recvq, sendq' = sendq
    PROVE  ThreadInv'
<1>1. ThreadType'
  BY Zenon DEF ThreadInv, ThreadType
<1>2. WaitInv'
  BY ElementOfSeq DEF ThreadInv, ThreadType, WaitInv, Waiting
<1> QED
  BY <1>1, <1>2, Zenon DEF ThreadInv

\* A running thread is suspended at the end of a waiting list.
LEMMA Suspends ==
    ASSUME ThreadInv, NEW t \in Threads, NEW to \in Waiting,
           pc[t] \notin Waiting, pc[t] \notin Holding, pc' = [pc EXCEPT ![t] = to],
           msg' = msg,
           recvq' = IF to = "recvwait" THEN Append(recvq, t) ELSE recvq,
           sendq' = IF to = "sendwait" THEN Append(sendq, t) ELSE sendq
    PROVE  ThreadInv'
<1>1. ThreadType'
  BY AppendFacts DEF ThreadInv, ThreadType, Points, Holding, Waiting
<1>2. /\ \A i \in 1..Len(recvq) : pc[recvq[i]] = "recvwait" /\ recvq[i] # t /\ recvq[i] \in Threads
      /\ \A i \in 1..Len(sendq) : pc[sendq[i]] = "sendwait" /\ sendq[i] # t /\ sendq[i] \in Threads
  BY ElementOfSeq, Zenon DEF ThreadInv, ThreadType, WaitInv, Waiting
<1>3. /\ \A i \in 1..Len(recvq) : pc'[recvq[i]] = "recvwait"
      /\ \A i \in 1..Len(sendq) : pc'[sendq[i]] = "sendwait"
      /\ pc'[t] = to
  BY <1>2, Zenon DEF ThreadInv, ThreadType
<1>4. CASE to = "recvwait"
  <2>1. /\ Len(recvq') = Len(recvq) + 1 /\ Len(recvq) \in Nat
        /\ recvq'[Len(recvq) + 1] = t
        /\ \A i \in 1..Len(recvq) : recvq'[i] = recvq[i]
        /\ sendq' = sendq
    BY <1>4, AppendFacts DEF ThreadInv, ThreadType
  <2> QED
    BY <1>1, <1>2, <1>3, <1>4, <2>1 DEF ThreadInv, WaitInv
<1>5. CASE to = "sendwait"
  <2>1. /\ Len(sendq') = Len(sendq) + 1 /\ Len(sendq) \in Nat
        /\ sendq'[Len(sendq) + 1] = t
        /\ \A i \in 1..Len(sendq) : sendq'[i] = sendq[i]
        /\ recvq' = recvq
    BY <1>5, AppendFacts DEF ThreadInv, ThreadType
  <2> QED
    BY <1>1, <1>2, <1>3, <1>5, <2>1 DEF ThreadInv, WaitInv
<1> QED
  BY <1>4, <1>5, Zenon DEF Waiting

\* The thread at place k of a waiting list is resumed and taken off the list.
LEMMA Resumes ==
    ASSUME ThreadInv, NEW to \in Waiting, NEW u \in Threads, NEW k \in Nat,
           pc' \in [Threads -> Points], msg' \in [Threads -> 0..MaxMsgs],
           \A v \in Threads : msg'[v] # NULL <=> pc'[v] \in Holding,
           \A v \in Threads : v # u /\ pc[v] \in Waiting => pc'[v] = pc[v],
           \/ /\ to = "recvwait" /\ k \in 1..Len(recvq) /\ u = recvq[k]
              /\ recvq' = Without(recvq, k) /\ sendq' = sendq
           \/ /\ to = "sendwait" /\ k \in 1..Len(sendq) /\ u = sendq[k]
              /\ sendq' = Without(sendq, k) /\ recvq' = recvq
    PROVE  ThreadInv'
<1>1. pc[u] = to /\ pc[u] \in Waiting
  BY DEF ThreadInv, WaitInv
<1>2. ThreadType'
  BY <1>1, WithoutFacts, ZenonT(40) DEF ThreadInv, ThreadType
<1>3. /\ \A i \in 1..Len(recvq) : recvq[i] \in Threads
      /\ \A i \in 1..Len(sendq) : sendq[i] \in Threads
      /\ Len(recvq) \in Nat /\ Len(sendq) \in Nat
  BY ElementOfSeq, LenProperties, Zenon DEF ThreadInv, ThreadType
<1>4. CASE to = "recvwait"
  <2>1. /\ sendq' = sendq /\ Distinct(recvq')
        /\ \A j \in 1..Len(recvq') : \E b \in 1..Len(recvq) : b # k /\ recvq'[j] = recvq[b]
    <3>1. k \in 1..Len(recvq) /\ recvq' = Without(recvq, k) /\ sendq' = sendq
      BY <1>4, Zenon
    <3>2. recvq \in Seq(Threads) /\ Distinct(recvq)
      BY Zenon DEF ThreadInv, ThreadType, WaitInv, Distinct
    <3>3. Distinct(Without(recvq, k))
      BY <3>1, <3>2, WithoutDistinct, Zenon
    <3>4. \A j \in 1..Len(Without(recvq, k)) :
             \E b \in 1..Len(recvq) : b # k /\ Without(recvq, k)[j] = recvq[b]
      <4>1. /\ Len(recvq) \in Nat /\ Len(Without(recvq, k)) = Len(recvq) - 1
            /\ \A j \in 1..(Len(recvq) - 1) :
                  Without(recvq, k)[j] = IF j < k THEN recvq[j] ELSE recvq[j + 1]
        BY <3>1, <3>2, WithoutFacts, LenProperties, Zenon
      <4> QED
        BY <3>1, <4>1, SMTT(30)
    <3> QED
      BY <3>1, <3>3, <3>4, Zenon DEF Distinct
  <2>2. \A i \in 1..Len(sendq) : sendq[i] # u /\ pc'[sendq[i]] = "sendwait"
    BY <1>1, <1>3, <1>4, Zenon DEF ThreadInv, WaitInv, Waiting
  <2>3. ASSUME NEW j \in 1..Len(recvq') PROVE pc'[recvq'[j]] = "recvwait"
    <3>1. PICK b \in 1..Len(recvq) : b # k /\ recvq'[j] = recvq[b]
      BY <2>1, Zenon
    <3>2. recvq[b] # u /\ pc[recvq[b]] = "recvwait" /\ recvq[b] \in Threads
      <4>1. k \in 1..Len(recvq) /\ u = recvq[k]
        BY <1>4, Zenon
      <4>2. /\ pc[recvq[b]] = "recvwait"
            /\ \A m, n \in 1..Len(recvq) : recvq[m] = recvq[n] => m = n
        BY Zenon DEF ThreadInv, WaitInv
      <4> QED
        BY <1>3, <3>1, <4>1, <4>2, Zenon
    <3> QED
      BY <3>1, <3>2, Zenon DEF Waiting
  <2> QED
    BY <1>2, <2>1, <2>2, <2>3 DEF ThreadInv, WaitInv, Distinct
<1>5. CASE to = "sendwait"
  <2>1. /\ recvq' = recvq /\ Distinct(sendq')
        /\ \A j \in 1..Len(sendq') : \E b \in 1..Len(sendq) : b # k /\ sendq'[j] = sendq[b]
    <3>1. k \in 1..Len(sendq) /\ sendq' = Without(sendq, k) /\ recvq' = recvq
      BY <1>5, Zenon
    <3>2. sendq \in Seq(Threads) /\ Distinct(sendq)
      BY Zenon DEF ThreadInv, ThreadType, WaitInv, Distinct
    <3>3. Distinct(Without(sendq, k))
      BY <3>1, <3>2, WithoutDistinct, Zenon
    <3>4. \A j \in 1..Len(Without(sendq, k)) :
             \E b \in 1..Len(sendq) : b # k /\ Without(sendq, k)[j] = sendq[b]
      <4>1. /\ Len(sendq) \in Nat /\ Len(Without(sendq, k)) = Len(sendq) - 1
            /\ \A j \in 1..(Len(sendq) - 1) :
                  Without(sendq, k)[j] = IF j < k THEN sendq[j] ELSE sendq[j + 1]
        BY <3>1, <3>2, WithoutFacts, LenProperties, Zenon
      <4> QED
        BY <3>1, <4>1, SMTT(30)
    <3> QED
      BY <3>1, <3>3, <3>4, Zenon DEF Distinct
  <2>2. \A i \in 1..Len(recvq) : recvq[i] # u /\ pc'[recvq[i]] = "recvwait"
    BY <1>1, <1>3, <1>5, Zenon DEF ThreadInv, WaitInv, Waiting
  <2>3. ASSUME NEW j \in 1..Len(sendq') PROVE pc'[sendq'[j]] = "sendwait"
    <3>1. PICK b \in 1..Len(sendq) : b # k /\ sendq'[j] = sendq[b]
      BY <2>1, Zenon
    <3>2. sendq[b] # u /\ pc[sendq[b]] = "sendwait" /\ sendq[b] \in Threads
      <4>1. k \in 1..Len(sendq) /\ u = sendq[k]
        BY <1>5, Zenon
      <4>2. /\ pc[sendq[b]] = "sendwait"
            /\ \A m, n \in 1..Len(sendq) : sendq[m] = sendq[n] => m = n
        BY Zenon DEF ThreadInv, WaitInv
      <4> QED
        BY <1>3, <3>1, <4>1, <4>2, Zenon
    <3> QED
      BY <3>1, <3>2, Zenon DEF Waiting
  <2> QED
    BY <1>2, <2>1, <2>2, <2>3 DEF ThreadInv, WaitInv, Distinct
<1> QED
  BY <1>4, <1>5, Zenon DEF Waiting

LEMMA TakesBlock ==
    ASSUME ThreadInv, NEW t \in Threads, NEW to \in Points, NEW m \in 0..MaxMsgs,
           m # NULL, pc[t] \notin Waiting, to \in Holding, pc' = [pc EXCEPT ![t] = to],
           msg' = [msg EXCEPT ![t] = m], recvq' = recvq, sendq' = sendq
    PROVE  ThreadInv'
BY Moves

LEMMA DropsBlock ==
    ASSUME ThreadInv, NEW t \in Threads, NEW to \in Points,
           pc[t] \notin Waiting, to \notin Holding, pc' = [pc EXCEPT ![t] = to],
           msg' = [msg EXCEPT ![t] = NULL], recvq' = recvq, sendq' = sendq
    PROVE  ThreadInv'
<1>1. NULL \in 0..MaxMsgs /\ (NULL # NULL <=> to \in Holding)
  BY PoolAssumption DEF NULL
<1> QED
  BY <1>1, Moves, Zenon

\* A running thread goes on with the block it has, or without one.
LEMMA KeepsBlock ==
    ASSUME ThreadInv, NEW t \in Threads, NEW to \in Points,
           pc[t] \notin Waiting, pc[t] \in Holding <=> to \in Holding,
           pc' = [pc EXCEPT ![t] = to], msg' = msg, recvq' = recvq, sendq' = sendq
    PROVE  ThreadInv'
<1>1. msg' = [msg EXCEPT ![t] = msg[t]] /\ msg[t] \in 0..MaxMsgs /\ (msg[t] # NULL <=> pc[t] \in Holding)
  BY Zenon DEF ThreadInv, ThreadType
<1> QED
  BY <1>1, Moves, Zenon

\* Positions agree with the blocks held and with the waiting lists.
LEMMA ThreadStep == Lists /\ ThreadInv /\ [Next]_vars => ThreadInv'
<1> SUFFICES ASSUME Lists /\ ThreadInv, [Next]_vars PROVE ThreadInv'
  BY Zenon
<1> USE PoolAssumption, NoneAssumption DEF NULL, Blocks
<1>1. ASSUME NEW t \in Threads, NEW v \in Values, SendNow(t, v) PROVE ThreadInv'
  <2>1. pc[t] = "idle" /\ pc' = [pc EXCEPT ![t] = "copyin"] /\ recvq' = recvq /\ sendq' = sendq
    BY <1>1, Zenon DEF SendNow, Step, wait
  <2>2. free \in 0..MaxMsgs /\ free # NULL /\ msg' = [msg EXCEPT ![t] = free]
    BY <1>1, FreeBlock DEF SendNow, GetFree
  <2> QED
    BY <2>1, <2>2, TakesBlock, Zenon DEF Points, Holding, Waiting
<1>2. ASSUME NEW t \in Threads, NEW v \in Values, UrgentNow(t, v) PROVE ThreadInv'
  <2>1. pc[t] = "idle" /\ pc' = [pc EXCEPT ![t] = "copyurgent"] /\ recvq' = recvq /\ sendq' = sendq
    BY <1>2, Zenon DEF UrgentNow, Step, wait
  <2>2. free \in 0..MaxMsgs /\ free # NULL /\ msg' = [msg EXCEPT ![t] = free]
    BY <1>2, FreeBlock DEF UrgentNow, GetFree
  <2> QED
    BY <2>1, <2>2, TakesBlock, Zenon DEF Points, Holding, Waiting
<1>3. ASSUME NEW t \in Threads, NEW v \in Values, NEW to \in Timeouts, SendWait(t, v, to) PROVE ThreadInv'
  BY <1>3, Suspends, Zenon DEF SendWait, Step, SuspendSender, Holding, Waiting
<1>4. ASSUME NEW t \in Threads, NEW to \in Timeouts, RecvWait(t, to) PROVE ThreadInv'
  BY <1>4, Suspends, Zenon DEF RecvWait, Step, SuspendReceiver, Holding, Waiting
<1>5. ASSUME NEW t \in Threads, SendFull(t) PROVE ThreadInv'
  <2>1. pc[t] = "idle" /\ pc' = [pc EXCEPT ![t] = "idle"] /\ recvq' = recvq /\ sendq' = sendq /\ msg' = msg
    BY <1>5, Zenon DEF SendFull, Step, wait
  <2> QED
    BY <2>1, KeepsBlock, Zenon DEF Points, Holding, Waiting
<1>6. ASSUME NEW t \in Threads, SendFails(t) PROVE ThreadInv'
  <2>1. pc[t] = "sendready" /\ pc' = [pc EXCEPT ![t] = "idle"] /\ recvq' = recvq /\ sendq' = sendq /\ msg' = msg
    BY <1>6, Zenon DEF SendFails, Step, wait
  <2> QED
    BY <2>1, KeepsBlock, Zenon DEF Points, Holding, Waiting
<1>7. ASSUME NEW t \in Threads, SendAgain(t) PROVE ThreadInv'
  <2>1. CASE Step(t, "sendready", "copyin") /\ GetFree(t) /\ UNCHANGED wait
    <3>1. pc[t] = "sendready" /\ pc' = [pc EXCEPT ![t] = "copyin"] /\ recvq' = recvq /\ sendq' = sendq
      BY <2>1, Zenon DEF Step, wait
    <3>2. free \in 0..MaxMsgs /\ free # NULL /\ msg' = [msg EXCEPT ![t] = free]
      BY <2>1, FreeBlock DEF GetFree, Step
    <3> QED
      BY <3>1, <3>2, TakesBlock, Zenon DEF Points, Holding, Waiting
  <2>2. CASE Step(t, "sendready", "sendwait") /\ SuspendSender(t, timeout[t])
    BY <2>2, Suspends, Zenon DEF Step, SuspendSender, Holding, Waiting
  <2> QED
    BY <1>7, <2>1, <2>2, Zenon DEF SendAgain
<1>8. ASSUME NEW t \in Threads, CopyIn(t) PROVE ThreadInv'
  <2>1. pc[t] = "copyin" /\ pc' = [pc EXCEPT ![t] = "linkin"] /\ recvq' = recvq /\ sendq' = sendq /\ msg' = msg
    BY <1>8, Zenon DEF CopyIn, Step, wait
  <2> QED
    BY <2>1, KeepsBlock, Zenon DEF Points, Holding, Waiting
<1>9. ASSUME NEW t \in Threads, LinkIn(t) PROVE ThreadInv'
  <2>1. /\ pc[t] = "linkin" /\ msg' = [msg EXCEPT ![t] = NULL] /\ sendq' = sendq
        /\ \/ recvq' = recvq /\ pc' = [pc EXCEPT ![t] = "idle"]
           \/ /\ recvq # <<>> /\ recvq' = Tail(recvq)
              /\ pc' = [pc EXCEPT ![t] = "idle", ![Head(recvq)] = "recvready"]
    BY <1>9, Zenon DEF LinkIn, Linked
  <2>2. CASE recvq' = recvq /\ pc' = [pc EXCEPT ![t] = "idle"]
    BY <2>1, <2>2, DropsBlock, Zenon DEF Points, Holding, Waiting
  <2>3. CASE /\ recvq # <<>> /\ recvq' = Tail(recvq)
             /\ pc' = [pc EXCEPT ![t] = "idle", ![Head(recvq)] = "recvready"]
    <3>1. 1 \in 1..Len(recvq) /\ recvq' = Without(recvq, 1) /\ Head(recvq) = recvq[1] /\ recvq[1] \in Threads
      BY <2>3, TailIsWithout, TailFacts DEF ThreadInv, ThreadType
    <3>2. pc[recvq[1]] = "recvwait"
      BY <3>1, Zenon DEF ThreadInv, WaitInv
    <3>3. pc' \in [Threads -> Points] /\ msg' \in [Threads -> 0..MaxMsgs]
      <4>1. pc \in [Threads -> Points] /\ msg \in [Threads -> 0..MaxMsgs] /\ 0 \in 0..MaxMsgs
        BY DEF ThreadInv, ThreadType
      <4> QED
        BY <2>1, <2>3, <3>1, <4>1, Zenon DEF Points
    <3>4. \A v \in Threads : msg'[v] # NULL <=> pc'[v] \in Holding
      BY <2>1, <2>3, <3>1, <3>2, Zenon DEF ThreadInv, ThreadType, Holding
    <3>5. \A v \in Threads : v # recvq[1] /\ pc[v] \in Waiting => pc'[v] = pc[v]
      BY <2>1, <2>3, <3>1, Zenon DEF ThreadInv, ThreadType, Waiting
    <3> QED
      BY <2>1, <3>1, <3>3, <3>4, <3>5, Resumes, Zenon DEF Waiting
  <2> QED
    BY <2>1, <2>2, <2>3, Zenon
<1>10. ASSUME NEW t \in Threads, CopyUrgent(t) PROVE ThreadInv'
  <2>1. pc[t] = "copyurgent" /\ pc' = [pc EXCEPT ![t] = "linkurgent"] /\ recvq' = recvq /\ sendq' = sendq /\ msg' = msg
    BY <1>10, Zenon DEF CopyUrgent, Step, wait
  <2> QED
    BY <2>1, KeepsBlock, Zenon DEF Points, Holding, Waiting
<1>11. ASSUME NEW t \in Threads, LinkUrgent(t) PROVE ThreadInv'
  <2>1. /\ pc[t] = "linkurgent" /\ msg' = [msg EXCEPT ![t] = NULL] /\ sendq' = sendq
        /\ \/ recvq' = recvq /\ pc' = [pc EXCEPT ![t] = "idle"]
           \/ /\ recvq # <<>> /\ recvq' = Tail(recvq)
              /\ pc' = [pc EXCEPT ![t] = "idle", ![Head(recvq)] = "recvready"]
    BY <1>11, Zenon DEF LinkUrgent, Linked
  <2>2. CASE recvq' = recvq /\ pc' = [pc EXCEPT ![t] = "idle"]
    BY <2>1, <2>2, DropsBlock, Zenon DEF Points, Holding, Waiting
  <2>3. CASE /\ recvq # <<>> /\ recvq' = Tail(recvq)
             /\ pc' = [pc EXCEPT ![t] = "idle", ![Head(recvq)] = "recvready"]
    <3>1. 1 \in 1..Len(recvq) /\ recvq' = Without(recvq, 1) /\ Head(recvq) = recvq[1] /\ recvq[1] \in Threads
      BY <2>3, TailIsWithout, TailFacts DEF ThreadInv, ThreadType
    <3>2. pc[recvq[1]] = "recvwait"
      BY <3>1, Zenon DEF ThreadInv, WaitInv
    <3>3. pc' \in [Threads -> Points] /\ msg' \in [Threads -> 0..MaxMsgs]
      <4>1. pc \in [Threads -> Points] /\ msg \in [Threads -> 0..MaxMsgs] /\ 0 \in 0..MaxMsgs
        BY DEF ThreadInv, ThreadType
      <4> QED
        BY <2>1, <2>3, <3>1, <4>1, Zenon DEF Points
    <3>4. \A v \in Threads : msg'[v] # NULL <=> pc'[v] \in Holding
      BY <2>1, <2>3, <3>1, <3>2, Zenon DEF ThreadInv, ThreadType, Holding
    <3>5. \A v \in Threads : v # recvq[1] /\ pc[v] \in Waiting => pc'[v] = pc[v]
      BY <2>1, <2>3, <3>1, Zenon DEF ThreadInv, ThreadType, Waiting
    <3> QED
      BY <2>1, <3>1, <3>3, <3>4, <3>5, Resumes, Zenon DEF Waiting
  <2> QED
    BY <2>1, <2>2, <2>3, Zenon
<1>12. ASSUME NEW t \in Threads, RecvNow(t) PROVE ThreadInv'
  <2>1. pc[t] = "idle" /\ pc' = [pc EXCEPT ![t] = "copyout"] /\ recvq' = recvq /\ sendq' = sendq
    BY <1>12, Zenon DEF RecvNow, Step, wait
  <2>2. head \in 0..MaxMsgs /\ head # NULL /\ msg' = [msg EXCEPT ![t] = head]
    BY <1>12, HeadBlock DEF RecvNow, GetHead, Step
  <2> QED
    BY <2>1, <2>2, TakesBlock, Zenon DEF Points, Holding, Waiting
<1>13. ASSUME NEW t \in Threads, RecvFails(t) PROVE ThreadInv'
  <2>1. pc[t] = "recvready" /\ pc' = [pc EXCEPT ![t] = "idle"] /\ recvq' = recvq /\ sendq' = sendq /\ msg' = msg
    BY <1>13, Zenon DEF RecvFails, Step, wait
  <2> QED
    BY <2>1, KeepsBlock, Zenon DEF Points, Holding, Waiting
<1>14. ASSUME NEW t \in Threads, RecvAgain(t) PROVE ThreadInv'
  <2>1. CASE Step(t, "recvready", "copyout") /\ GetHead(t) /\ UNCHANGED wait
    <3>1. pc[t] = "recvready" /\ pc' = [pc EXCEPT ![t] = "copyout"] /\ recvq' = recvq /\ sendq' = sendq
      BY <2>1, Zenon DEF Step, wait
    <3>2. head \in 0..MaxMsgs /\ head # NULL /\ msg' = [msg EXCEPT ![t] = head]
      BY <2>1, HeadBlock DEF GetHead, Step
    <3> QED
      BY <3>1, <3>2, TakesBlock, Zenon DEF Points, Holding, Waiting
  <2>2. CASE Step(t, "recvready", "recvwait") /\ SuspendReceiver(t, timeout[t])
    BY <2>2, Suspends, Zenon DEF Step, SuspendReceiver, Holding, Waiting
  <2> QED
    BY <1>14, <2>1, <2>2, Zenon DEF RecvAgain
<1>15. ASSUME NEW t \in Threads, CopyOut(t) PROVE ThreadInv'
  <2>1. pc[t] = "copyout" /\ pc' = [pc EXCEPT ![t] = "putfree"] /\ recvq' = recvq /\ sendq' = sendq /\ msg' = msg
    BY <1>15, Zenon DEF CopyOut, Step, wait
  <2> QED
    BY <2>1, KeepsBlock, Zenon DEF Points, Holding, Waiting
<1>16. ASSUME NEW t \in Threads, PutFree(t) PROVE ThreadInv'
  <2>1. /\ pc[t] = "putfree" /\ msg' = [msg EXCEPT ![t] = NULL] /\ recvq' = recvq
        /\ \/ sendq' = sendq /\ pc' = [pc EXCEPT ![t] = "idle"]
           \/ /\ sendq # <<>> /\ sendq' = Tail(sendq)
              /\ pc' = [pc EXCEPT ![t] = "idle", ![Head(sendq)] = "sendready"]
    BY <1>16, Zenon DEF PutFree
  <2>2. CASE sendq' = sendq /\ pc' = [pc EXCEPT ![t] = "idle"]
    BY <2>1, <2>2, DropsBlock, Zenon DEF Points, Holding, Waiting
  <2>3. CASE /\ sendq # <<>> /\ sendq' = Tail(sendq)
             /\ pc' = [pc EXCEPT ![t] = "idle", ![Head(sendq)] = "sendready"]
    <3>1. 1 \in 1..Len(sendq) /\ sendq' = Without(sendq, 1) /\ Head(sendq) = sendq[1] /\ sendq[1] \in Threads
      BY <2>3, TailIsWithout, TailFacts DEF ThreadInv, ThreadType
    <3>2. pc[sendq[1]] = "sendwait"
      BY <3>1, Zenon DEF ThreadInv, WaitInv
    <3>3. pc' \in [Threads -> Points] /\ msg' \in [Threads -> 0..MaxMsgs]
      <4>1. pc \in [Threads -> Points] /\ msg \in [Threads -> 0..MaxMsgs] /\ 0 \in 0..MaxMsgs
        BY DEF ThreadInv, ThreadType
      <4> QED
        BY <2>1, <2>3, <3>1, <4>1, Zenon DEF Points
    <3>4. \A v \in Threads : msg'[v] # NULL <=> pc'[v] \in Holding
      BY <2>1, <2>3, <3>1, <3>2, Zenon DEF ThreadInv, ThreadType, Holding
    <3>5. \A v \in Threads : v # sendq[1] /\ pc[v] \in Waiting => pc'[v] = pc[v]
      BY <2>1, <2>3, <3>1, Zenon DEF ThreadInv, ThreadType, Waiting
    <3> QED
      BY <2>1, <3>1, <3>3, <3>4, <3>5, Resumes, Zenon DEF Waiting
  <2> QED
    BY <2>1, <2>2, <2>3, Zenon
<1>17. ASSUME NEW t \in Threads, SenderTimeout(t) PROVE ThreadInv'
  <2>1. pc[t] = "sendwait" /\ pc' = [pc EXCEPT ![t] = "sendready"] /\ msg' = msg /\ recvq' = recvq
    BY <1>17, Zenon DEF SenderTimeout, Expire, Step, Ready
  <2>2. PICK i \in 1..Len(sendq) : sendq[i] = t /\ sendq' = Without(sendq, i)
    BY <1>17, Zenon DEF SenderTimeout
  <2>3. pc' \in [Threads -> Points] /\ msg' \in [Threads -> 0..MaxMsgs]
    BY <2>1, Zenon DEF ThreadInv, ThreadType, Points
  <2>4. \A v \in Threads : msg'[v] # NULL <=> pc'[v] \in Holding
    BY <2>1, Zenon DEF ThreadInv, ThreadType, Holding
  <2>5. \A v \in Threads : v # t /\ pc[v] \in Waiting => pc'[v] = pc[v]
    BY <2>1, Zenon DEF ThreadInv, ThreadType
  <2> QED
    BY <2>1, <2>2, <2>3, <2>4, <2>5, Resumes DEF Waiting
<1>18. ASSUME NEW t \in Threads, ReceiverTimeout(t) PROVE ThreadInv'
  <2>1. pc[t] = "recvwait" /\ pc' = [pc EXCEPT ![t] = "recvready"] /\ msg' = msg /\ sendq' = sendq
    BY <1>18, Zenon DEF ReceiverTimeout, Expire, Step, Ready
  <2>2. PICK i \in 1..Len(recvq) : recvq[i] = t /\ recvq' = Without(recvq, i)
    BY <1>18, Zenon DEF ReceiverTimeout
  <2>3. pc' \in [Threads -> Points] /\ msg' \in [Threads -> 0..MaxMsgs]
    BY <2>1, Zenon DEF ThreadInv, ThreadType, Points
  <2>4. \A v \in Threads : msg'[v] # NULL <=> pc'[v] \in Holding
    BY <2>1, Zenon DEF ThreadInv, ThreadType, Holding
  <2>5. \A v \in Threads : v # t /\ pc[v] \in Waiting => pc'[v] = pc[v]
    BY <2>1, Zenon DEF ThreadInv, ThreadType
  <2> QED
    BY <2>1, <2>2, <2>3, <2>4, <2>5, Resumes DEF Waiting
<1>19. ASSUME NEW t \in Threads, Reset(t) PROVE ThreadInv'
  <2>1. recvq' = <<>> /\ sendq' = <<>> /\ msg' = msg
    BY <1>19, Zenon DEF Reset
  <2>2. \A u \in Threads : \/ pc[u] = "sendwait" /\ pc'[u] = "sendready"
                           \/ pc[u] = "recvwait" /\ pc'[u] = "recvready"
                           \/ pc'[u] = pc[u]
    BY <1>19 DEF Reset, Ready
  <2>3. DOMAIN pc' = Threads /\ pc' = [u \in Threads |-> pc'[u]]
    BY <1>19, Zenon DEF Reset
  <2>4. \A u \in Threads : pc'[u] \in Points /\ (pc'[u] \in Holding <=> pc[u] \in Holding)
    BY <2>2, Zenon DEF ThreadInv, ThreadType, Points, Holding
  <2>5. pc' \in [Threads -> Points]
    BY <2>3, <2>4, Zenon
  <2>6. ThreadType'
    BY <2>1, <2>4, <2>5, EmptySeq, Zenon DEF ThreadInv, ThreadType
  <2> QED
    BY <2>1, <2>6, EmptySeq DEF ThreadInv, WaitInv
<1>20. ASSUME ResetBlock PROVE ThreadInv'
  BY <1>20 DEF ResetBlock, wait, ThreadInv, ThreadType, WaitInv
<1>21. ASSUME ResetDone PROVE ThreadInv'
  BY <1>21, Zenon DEF ResetDone, wait, ThreadInv, ThreadType, WaitInv
<1>22. CASE UNCHANGED vars
  BY <1>22 DEF ThreadInv, ThreadType, WaitInv, vars, list, pool, wait, call
<1> QED
  BY <1>1, <1>2, <1>3, <1>4, <1>5, <1>6, <1>7, <1>8, <1>9, <1>10, <1>11, <1>12, <1>13, <1>14, <1>15, <1>16, <1>17, <1>18, <1>19, <1>20, <1>21, <1>22, Zenon DEF Next, Calls, Goes
-----------------------------------------------------------------------------
-----------------------------------------------------------------------------
\* Blocks change hands.

PoolInv == PoolType /\ ListsSound /\ BlocksConserved

Alone == \A t, u \in Threads : msg[t] = msg[u] /\ msg[t] # NULL => t = u

OnePlace == \A b \in Blocks : \/ In(b, queued) /\ ~In(b, unused) /\ ~Held(b)
                              \/ ~In(b, queued) /\ In(b, unused) /\ ~Held(b)
                              \/ ~In(b, queued) /\ ~In(b, unused) /\ Held(b)

LastIsTail == tail = IF queued = <<>> THEN NULL ELSE queued[Len(queued)]

Counted == Len(queued) <= entry /\ (resetting = None => Len(queued) = entry)

\* The parts of the invariant, in terms of the lemmas above.
LEMMA PoolParts ==
    PoolInv <=> /\ PoolType /\ LastIsTail /\ Counted
                /\ Chain(next, head, queued) /\ Chain(next, free, unused)
                /\ Distinct(queued) /\ Distinct(unused)
                /\ OnePlace /\ Alone
BY DEF PoolInv, ListsSound, BlocksConserved, Chain, Distinct, LastIsTail, Counted,
       OnePlace, Alone

LEMMA PoolPartsNext ==
    ASSUME PoolType', LastIsTail', Counted',
           Chain(next', head', queued'), Chain(next', free', unused'),
           Distinct(queued'), Distinct(unused'), OnePlace', Alone'
    PROVE  PoolInv'
BY DEF PoolInv, ListsSound, BlocksConserved, Chain, Distinct, LastIsTail, Counted,
       OnePlace, Alone

Moved(t, m) == msg \in [Threads -> 0..MaxMsgs] /\ msg' = [msg EXCEPT ![t] = m]

\* A thread that had no block has m now.
LEMMA HeldMore ==
    ASSUME Alone, NEW t \in Threads, NEW m \in Blocks, Moved(t, m), msg[t] = NULL, ~Held(m)
    PROVE  /\ Alone'
           /\ \A b \in Blocks : Held(b)' <=> Held(b) \/ b = m
<1>1. \A u \in Threads : msg'[u] = IF u = t THEN m ELSE msg[u]
  BY Zenon DEF Moved
<1>2. \A u \in Threads : msg[u] # m
  BY Zenon DEF Held
<1>3. Alone'
  BY <1>1, <1>2, Zenon DEF Alone
<1>4. ASSUME NEW b \in Blocks PROVE Held(b)' <=> Held(b) \/ b = m
  BY <1>1, PoolAssumption DEF Held, Blocks, NULL
<1> QED
  BY <1>3, <1>4, Zenon

\* A thread has given its block m away.
LEMMA HeldLess ==
    ASSUME Alone, NEW t \in Threads, Moved(t, NULL), msg[t] \in Blocks
    PROVE  /\ Alone'
           /\ \A b \in Blocks : Held(b)' <=> Held(b) /\ b # msg[t]
<1>1. \A u \in Threads : msg'[u] = IF u = t THEN NULL ELSE msg[u]
  BY Zenon DEF Moved
<1>2. Alone'
  BY <1>1, Zenon DEF Alone
<1>3. \A u \in Threads : msg[u] = msg[t] => u = t
  BY PoolAssumption DEF Alone, Blocks, NULL
<1>4. ASSUME NEW b \in Blocks PROVE Held(b)' <=> Held(b) /\ b # msg[t]
  BY <1>1, <1>3, PoolAssumption DEF Held, Blocks, NULL
<1> QED
  BY <1>2, <1>4, Zenon

\* GetFree: from the free list into a thread's hands.
LEMMA TakesFree ==
    ASSUME PoolInv, NEW t \in Threads, free # NULL, msg[t] = NULL, Moved(t, free),
           free' = next[free], unused' = Tail(unused),
           UNCHANGED <<next, data, list, resetting>>
    PROVE  PoolInv'
<1>1. /\ PoolType /\ LastIsTail /\ Counted /\ OnePlace /\ Alone
      /\ Chain(next, head, queued) /\ Chain(next, free, unused)
      /\ Distinct(queued) /\ Distinct(unused)
  BY PoolParts, Zenon
<1>2. unused # <<>> /\ unused \in Seq(Blocks) /\ free = unused[1]
  BY <1>1, Zenon DEF Chain, PoolType
<1>3. /\ Tail(unused) \in Seq(Blocks) /\ free \in Blocks
  BY <1>2, TailFacts, Zenon
<1>4. Chain(next', free', unused') /\ Chain(next', head', queued')
  BY <1>1, <1>2, ChainTail, Zenon DEF list
<1>5. Distinct(Tail(unused)) /\ \A b \in Blocks : In(b, Tail(unused)) <=> In(b, unused) /\ b # free
  BY <1>1, <1>2, DistinctTail, InTail, Zenon
<1>6. In(free, unused) /\ ~In(free, queued) /\ ~Held(free)
  <2>1. In(free, unused)
    BY <1>2, LenProperties, EmptySeq DEF In
  <2> QED
    BY <1>1, <1>3, <2>1, Zenon DEF OnePlace
<1>7. Alone' /\ \A b \in Blocks : Held(b)' <=> Held(b) \/ b = free
  BY <1>1, <1>3, <1>6, HeldMore, Zenon
<1>8. PoolType' /\ LastIsTail' /\ Counted'
  BY <1>1, <1>3, Zenon DEF PoolType, LastIsTail, Counted, list
<1>9. OnePlace'
  BY <1>1, <1>5, <1>6, <1>7, Zenon DEF OnePlace, list, In
<1> QED
  BY <1>1, <1>4, <1>5, <1>7, <1>8, <1>9, PoolPartsNext, Zenon DEF list

\* Parts of the invariant at once.
Parts == /\ PoolType /\ LastIsTail /\ Counted /\ OnePlace /\ Alone
         /\ Chain(next, head, queued) /\ Chain(next, free, unused)
         /\ Distinct(queued) /\ Distinct(unused)

\* The blocks of a list are where the list is.
LEMMA Members ==
    ASSUME Parts
    PROVE  /\ \A i \in 1..Len(queued) : queued[i] \in Blocks /\ In(queued[i], queued)
           /\ \A i \in 1..Len(unused) : unused[i] \in Blocks /\ In(unused[i], unused)
           /\ queued \in Seq(Blocks) /\ unused \in Seq(Blocks)
BY ElementOfSeq DEF Parts, PoolType, In

\* GetHead: from the queue into a thread's hands.
LEMMA TakesHead ==
    ASSUME Parts, NEW t \in Threads, head # NULL, msg[t] = NULL, Moved(t, head),
           Unlink, entry' = entry - 1, entry # 0, resetting = None,
           UNCHANGED <<next, data, pool, resetting>>
    PROVE  PoolInv'
<1>1. queued # <<>> /\ queued \in Seq(Blocks) /\ head = queued[1]
  BY Zenon DEF Parts, Chain, PoolType
<1>2. /\ Tail(queued) \in Seq(Blocks) /\ head \in Blocks /\ Len(Tail(queued)) = Len(queued) - 1
      /\ Len(queued) \in Nat \ {0}
  BY <1>1, TailFacts, Zenon
<1>3. Chain(next', free', unused') /\ Chain(next', head', queued')
  BY <1>1, ChainTail, Zenon DEF pool, Parts, Unlink
<1>4. Distinct(Tail(queued)) /\ \A b \in Blocks : In(b, Tail(queued)) <=> In(b, queued) /\ b # head
  BY <1>1, DistinctTail, InTail, Zenon DEF Parts
<1>5. In(head, queued) /\ ~In(head, unused) /\ ~Held(head)
  <2>1. In(head, queued)
    BY <1>1, <1>2 DEF In
  <2> QED
    BY <1>2, <2>1, Zenon DEF OnePlace, Parts
<1>6. Alone' /\ \A b \in Blocks : Held(b)' <=> Held(b) \/ b = head
  BY <1>2, <1>5, HeldMore, Zenon DEF Parts
<1>7. LastIsTail'
  <2>1. (IF queued[Len(queued)] = queued[1] THEN NULL ELSE queued[Len(queued)])
        = (IF Tail(queued) = <<>> THEN NULL ELSE Tail(queued)[Len(Tail(queued))])
    BY <1>1, LastOfTail, Zenon DEF Parts
  <2>2. tail' = IF queued[Len(queued)] = queued[1] THEN NULL ELSE queued[Len(queued)]
    BY <1>1, Zenon DEF Parts, LastIsTail, Unlink
  <2> QED
    BY <2>1, <2>2, Zenon DEF LastIsTail, Unlink
<1>8. PoolType'
  <2>1. head' \in 0..MaxMsgs /\ tail' \in 0..MaxMsgs /\ entry' \in Nat
    BY <1>2, PoolAssumption DEF PoolType, Parts, Unlink, NULL
  <2> QED
    BY <1>2, <2>1, Zenon DEF PoolType, Parts, pool, Unlink
<1>9. Counted'
  BY <1>2 DEF Parts, PoolType, Counted, Unlink
<1>10. OnePlace'
  BY <1>4, <1>5, <1>6, Zenon DEF Parts, OnePlace, Unlink, pool, In
<1> QED
  BY <1>3, <1>4, <1>6, <1>7, <1>8, <1>9, <1>10, PoolPartsNext, Zenon DEF Parts, Unlink, pool

\* PutFree: from a thread's hands to the free list.
LEMMA PutsBack ==
    ASSUME Parts, NEW t \in Threads, msg[t] \in Blocks, Moved(t, NULL),
           next' = [next EXCEPT ![msg[t]] = free],
           free' = msg[t], unused' = <<msg[t]>> \o unused,
           UNCHANGED <<data, list, resetting>>
    PROVE  PoolInv'
<1> DEFINE m == msg[t]
<1>1. Held(m) /\ ~In(m, queued) /\ ~In(m, unused)
  <2>1. Held(m)
    BY Zenon DEF Held
  <2> QED
    BY <2>1, Zenon DEF Parts, OnePlace
<1>2. Alone' /\ \A b \in Blocks : Held(b)' <=> Held(b) /\ b # m
  BY HeldLess, Zenon DEF Parts
<1>3. next' \in [Blocks -> 0..MaxMsgs] /\ next'[m] = free
      /\ \A b \in Blocks : b # m => next'[b] = next[b]
  BY Zenon DEF Parts, PoolType
<1>4. m \in Blocks /\ m \in 0..MaxMsgs
  BY DEF Blocks
<1> HIDE DEF m
<1>5. /\ \A i \in 1..Len(queued) : next'[queued[i]] = next[queued[i]]
      /\ \A i \in 1..Len(unused) : next'[unused[i]] = next[unused[i]]
  <2>1. ASSUME NEW i \in 1..Len(queued) PROVE next'[queued[i]] = next[queued[i]]
    <3>1. queued[i] \in Blocks /\ queued[i] # m
      BY <1>1, <2>1, Members
    <3> QED
      BY <1>3, <3>1
  <2>2. ASSUME NEW i \in 1..Len(unused) PROVE next'[unused[i]] = next[unused[i]]
    <3>1. unused[i] \in Blocks /\ unused[i] # m
      BY <1>1, <2>2, Members
    <3> QED
      BY <1>3, <3>1
  <2> QED
    BY <2>1, <2>2, Zenon
<1>6. Chain(next', head', queued')
  BY <1>5, Members, ChainKeeps, Zenon DEF Parts, list
<1>7. Chain(next', free', unused')
  BY <1>3, <1>4, <1>5, Members, ChainCons, Zenon DEF Parts, m
<1>8. /\ <<m>> \o unused \in Seq(Blocks) /\ Distinct(<<m>> \o unused)
      /\ \A b \in Blocks : In(b, <<m>> \o unused) <=> b = m \/ In(b, unused)
  BY <1>1, <1>4, Members, ConsFacts, DistinctCons, InCons, Zenon DEF Parts
<1>9. PoolType' /\ LastIsTail' /\ Counted'
  BY <1>3, <1>4, <1>8, Zenon DEF PoolType, Parts, list, m, LastIsTail, Counted
<1>10. OnePlace'
  BY <1>1, <1>2, <1>8, Zenon DEF Parts, OnePlace, list, In, m
<1> QED
  BY <1>2, <1>6, <1>7, <1>8, <1>9, <1>10, PoolPartsNext, Zenon DEF Parts, list, m

\* LinkUrgent: from a thread's hands to the front of the queue.
LEMMA LinksFirst ==
    ASSUME Parts, NEW t \in Threads, msg[t] \in Blocks, Moved(t, NULL),
           next' = [next EXCEPT ![msg[t]] = head],
           head' = msg[t], tail' = IF tail = NULL THEN msg[t] ELSE tail,
           queued' = <<msg[t]>> \o queued, entry' = entry + 1,
           UNCHANGED <<data, pool, resetting>>
    PROVE  PoolInv'
<1> DEFINE m == msg[t]
<1>1. Held(m) /\ ~In(m, queued) /\ ~In(m, unused)
  <2>1. Held(m)
    BY Zenon DEF Held
  <2> QED
    BY <2>1, Zenon DEF Parts, OnePlace
<1>2. Alone' /\ \A b \in Blocks : Held(b)' <=> Held(b) /\ b # m
  BY HeldLess, Zenon DEF Parts
<1>3. next' \in [Blocks -> 0..MaxMsgs] /\ next'[m] = head
      /\ \A b \in Blocks : b # m => next'[b] = next[b]
  BY Zenon DEF Parts, PoolType
<1>4. m \in Blocks /\ m \in 0..MaxMsgs
  BY DEF Blocks
<1> HIDE DEF m
<1>5. /\ \A i \in 1..Len(queued) : next'[queued[i]] = next[queued[i]]
      /\ \A i \in 1..Len(unused) : next'[unused[i]] = next[unused[i]]
  BY <1>1, <1>3, Members
<1>6. Chain(next', free', unused')
  BY <1>5, Members, ChainKeeps, Zenon DEF Parts, pool
<1>7. Chain(next', head', queued')
  BY <1>3, <1>4, <1>5, Members, ChainCons, Zenon DEF Parts, m
<1>8. /\ <<m>> \o queued \in Seq(Blocks) /\ Distinct(<<m>> \o queued)
      /\ \A b \in Blocks : In(b, <<m>> \o queued) <=> b = m \/ In(b, queued)
  BY <1>1, <1>4, Members, ConsFacts, DistinctCons, InCons, Zenon DEF Parts
<1>9. /\ Len(queued') = Len(queued) + 1 /\ queued'[1] = m /\ Len(queued) \in Nat
      /\ \A i \in 1..Len(queued) : queued'[i + 1] = queued[i]
  BY <1>4, Members, ConsFacts, LenProperties DEF m
<1>10. PoolType' /\ Counted'
  BY <1>3, <1>4, <1>8, <1>9 DEF PoolType, Parts, pool, m, Counted
<1>11. LastIsTail'
  <2>1. queued' # <<>> /\ ((queued = <<>>) <=> (Len(queued) = 0))
    BY <1>8, <1>9, Members, EmptySeq DEF m
  <2>2. (tail = NULL) <=> (queued = <<>>)
    BY <1>9, <2>1, Members, SMTT(40) DEF Parts, LastIsTail, NULL, Blocks
  <2>3. Len(queued) # 0 => queued'[Len(queued) + 1] = queued[Len(queued)]
    BY <1>9
  <2> QED
    BY <1>9, <2>1, <2>2, <2>3 DEF Parts, LastIsTail, m
<1>12. OnePlace'
  BY <1>1, <1>2, <1>8, Zenon DEF Parts, OnePlace, pool, In, m
<1> QED
  BY <1>2, <1>6, <1>7, <1>8, <1>10, <1>11, <1>12, PoolPartsNext, Zenon DEF Parts, pool, m

\* LinkIn: from a thread's hands to the end of the queue.
LEMMA LinksLast ==
    ASSUME Parts, NEW t \in Threads, msg[t] \in Blocks, Moved(t, NULL), next[msg[t]] = NULL,
           next' = IF tail # NULL THEN [next EXCEPT ![tail] = msg[t]] ELSE next,
           tail' = msg[t], head' = IF head = NULL THEN msg[t] ELSE head,
           queued' = Append(queued, msg[t]), entry' = entry + 1,
           UNCHANGED <<data, pool, resetting>>
    PROVE  PoolInv'
<1> DEFINE m == msg[t]
<1>1. Held(m) /\ ~In(m, queued) /\ ~In(m, unused)
  <2>1. Held(m)
    BY Zenon DEF Held
  <2> QED
    BY <2>1, Zenon DEF Parts, OnePlace
<1>2. Alone' /\ \A b \in Blocks : Held(b)' <=> Held(b) /\ b # m
  BY HeldLess, Zenon DEF Parts
<1>3. m \in Blocks /\ m \in 0..MaxMsgs
  BY DEF Blocks
<1>4. next[m] = NULL
  BY Zenon
<1> HIDE DEF m
<1>5. ((queued = <<>>) <=> (Len(queued) = 0)) /\ Len(queued) \in Nat
  BY Members, EmptySeq, LenProperties, Zenon
<1>6. /\ tail # NULL <=> queued # <<>>
      /\ queued # <<>> => tail = queued[Len(queued)] /\ In(tail, queued) /\ tail \in Blocks
      /\ head = NULL <=> queued = <<>>
  BY <1>5, Members, SMTT(40) DEF Parts, LastIsTail, Chain, NULL, Blocks
<1>7. /\ next' \in [Blocks -> 0..MaxMsgs] /\ next'[m] = NULL
      /\ queued # <<>> => next'[queued[Len(queued)]] = m
      /\ \A b \in Blocks : (queued # <<>> => b # tail) => next'[b] = next[b]
  <2>1. CASE queued = <<>>
    BY <1>4, <1>6, <2>1, Zenon DEF Parts, PoolType
  <2>2. CASE queued # <<>>
    <3>1. tail # m /\ tail \in Blocks /\ next' = [next EXCEPT ![tail] = m]
      BY <1>1, <1>6, <2>2, Zenon DEF m
    <3> QED
      BY <1>3, <1>4, <1>6, <2>2, <3>1, Zenon DEF Parts, PoolType
  <2> QED
    BY <2>1, <2>2, Zenon
<1>8. \A i \in 1..Len(unused) : next'[unused[i]] = next[unused[i]]
  BY <1>6, <1>7, Members DEF Parts, OnePlace
<1>9. \A i \in 1..Len(queued) : i # Len(queued) => next'[queued[i]] = next[queued[i]]
  BY <1>5, <1>6, <1>7, Members DEF Parts, Distinct
<1>10. Chain(next', free', unused')
  BY <1>8, Members, ChainKeeps, Zenon DEF Parts, pool
<1>11. Chain(next', head', queued')
  <2>1. Chain(next', IF queued = <<>> THEN m ELSE head, Append(queued, m))
    BY <1>3, <1>7, <1>9, Members, ChainAppend, Zenon DEF Parts
  <2> QED
    BY <1>6, <2>1, Zenon DEF m
<1>12. /\ Append(queued, m) \in Seq(Blocks) /\ Distinct(Append(queued, m))
       /\ \A b \in Blocks : In(b, Append(queued, m)) <=> b = m \/ In(b, queued)
  BY <1>1, <1>3, Members, AppendFacts, DistinctAppend, InAppend, Zenon DEF Parts
<1>13. /\ Len(queued') = Len(queued) + 1 /\ queued'[Len(queued) + 1] = m
  BY <1>3, Members, AppendFacts, Zenon DEF m
<1>14. PoolType' /\ Counted'
  BY <1>3, <1>7, <1>12, <1>13, SMTT(40) DEF PoolType, Parts, pool, m, Counted
<1>15. LastIsTail'
  BY <1>5, <1>12, <1>13, EmptySeq DEF LastIsTail, m
<1>16. OnePlace'
  BY <1>1, <1>2, <1>12, Zenon DEF Parts, OnePlace, pool, In, m
<1> QED
  BY <1>2, <1>10, <1>11, <1>12, <1>14, <1>15, <1>16, PoolPartsNext, Zenon DEF Parts, pool, m

\* ResetBlock: from the front of the queue to the free list.
LEMMA Discards ==
    ASSUME Parts, head # NULL, Unlink, resetting # None,
           next' = [next EXCEPT ![head] = free],
           free' = head, unused' = <<head>> \o unused,
           UNCHANGED <<data, entry, msg, resetting>>
    PROVE  PoolInv'
<1>1. queued # <<>> /\ queued \in Seq(Blocks) /\ head = queued[1] /\ unused \in Seq(Blocks)
  BY Zenon DEF Parts, Chain, PoolType
<1>2. /\ Tail(queued) \in Seq(Blocks) /\ head \in Blocks /\ Len(Tail(queued)) = Len(queued) - 1
      /\ Len(queued) \in Nat \ {0}
  BY <1>1, TailFacts, Zenon
<1>3. Distinct(Tail(queued)) /\ \A b \in Blocks : In(b, Tail(queued)) <=> In(b, queued) /\ b # head
  BY <1>1, DistinctTail, InTail, Zenon DEF Parts
<1>4. In(head, queued) /\ ~In(head, unused) /\ ~Held(head)
  <2>1. In(head, queued)
    BY <1>1, <1>2 DEF In
  <2> QED
    BY <1>2, <2>1, Zenon DEF OnePlace, Parts
<1>5. /\ next' \in [Blocks -> 0..MaxMsgs] /\ next'[head] = free
      /\ \A b \in Blocks : b # head => next'[b] = next[b]
  BY <1>2, Zenon DEF Parts, PoolType
<1>6. Chain(next', head', queued')
  <2>1. Chain(next, next[head], Tail(queued))
    BY <1>1, ChainTail, Zenon DEF Parts
  <2>2. ASSUME NEW i \in 1..Len(Tail(queued))
        PROVE  next'[Tail(queued)[i]] = next[Tail(queued)[i]]
    <3>1. Tail(queued)[i] \in Blocks /\ In(Tail(queued)[i], Tail(queued))
      BY <1>2, ElementOfSeq, Zenon DEF In
    <3> QED
      BY <1>3, <1>5, <3>1, Zenon
  <2>3. Chain(next', next[head], Tail(queued))
    BY <1>2, <2>1, <2>2, ChainKeeps, Zenon
  <2> QED
    BY <2>3, Zenon DEF Unlink
<1>7. Chain(next', free', unused')
  <2>1. \A i \in 1..Len(unused) : next'[unused[i]] = next[unused[i]]
    BY <1>4, <1>5, Members, Zenon
  <2>2. Chain(next, free, unused)
    BY Zenon DEF Parts
  <2>3. Chain(next', head, <<head>> \o unused)
    <3> DEFINE ny == next'
    <3>1. /\ unused \in Seq(Blocks) /\ head \in Blocks /\ Chain(next, free, unused)
          /\ ny[head] = free /\ \A i \in 1..Len(unused) : ny[unused[i]] = next[unused[i]]
      BY <1>1, <1>2, <1>5, <2>1, <2>2, Zenon
    <3> HIDE DEF ny
    <3>2. Chain(ny, head, <<head>> \o unused)
      BY ONLY <3>1, ChainCons, Zenon
    <3> QED
      BY <3>2, Zenon DEF ny
  <2> QED
    BY <2>3, Zenon
<1>8. /\ <<head>> \o unused \in Seq(Blocks) /\ Distinct(<<head>> \o unused)
      /\ \A b \in Blocks : In(b, <<head>> \o unused) <=> b = head \/ In(b, unused)
  BY <1>1, <1>2, <1>4, ConsFacts, DistinctCons, InCons, Zenon DEF Parts
<1>9. LastIsTail'
  <2>1. (IF queued[Len(queued)] = queued[1] THEN NULL ELSE queued[Len(queued)])
        = (IF Tail(queued) = <<>> THEN NULL ELSE Tail(queued)[Len(Tail(queued))])
    BY <1>1, LastOfTail, Zenon DEF Parts
  <2>2. tail' = IF queued[Len(queued)] = queued[1] THEN NULL ELSE queued[Len(queued)]
    BY <1>1, Zenon DEF Parts, LastIsTail, Unlink
  <2> QED
    BY <2>1, <2>2, Zenon DEF LastIsTail, Unlink
<1>10. PoolType'
  <2>1. head' \in 0..MaxMsgs /\ tail' \in 0..MaxMsgs /\ free' \in 0..MaxMsgs
    BY <1>2, PoolAssumption DEF PoolType, Parts, Unlink, NULL
  <2> QED
    BY <1>2, <1>5, <1>8, <2>1, Zenon DEF PoolType, Parts, Unlink
<1>11. Counted'
  <2>1. queued' = Tail(queued) /\ entry' = entry /\ entry \in Nat /\ resetting' # None
    BY Zenon DEF Unlink, Parts, PoolType
  <2>2. Len(queued) <= entry
    BY Zenon DEF Parts, Counted
  <2>3. Len(queued') <= entry'
    BY <1>2, <2>1, <2>2
  <2> QED
    BY <2>1, <2>3, Zenon DEF Counted
<1>12. OnePlace' /\ Alone'
  <2>1. \A b \in Blocks : Held(b)' <=> Held(b)
    BY Zenon DEF Held
  <2>2. Alone'
    BY Zenon DEF Parts, Alone
  <2>3. \A b \in Blocks : /\ In(b, queued') <=> In(b, queued) /\ b # head
                          /\ In(b, unused') <=> b = head \/ In(b, unused)
    BY <1>3, <1>8, Zenon DEF Unlink
  <2>4. ASSUME NEW b \in Blocks
        PROVE  (\/ In(b, queued) /\ ~In(b, unused) /\ ~Held(b)
                \/ ~In(b, queued) /\ In(b, unused) /\ ~Held(b)
                \/ ~In(b, queued) /\ ~In(b, unused) /\ Held(b))'
    <3>1. \/ In(b, queued) /\ ~In(b, unused) /\ ~Held(b)
          \/ ~In(b, queued) /\ In(b, unused) /\ ~Held(b)
          \/ ~In(b, queued) /\ ~In(b, unused) /\ Held(b)
      BY Zenon DEF Parts, OnePlace
    <3> QED
      BY <1>4, <2>1, <2>3, <3>1, Zenon DEF In
  <2> QED
    BY <2>2, <2>4, Zenon DEF OnePlace
<1> QED
  BY <1>3, <1>6, <1>7, <1>8, <1>9, <1>10, <1>11, <1>12, PoolPartsNext, Zenon DEF Parts, Unlink

\* ResetDone.
LEMMA Cleared ==
    ASSUME Parts, head = NULL, entry' = 0,
           UNCHANGED <<next, data, head, tail, queued, pool, msg>>
    PROVE  PoolInv'
<1>1. queued = <<>>
  BY Members, EmptySeq, LenProperties DEF Parts, Chain, NULL, Blocks
<1>2. PoolType' /\ LastIsTail' /\ Counted' /\ OnePlace' /\ Alone'
  BY <1>1 DEF Parts, PoolType, LastIsTail, Counted, OnePlace, Alone, pool, In, Held
<1> QED
  BY <1>2, PoolPartsNext, Zenon DEF Parts, pool

\* A thread writes the block it holds.
LEMMA Writes ==
    ASSUME Parts, NEW t \in Threads, msg[t] \in Blocks, NEW v \in Values \cup {None},
           next' = next \/ next' = [next EXCEPT ![msg[t]] = NULL],
           data' = [data EXCEPT ![msg[t]] = v],
           UNCHANGED <<list, pool, msg, resetting>>
    PROVE  PoolInv'
<1>1. ~In(msg[t], queued) /\ ~In(msg[t], unused)
  BY Zenon DEF Parts, OnePlace, Held
<1>2. /\ \A i \in 1..Len(queued) : next'[queued[i]] = next[queued[i]]
      /\ \A i \in 1..Len(unused) : next'[unused[i]] = next[unused[i]]
  BY <1>1, Members, Zenon DEF Parts, PoolType
<1>3. Chain(next', head', queued') /\ Chain(next', free', unused')
  BY <1>2, Members, ChainKeeps, Zenon DEF Parts, list, pool
<1>4. PoolType'
  <2>1. NULL \in 0..MaxMsgs
    BY PoolAssumption DEF NULL
  <2> QED
    BY <2>1, Zenon DEF Parts, PoolType, list, pool
<1>5. LastIsTail' /\ Counted' /\ OnePlace' /\ Alone'
  BY Zenon DEF Parts, PoolType, LastIsTail, Counted, OnePlace, Alone, list, pool, In, Held
<1> QED
  BY <1>3, <1>4, <1>5, PoolPartsNext, Zenon DEF Parts, list, pool

\* Nothing happens to the blocks.
LEMMA Untouched ==
    ASSUME Parts, UNCHANGED <<next, data, list, pool, msg>>,
           resetting' = None => resetting = None
    PROVE  PoolInv'
<1>1. PoolType' /\ LastIsTail' /\ Counted' /\ OnePlace' /\ Alone'
  BY Zenon DEF Parts, PoolType, LastIsTail, Counted, OnePlace, Alone, list, pool, In, Held
<1> QED
  BY <1>1, PoolPartsNext, Zenon DEF Parts, list, pool

IInv == TypeOK /\ WaitInv /\ ListsSound /\ BlocksConserved /\ SendInv

\* What a thread's position says about its block.
LEMMA Hands ==
    ASSUME IInv, NEW t \in Threads
    PROVE  /\ Parts /\ msg \in [Threads -> 0..MaxMsgs]
           /\ pc[t] \in Holding => msg[t] \in Blocks
           /\ pc[t] \notin Holding => msg[t] = NULL
<1>1. Parts
  BY PoolParts, Zenon DEF IInv, TypeOK, PoolInv, Parts
<1> QED
  BY <1>1, PoolAssumption DEF IInv, TypeOK, ThreadType, NULL, Blocks

\* Blocks change hands one at a time, whoever does it.
LEMMA PoolStep == IInv /\ [Next]_vars => PoolInv'
<1> SUFFICES ASSUME IInv, [Next]_vars PROVE PoolInv'
  BY Zenon
<1>1. ASSUME NEW t \in Threads, NEW v \in Values, SendNow(t, v) \/ UrgentNow(t, v) PROVE PoolInv'
  <2>1. pc[t] = "idle" /\ GetFree(t) /\ UNCHANGED <<next, data, list, resetting>>
    BY <1>1, Zenon DEF SendNow, UrgentNow, Step
  <2>2. msg[t] = NULL /\ Parts /\ PoolInv /\ Moved(t, free)
    BY <2>1, Hands, PoolParts, Zenon DEF GetFree, Moved, Holding, Parts
  <2> QED
    BY <2>1, <2>2, TakesFree, Zenon DEF GetFree
<1>2. ASSUME NEW t \in Threads, SendAgain(t) PROVE PoolInv'
  <2>1. CASE Step(t, "sendready", "copyin") /\ GetFree(t) /\ UNCHANGED <<next, data, list, resetting>>
    <3>1. msg[t] = NULL /\ Parts /\ PoolInv /\ Moved(t, free)
      BY <2>1, Hands, PoolParts, Zenon DEF GetFree, Moved, Holding, Parts, Step
    <3> QED
      BY <2>1, <3>1, TakesFree, Zenon DEF GetFree
  <2>2. CASE SuspendSender(t, timeout[t])
    <3>1. UNCHANGED <<next, data, list, pool, msg, resetting>>
      BY <2>2, Zenon DEF SuspendSender
    <3> QED
      BY <3>1, Hands, Untouched, Zenon
  <2> QED
    BY <1>2, <2>1, <2>2, Zenon DEF SendAgain
<1>3. ASSUME NEW t \in Threads,
             \/ \E v \in Values, to \in Timeouts : SendWait(t, v, to)
             \/ \E to \in Timeouts : RecvWait(t, to)
             \/ SendFull(t) \/ SendFails(t) \/ RecvFails(t) \/ CopyOut(t)
             \/ SenderTimeout(t) \/ ReceiverTimeout(t)
      PROVE PoolInv'
  <2>1. UNCHANGED <<next, data, list, pool, msg, resetting>>
    BY <1>3, Zenon DEF SendWait, RecvWait, SendFull, SendFails, RecvFails, CopyOut, SenderTimeout,
                ReceiverTimeout, SuspendSender, SuspendReceiver, Expire
  <2> QED
    BY <2>1, Hands, Untouched, Zenon
<1>4. ASSUME NEW t \in Threads, CopyIn(t) \/ CopyUrgent(t) PROVE PoolInv'
  <2>1. /\ pc[t] \in Holding /\ data' = [data EXCEPT ![msg[t]] = val[t]]
        /\ next' = next \/ next' = [next EXCEPT ![msg[t]] = NULL]
        /\ UNCHANGED <<list, pool, msg, resetting>>
    BY <1>4, Zenon DEF CopyIn, CopyUrgent, Step, Holding
  <2>2. val[t] \in Values \cup {None} /\ msg[t] \in Blocks /\ Parts
    BY <2>1, Hands, Zenon DEF IInv, TypeOK, CallType
  <2> QED
    BY <2>1, <2>2, Writes, Zenon
<1>5. ASSUME NEW t \in Threads, LinkIn(t) PROVE PoolInv'
  <2>1. /\ pc[t] = "linkin" /\ msg' = [msg EXCEPT ![t] = NULL] /\ entry' = entry + 1
        /\ next' = IF tail # NULL THEN [next EXCEPT ![tail] = msg[t]] ELSE next
        /\ tail' = msg[t] /\ head' = IF head = NULL THEN msg[t] ELSE head
        /\ queued' = Append(queued, msg[t]) /\ UNCHANGED <<data, pool, resetting>>
    BY <1>5, Zenon DEF LinkIn, Linked
  <2>2. msg[t] \in Blocks /\ Parts /\ Moved(t, NULL) /\ next[msg[t]] = NULL
    BY <2>1, Hands, Zenon DEF IInv, SendInv, SendOf, Holding, Moved
  <2> QED
    BY <2>1, <2>2, LinksLast, Zenon
<1>6. ASSUME NEW t \in Threads, LinkUrgent(t) PROVE PoolInv'
  <2>1. /\ pc[t] = "linkurgent" /\ msg' = [msg EXCEPT ![t] = NULL] /\ entry' = entry + 1
        /\ next' = [next EXCEPT ![msg[t]] = head] /\ head' = msg[t]
        /\ tail' = IF tail = NULL THEN msg[t] ELSE tail
        /\ queued' = <<msg[t]>> \o queued /\ UNCHANGED <<data, pool, resetting>>
    BY <1>6, Zenon DEF LinkUrgent, Linked
  <2>2. msg[t] \in Blocks /\ Parts /\ Moved(t, NULL)
    BY <2>1, Hands, Zenon DEF Holding, Moved
  <2> QED
    BY <2>1, <2>2, LinksFirst, Zenon
<1>7. ASSUME NEW t \in Threads, pc[t] \notin Holding, resetting = None, GetHead(t),
             UNCHANGED <<next, data, pool, resetting>>
      PROVE  PoolInv'
  <2>1. head # NULL /\ msg[t] = NULL /\ Parts /\ Moved(t, head)
    <3>1. head \in Blocks
      BY <1>7, HeadBlock, Zenon DEF GetHead, Lists, IInv
    <3> QED
      BY <1>7, <3>1, Hands, PoolAssumption DEF GetHead, Moved, Blocks, NULL
  <2> QED
    BY <1>7, <2>1, TakesHead, Zenon DEF GetHead
<1>8. ASSUME NEW t \in Threads, RecvNow(t) PROVE PoolInv'
  BY <1>7, <1>8, Zenon DEF RecvNow, Step, Holding
<1>9. ASSUME NEW t \in Threads, RecvAgain(t) PROVE PoolInv'
  <2>1. CASE Step(t, "recvready", "copyout") /\ GetHead(t) /\ UNCHANGED <<next, data, pool, resetting>>
    BY <1>7, <2>1, Zenon DEF Step, Holding
  <2>2. CASE SuspendReceiver(t, timeout[t])
    <3>1. UNCHANGED <<next, data, list, pool, msg, resetting>>
      BY <2>2, Zenon DEF SuspendReceiver
    <3> QED
      BY <3>1, Hands, Untouched, Zenon
  <2> QED
    BY <1>9, <2>1, <2>2, Zenon DEF RecvAgain
<1>10. ASSUME NEW t \in Threads, PutFree(t) PROVE PoolInv'
  <2>1. /\ pc[t] = "putfree" /\ msg' = [msg EXCEPT ![t] = NULL]
        /\ next' = [next EXCEPT ![msg[t]] = free] /\ free' = msg[t]
        /\ unused' = <<msg[t]>> \o unused /\ UNCHANGED <<data, list, resetting>>
    BY <1>10, Zenon DEF PutFree
  <2>2. msg[t] \in Blocks /\ Parts /\ Moved(t, NULL)
    BY <2>1, Hands, Zenon DEF Holding, Moved
  <2> QED
    BY <2>1, <2>2, PutsBack, Zenon
<1>11. ASSUME NEW t \in Threads, Reset(t) PROVE PoolInv'
  <2>1. UNCHANGED <<next, data, list, pool, msg>> /\ resetting' # None
    BY <1>11, NoneAssumption, Zenon DEF Reset
  <2> QED
    BY <2>1, Hands, Untouched, Zenon
<1>12. Parts
  BY PoolParts, Zenon DEF IInv, TypeOK, PoolInv, Parts
<1>13. ASSUME ResetBlock PROVE PoolInv'
  BY <1>12, <1>13, Discards, Zenon DEF ResetBlock
<1>14. ASSUME ResetDone PROVE PoolInv'
  BY <1>12, <1>14, Cleared, Zenon DEF ResetDone
<1>15. CASE UNCHANGED vars
  <2>1. UNCHANGED <<next, data, list, pool, msg>> /\ (resetting' = None => resetting = None)
    BY <1>15, Zenon DEF vars
  <2> QED
    BY <2>1, <1>12, Untouched, Zenon
<1> QED
  BY <1>1, <1>2, <1>3, <1>4, <1>5, <1>6, <1>8, <1>9, <1>10, <1>11, <1>13, <1>14, <1>15, Zenon
     DEF Next, Calls, Goes

\* A thread whose message, block and place in the block nobody touches.
LEMMA Bystander ==
    ASSUME NEW u \in Threads, SendOf(u), val'[u] = val[u], msg'[u] = msg[u],
           pc'[u] \in Sending => pc[u] \in Sending,
           pc'[u] \in {"linkin", "linkurgent"} => pc'[u] = pc[u],
           pc[u] \in {"linkin", "linkurgent"} =>
              data'[msg[u]] = data[msg[u]] /\ next'[msg[u]] = next[msg[u]]
    PROVE  SendOf(u)'
BY DEF SendOf

\* A block in a thread's hands is in nobody else's and in no list.
LEMMA OwnBlock ==
    ASSUME IInv, NEW u \in Threads, pc[u] \in Holding
    PROVE  /\ msg[u] \in Blocks /\ ~In(msg[u], queued)
           /\ \A t \in Threads : msg[t] = msg[u] => t = u
<1>1. Parts /\ msg[u] \in Blocks
  BY Hands, Zenon
<1> QED
  BY <1>1, PoolAssumption DEF Parts, OnePlace, Alone, Held, Blocks, NULL

\* The resumed threads of a step, besides the one that takes it.
Others(t) == \A u \in Threads \ {t} : \/ pc'[u] = pc[u]
                                      \/ pc[u] = "recvwait" /\ pc'[u] = "recvready"
                                      \/ pc[u] = "sendwait" /\ pc'[u] = "sendready"

\* A step of t that leaves links and messages alone.
LEMMA SendKeeps ==
    ASSUME IInv, NEW t \in Threads, Others(t), SendOf(t)', UNCHANGED <<next, data>>,
           \A u \in Threads \ {t} : val'[u] = val[u] /\ msg'[u] = msg[u]
    PROVE  SendInv'
<1>1. ASSUME NEW u \in Threads \ {t} PROVE SendOf(u)'
  <2>1. /\ SendOf(u) /\ val'[u] = val[u] /\ msg'[u] = msg[u]
        /\ pc'[u] \in Sending => pc[u] \in Sending
        /\ pc'[u] \in {"linkin", "linkurgent"} => pc'[u] = pc[u]
    BY Zenon DEF IInv, SendInv, Others, Sending
  <2> QED
    BY <2>1, Bystander, Zenon
<1> QED
  BY <1>1, Zenon DEF SendInv

\* A step of t that writes its own block or a block of the queue.
LEMMA SendWrites ==
    ASSUME IInv, NEW t \in Threads, Others(t), SendOf(t)',
           \A b \in Blocks : b # msg[t] => data'[b] = data[b],
           \A b \in Blocks : b # msg[t] /\ ~In(b, queued) => next'[b] = next[b],
           \A u \in Threads \ {t} : val'[u] = val[u] /\ msg'[u] = msg[u]
    PROVE  SendInv'
<1>1. ASSUME NEW u \in Threads \ {t} PROVE SendOf(u)'
  <2>1. /\ SendOf(u) /\ val'[u] = val[u] /\ msg'[u] = msg[u]
        /\ pc'[u] \in Sending => pc[u] \in Sending
        /\ pc'[u] \in {"linkin", "linkurgent"} => pc'[u] = pc[u]
    BY Zenon DEF IInv, SendInv, Others, Sending
  <2>2. pc[u] \in {"linkin", "linkurgent"} =>
              data'[msg[u]] = data[msg[u]] /\ next'[msg[u]] = next[msg[u]]
    BY OwnBlock, Zenon DEF Holding
  <2> QED
    BY <2>1, <2>2, Bystander, Zenon
<1> QED
  BY <1>1, Zenon DEF SendInv

LEMMA SendStep == IInv /\ [Next]_vars => SendInv'
<1> SUFFICES ASSUME IInv, [Next]_vars PROVE SendInv'
  BY Zenon
<1> DEFINE Types == /\ pc \in [Threads -> Points] /\ msg \in [Threads -> 0..MaxMsgs]
                    /\ val \in [Threads -> Values \cup {None}]
                    /\ next \in [Blocks -> 0..MaxMsgs]
                    /\ data \in [Blocks -> Values \cup {None}]
                    /\ \A u \in Threads : SendOf(u)
<1>0. Types
  BY Zenon DEF IInv, TypeOK, PoolType, ThreadType, CallType, SendInv
<1>1. ASSUME NEW t \in Threads, NEW v \in Values, SendNow(t, v) \/ UrgentNow(t, v) PROVE SendInv'
  <2>1. /\ pc' = [pc EXCEPT ![t] = "copyin"] \/ pc' = [pc EXCEPT ![t] = "copyurgent"]
        /\ val' = [val EXCEPT ![t] = v] /\ UNCHANGED <<next, data>>
        /\ msg' = [msg EXCEPT ![t] = free]
    BY <1>1, Zenon DEF SendNow, UrgentNow, Step, GetFree
  <2>2. Others(t) /\ SendOf(t)' /\ \A u \in Threads \ {t} : val'[u] = val[u] /\ msg'[u] = msg[u]
    BY <1>0, <2>1, Zenon DEF Others, SendOf
  <2> QED
    BY <2>1, <2>2, SendKeeps, Zenon
<1>2. ASSUME NEW t \in Threads, NEW v \in Values, NEW to \in Timeouts, SendWait(t, v, to) PROVE SendInv'
  <2>1. /\ pc' = [pc EXCEPT ![t] = "sendwait"] /\ val' = [val EXCEPT ![t] = v]
        /\ UNCHANGED <<next, data, msg>>
    BY <1>2, Zenon DEF SendWait, SuspendSender, Step
  <2>2. Others(t) /\ SendOf(t)' /\ \A u \in Threads \ {t} : val'[u] = val[u] /\ msg'[u] = msg[u]
    BY <1>0, <2>1, Zenon DEF Others, SendOf
  <2> QED
    BY <2>1, <2>2, SendKeeps, Zenon
<1>3. ASSUME NEW t \in Threads, SendAgain(t) PROVE SendInv'
  <2>1. /\ pc[t] = "sendready" /\ UNCHANGED <<next, data, val>>
        /\ pc' = [pc EXCEPT ![t] = "copyin"] \/ pc' = [pc EXCEPT ![t] = "sendwait"]
        /\ msg' = [msg EXCEPT ![t] = free] \/ msg' = msg
    BY <1>3, Zenon DEF SendAgain, SuspendSender, Step, GetFree, call
  <2>2. SendOf(t)'
    BY <1>0, <2>1, Zenon DEF SendOf, Sending
  <2>3. Others(t) /\ \A u \in Threads \ {t} : val'[u] = val[u] /\ msg'[u] = msg[u]
    BY <1>0, <2>1, Zenon DEF Others
  <2> QED
    BY <2>1, <2>2, <2>3, SendKeeps, Zenon
<1>4. ASSUME NEW t \in Threads,
             \/ \E to \in Timeouts : RecvWait(t, to)
             \/ SendFull(t) \/ SendFails(t) \/ RecvFails(t) \/ CopyOut(t) \/ RecvNow(t)
             \/ RecvAgain(t) \/ ReceiverTimeout(t)
      PROVE SendInv'
  <2>1. /\ \E to \in {"idle", "recvwait", "recvready", "copyout", "putfree"} :
                pc' = [pc EXCEPT ![t] = to]
        /\ UNCHANGED <<next, data, val>>
        /\ msg' = [msg EXCEPT ![t] = head] \/ msg' = msg
    BY <1>4, Zenon DEF RecvWait, SendFull, SendFails, RecvFails, CopyOut, RecvNow, RecvAgain,
                ReceiverTimeout, SuspendReceiver, Expire, Step, GetHead, Ready, call
  <2>2. SendOf(t)'
    BY <1>0, <2>1, Zenon DEF SendOf, Sending
  <2>3. Others(t) /\ \A u \in Threads \ {t} : val'[u] = val[u] /\ msg'[u] = msg[u]
    BY <1>0, <2>1, Zenon DEF Others
  <2> QED
    BY <2>1, <2>2, <2>3, SendKeeps, Zenon
<1>5. ASSUME NEW t \in Threads, SenderTimeout(t) PROVE SendInv'
  <2>1. /\ pc[t] = "sendwait" /\ pc' = [pc EXCEPT ![t] = "sendready"]
        /\ UNCHANGED <<next, data, val, msg>>
    BY <1>5, Zenon DEF SenderTimeout, Expire, Step, Ready
  <2>2. SendOf(t)'
    BY <1>0, <2>1, Zenon DEF SendOf, Sending
  <2>3. Others(t) /\ \A u \in Threads \ {t} : val'[u] = val[u] /\ msg'[u] = msg[u]
    BY <1>0, <2>1, Zenon DEF Others
  <2> QED
    BY <2>1, <2>2, <2>3, SendKeeps, Zenon
<1>6. ASSUME NEW t \in Threads, CopyIn(t) \/ CopyUrgent(t) PROVE SendInv'
  <2>1. /\ \/ /\ pc[t] = "copyin" /\ pc' = [pc EXCEPT ![t] = "linkin"]
              /\ next' = [next EXCEPT ![msg[t]] = NULL]
           \/ /\ pc[t] = "copyurgent" /\ pc' = [pc EXCEPT ![t] = "linkurgent"]
              /\ next' = next
        /\ data' = [data EXCEPT ![msg[t]] = val[t]] /\ UNCHANGED <<val, msg>>
    BY <1>6, Zenon DEF CopyIn, CopyUrgent, Step, call
  <2>2. msg[t] \in Blocks
    BY <2>1, Hands, Zenon DEF Holding
  <2>3. SendOf(t)'
    BY <1>0, <2>1, <2>2, Zenon DEF SendOf, Sending
  <2>4. Others(t) /\ \A u \in Threads \ {t} : val'[u] = val[u] /\ msg'[u] = msg[u]
    BY <1>0, <2>1, Zenon DEF Others
  <2>5. \A b \in Blocks : b # msg[t] => data'[b] = data[b] /\ next'[b] = next[b]
    BY <1>0, <2>1, Zenon
  <2> QED
    BY <2>3, <2>4, <2>5, SendWrites, Zenon
<1>7. ASSUME NEW t \in Threads, LinkIn(t) \/ LinkUrgent(t) PROVE SendInv'
  <2>1. /\ pc[t] \in {"linkin", "linkurgent"} /\ msg' = [msg EXCEPT ![t] = NULL]
        /\ UNCHANGED <<data, val>>
        /\ \/ pc' = [pc EXCEPT ![t] = "idle"]
           \/ recvq # <<>> /\ pc' = [pc EXCEPT ![t] = "idle", ![Head(recvq)] = "recvready"]
        /\ \/ next' = next \/ next' = [next EXCEPT ![msg[t]] = head]
           \/ tail # NULL /\ next' = [next EXCEPT ![tail] = msg[t]]
    BY <1>7, Zenon DEF LinkIn, LinkUrgent, Linked, call
  <2>2. recvq # <<>> => Head(recvq) \in Threads /\ pc[Head(recvq)] = "recvwait"
    <3>1. recvq # <<>> => Head(recvq) = recvq[1] /\ Head(recvq) \in Threads /\ 1 \in 1..Len(recvq)
      BY TailFacts DEF IInv, TypeOK, ThreadType
    <3> QED
      BY <3>1, Zenon DEF IInv, WaitInv
  <2>3. SendOf(t)'
    BY <1>0, <2>1, <2>2, Zenon DEF SendOf, Sending
  <2>4. Others(t) /\ \A u \in Threads \ {t} : val'[u] = val[u] /\ msg'[u] = msg[u]
    BY <1>0, <2>1, <2>2, Zenon DEF Others
  <2>5. tail # NULL => In(tail, queued)
    <3>1. /\ Len(queued) \in Nat /\ (queued = <<>> <=> Len(queued) = 0)
      BY EmptySeq, LenProperties, Zenon DEF IInv, TypeOK, PoolType
    <3> QED
      BY <3>1 DEF IInv, ListsSound, In
  <2>6. /\ \A b \in Blocks : b # msg[t] => data'[b] = data[b]
        /\ \A b \in Blocks : b # msg[t] /\ ~In(b, queued) => next'[b] = next[b]
    BY <1>0, <2>1, <2>5, Zenon
  <2> QED
    BY <2>3, <2>4, <2>6, SendWrites, Zenon
<1>8. ASSUME NEW t \in Threads, PutFree(t) PROVE SendInv'
  <2>1. /\ pc[t] = "putfree" /\ msg' = [msg EXCEPT ![t] = NULL] /\ UNCHANGED <<data, val>>
        /\ \/ pc' = [pc EXCEPT ![t] = "idle"]
           \/ sendq # <<>> /\ pc' = [pc EXCEPT ![t] = "idle", ![Head(sendq)] = "sendready"]
        /\ next' = [next EXCEPT ![msg[t]] = free]
    BY <1>8, Zenon DEF PutFree, call
  <2>2. sendq # <<>> => Head(sendq) \in Threads /\ pc[Head(sendq)] = "sendwait"
    <3>1. sendq # <<>> => Head(sendq) = sendq[1] /\ Head(sendq) \in Threads /\ 1 \in 1..Len(sendq)
      BY TailFacts DEF IInv, TypeOK, ThreadType
    <3> QED
      BY <3>1, Zenon DEF IInv, WaitInv
  <2>3. SendOf(t)'
    BY <1>0, <2>1, <2>2, Zenon DEF SendOf, Sending
  <2>4. Others(t) /\ \A u \in Threads \ {t} : val'[u] = val[u] /\ msg'[u] = msg[u]
    BY <1>0, <2>1, <2>2, Zenon DEF Others
  <2>5. /\ \A b \in Blocks : b # msg[t] => data'[b] = data[b]
        /\ \A b \in Blocks : b # msg[t] /\ ~In(b, queued) => next'[b] = next[b]
    BY <1>0, <2>1, Zenon
  <2> QED
    BY <2>3, <2>4, <2>5, SendWrites, Zenon
<1>9. ASSUME NEW t \in Threads, Reset(t) PROVE SendInv'
  <2>1. pc[t] = "idle" /\ UNCHANGED <<next, data, val, msg>>
    BY <1>9, Zenon DEF Reset
  <2>2. \A u \in Threads : \/ pc[u] = "sendwait" /\ pc'[u] = "sendready"
                           \/ pc[u] = "recvwait" /\ pc'[u] = "recvready"
                           \/ pc'[u] = pc[u]
    BY <1>9 DEF Reset, Ready
  <2>3. Others(t) /\ SendOf(t)'
    BY <1>0, <2>1, <2>2, Zenon DEF Others, SendOf, Sending
  <2> QED
    BY <2>1, <2>3, SendKeeps, Zenon
<1>10. ASSUME ResetBlock PROVE SendInv'
  <2>1. head # NULL /\ next' = [next EXCEPT ![head] = free] /\ UNCHANGED <<data, val, msg, pc>>
    BY <1>10, Zenon DEF ResetBlock, call
  <2>2. In(head, queued)
    <3>1. queued # <<>> /\ head = queued[1] /\ 1 \in 1..Len(queued)
      BY <2>1, FirstBlock, TailFacts DEF Lists, IInv, TypeOK, PoolType
    <3> QED
      BY <3>1, Zenon DEF In
  <2>3. ASSUME NEW u \in Threads PROVE SendOf(u)'
    <3>1. pc[u] \in {"linkin", "linkurgent"} => next'[msg[u]] = next[msg[u]]
      BY <1>0, <2>1, <2>2, OwnBlock, Zenon DEF Holding
    <3> QED
      BY <1>0, <2>1, <3>1, Bystander, Zenon
  <2> QED
    BY <2>3, Zenon DEF SendInv
<1>11. ASSUME ResetDone PROVE SendInv'
  BY <1>0, <1>11, Zenon DEF ResetDone, call, SendInv, SendOf
<1>12. CASE UNCHANGED vars
  BY <1>0, <1>12, Zenon DEF vars, call, SendInv, SendOf
<1> QED
  BY <1>1, <1>2, <1>3, <1>4, <1>5, <1>6, <1>7, <1>8, <1>9, <1>10, <1>11, <1>12, Zenon
     DEF Next, Calls, Goes

LEMMA InitInv == Init => IInv
<1> SUFFICES ASSUME Init PROVE IInv
  BY Zenon
<1> USE PoolAssumption, NoneAssumption DEF NULL, Blocks
<1>1. unused \in Seq(Blocks) /\ Len(unused) = MaxMsgs
      /\ \A i \in 1..MaxMsgs : unused[i] = MaxMsgs + 1 - i
  <2>1. unused \in [1..MaxMsgs -> Blocks] /\ MaxMsgs \in Nat
    BY DEF Init
  <2>2. unused \in Seq(Blocks)
    BY <2>1, SeqDef
  <2> QED
    BY <2>1, <2>2, LenProperties DEF Init
<1>2. queued \in Seq(Blocks) /\ Len(queued) = 0 /\ recvq \in Seq(Threads) /\ sendq \in Seq(Threads)
      /\ Len(recvq) = 0 /\ Len(sendq) = 0
  BY EmptySeq, Zenon DEF Init
<1>3. TypeOK
  <2>1. PoolType
    BY <1>1, <1>2 DEF Init, PoolType
  <2>2. ThreadType
    BY <1>2 DEF Init, ThreadType, Points, Holding
  <2>3. CallType
    BY Zenon DEF Init, CallType
  <2> QED
    BY <2>1, <2>2, <2>3, Zenon DEF TypeOK
<1>4. WaitInv
  BY <1>2 DEF WaitInv
<1>5. ListsSound
  <2>1. unused # <<>>
    BY <1>1, EmptySeq, Zenon
  <2>2. Chain(next, head, queued)
    BY <1>2 DEF Init, Chain
  <2>3. free = unused[1]
    BY <1>1 DEF Init
  <2>4. ASSUME NEW i \in 1..Len(unused)
        PROVE  next[unused[i]] = IF i = Len(unused) THEN 0 ELSE unused[i + 1]
    <3>1. i \in 1..MaxMsgs /\ MaxMsgs \in Nat /\ unused[i] = MaxMsgs + 1 - i
      BY <1>1, Zenon
    <3>2. MaxMsgs + 1 - i \in Blocks
      BY <3>1
    <3>3. next = [b \in Blocks |-> b - 1]
      BY Zenon DEF Init
    <3>4. next[unused[i]] = MaxMsgs - i
      BY <3>1, <3>2, <3>3
    <3>5. i # MaxMsgs => unused[i + 1] = MaxMsgs - i
      BY <1>1, <3>1
    <3> QED
      BY <1>1, <3>1, <3>4, <3>5
  <2>5. Chain(next, free, unused)
    BY <2>1, <2>3, <2>4, Zenon DEF Chain
  <2> QED
    BY <1>2, <2>2, <2>5 DEF Init, ListsSound
<1>6. BlocksConserved
  <2>1. ASSUME NEW b \in Blocks PROVE ~In(b, queued) /\ In(b, unused) /\ ~Held(b)
    <3>1. MaxMsgs + 1 - b \in 1..MaxMsgs /\ unused[MaxMsgs + 1 - b] = b
      BY <1>1
    <3>2. ~In(b, queued)
      BY <1>2 DEF In
    <3>3. In(b, unused)
      BY <1>1, <3>1, Zenon DEF In
    <3>4. ~Held(b)
      BY DEF Held, Init
    <3> QED
      BY <3>2, <3>3, <3>4, Zenon
  <2>2. \A i, j \in 1..Len(unused) : unused[i] = unused[j] => i = j
    BY <1>1
  <2>3. \A t, u \in Threads : msg[t] = msg[u] /\ msg[t] # NULL => t = u
    BY Zenon DEF Init
  <2> QED
    BY <1>2, <2>1, <2>2, <2>3 DEF BlocksConserved, Distinct
<1>7. SendInv
  BY Zenon DEF Init, SendInv, SendOf, Sending
<1> QED
  BY <1>3, <1>4, <1>5, <1>6, <1>7, Zenon DEF IInv

LEMMA StepInv == IInv /\ [Next]_vars => IInv'
BY CallTypeStep, ThreadStep, PoolStep, SendStep DEF IInv, TypeOK, ThreadInv, Lists, PoolInv

\* The inductive invariant of the message queue.
THEOREM Inductive == Spec => []IInv
BY InitInv, StepInv, PTL DEF Spec

\* Links and indices stay inside the pool, and a thread holds a block exactly
\* while it copies or links (rt_mq_send_wait, rt_mq_urgent, rt_mq_recv).
THEOREM TypeCorrect == Spec => []TypeOK
<1>1. IInv => TypeOK
  BY Zenon DEF IInv
<1> QED
  BY <1>1, Inductive, PTL

\* The two linked lists of the pool are well formed after every step, for any
\* number of threads and blocks and any interleaving, resets included.
THEOREM ListsAreSound == Spec => []ListsSound
<1>1. IInv => ListsSound
  BY Zenon DEF IInv
<1> QED
  BY <1>1, Inductive, PTL

\* No block is lost, shared or in two lists, although messages are copied with
\* interrupts enabled.
THEOREM BlocksAreConserved == Spec => []BlocksConserved
<1>1. IInv => BlocksConserved
  BY Zenon DEF IInv
<1> QED
  BY <1>1, Inductive, PTL
=============================================================================
