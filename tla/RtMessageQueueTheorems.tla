----------------------- MODULE RtMessageQueueTheorems -----------------------
(***************************************************************************)
(* What the users of a message queue rely on, for any number of blocks and *)
(* messages: every step of the kernel's queue implements a step of         *)
(* BoundedQueue, and no wake-up is lost.                                   *)
(***************************************************************************)
EXTENDS RtMessageQueueProofs, FiniteSetTheorems

-----------------------------------------------------------------------------
(* The refinement. *)

\* While a thread holds a block, the lists have fewer than MaxMsgs blocks.
LEMMA HeldCounts ==
    ASSUME IInv, NEW t \in Threads, pc[t] \in Holding
    PROVE  Len(queued) + Len(unused) < MaxMsgs
<1> DEFINE m == msg[t]
           a == Len(queued)
           n == Len(queued) + Len(unused)
           f == [i \in 1..n |-> IF i <= a THEN queued[i] ELSE unused[i - a]]
           T == Blocks \ {m}
<1>1. /\ m \in Blocks /\ ~In(m, queued) /\ ~In(m, unused) /\ Parts
      /\ a \in Nat /\ Len(unused) \in Nat
  BY Hands, LenProperties, Zenon DEF Parts, OnePlace, Held, PoolType
<1>2. /\ \A i \in 1..a : queued[i] \in T /\ ~In(queued[i], unused)
      /\ \A i \in 1..Len(unused) : unused[i] \in T /\ In(unused[i], unused)
  BY <1>1, Members, Zenon DEF In, Parts, OnePlace
<1>3. f \in [1..n -> T]
  BY <1>1, <1>2
<1>4. ASSUME NEW i \in 1..n, NEW j \in 1..n, f[i] = f[j] PROVE i = j
  <2>1. CASE i <= a /\ j <= a
    BY <1>1, <1>4, <2>1 DEF Parts, Distinct
  <2>2. CASE i > a /\ j > a
    <3>1. i - a \in 1..Len(unused) /\ j - a \in 1..Len(unused) /\ unused[i - a] = unused[j - a]
      BY <1>1, <1>4, <2>2
    <3>2. i - a = j - a
      BY <1>1, <3>1, Zenon DEF Parts, Distinct
    <3> QED
      BY <1>1, <3>2
  <2>3. CASE i <= a /\ j > a
    <3>1. i \in 1..a /\ j - a \in 1..Len(unused) /\ queued[i] = unused[j - a]
      BY <1>1, <1>4, <2>3
    <3> QED
      BY <1>2, <3>1, Zenon
  <2>4. CASE i > a /\ j <= a
    <3>1. j \in 1..a /\ i - a \in 1..Len(unused) /\ queued[j] = unused[i - a]
      BY <1>1, <1>4, <2>4
    <3> QED
      BY <1>2, <3>1, Zenon
  <2> QED
    BY <1>1, <2>1, <2>2, <2>3, <2>4
<1>5. f \in Injection(1..n, T)
  BY <1>3, <1>4, Zenon DEF Injection, IsInjective
<1>6. IsFiniteSet(Blocks) /\ Cardinality(Blocks) = MaxMsgs
  BY FS_Interval, PoolAssumption DEF Blocks
<1>7. IsFiniteSet(T) /\ Cardinality(T) = MaxMsgs - 1
  BY <1>1, <1>6, FS_RemoveElement, Zenon
<1> HIDE DEF f, T
<1>8. Cardinality(1..n) <= Cardinality(T)
  BY <1>5, <1>7, FS_Injection, Zenon
<1>9. n \in Nat
  BY <1>1
<1> HIDE DEF n
<1>10. Cardinality(1..n) = n
  BY <1>9, FS_Interval
<1> QED
  BY <1>7, <1>8, <1>9, <1>10, PoolAssumption DEF n

\* The abstract state.
Q == [i \in 1..Len(queued) |-> data[queued[i]]]
U == MaxMsgs - Len(unused)
W == [t \in Threads |-> Wanted(t)]
Got(t) == IF pc[t] = "copyout" THEN data[msg[t]] ELSE got[t]
G == [t \in Threads |-> Got(t)]

LEMMA QType ==
    ASSUME IInv
    PROVE  /\ Q \in Seq(Values \cup {None}) /\ Len(Q) = Len(queued) /\ Len(queued) \in Nat
           /\ Q = <<>> <=> queued = <<>>
           /\ \A i \in 1..Len(queued) : Q[i] = data[queued[i]] /\ queued[i] \in Blocks
<1>1. queued \in Seq(Blocks) /\ Len(queued) \in Nat /\ data \in [Blocks -> Values \cup {None}]
      /\ \A i \in 1..Len(queued) : queued[i] \in Blocks
  BY LenProperties, ElementOfSeq, Zenon DEF IInv, TypeOK, PoolType
<1>2. Q \in [1..Len(queued) -> Values \cup {None}]
  BY <1>1, Zenon DEF Q
<1>3. Q \in Seq(Values \cup {None}) /\ Len(Q) = Len(queued)
  BY <1>1, <1>2, SeqDef, LenProperties
<1>4. (Q = <<>> <=> Len(Q) = 0) /\ (queued = <<>> <=> Len(queued) = 0)
  BY <1>1, <1>3, EmptySeq, Zenon
<1> QED
  BY <1>1, <1>3, <1>4, Zenon DEF Q

LEMMA QSame ==
    ASSUME IInv, queued' = queued, \A b \in Blocks : In(b, queued) => data'[b] = data[b]
    PROVE  Q' = Q
<1>1. \A i \in 1..Len(queued) : data'[queued[i]] = data[queued[i]]
  BY QType, Zenon DEF In
<1> QED
  BY <1>1, Zenon DEF Q

LEMMA QTail ==
    ASSUME IInv, IInv', queued # <<>>, queued' = Tail(queued), data' = data
    PROVE  Q # <<>> /\ Q' = Tail(Q) /\ Head(Q) = data[queued[1]]
<1>1. /\ Q \in Seq(Values \cup {None}) /\ Len(Q) = Len(queued) /\ Q # <<>>
      /\ \A i \in 1..Len(queued) : Q[i] = data[queued[i]]
  BY QType, Zenon
<1>2. /\ Len(Tail(queued)) = Len(queued) - 1 /\ Len(queued) \in Nat \ {0}
      /\ \A i \in 1..(Len(queued) - 1) : Tail(queued)[i] = queued[i + 1]
  BY TailFacts, Zenon DEF IInv, TypeOK, PoolType
<1>3. /\ Tail(Q) \in Seq(Values \cup {None}) /\ Len(Tail(Q)) = Len(Q) - 1 /\ Head(Q) = Q[1]
      /\ \A i \in 1..(Len(Q) - 1) : Tail(Q)[i] = Q[i + 1]
  BY <1>1, TailFacts, Zenon
<1>4. \A i \in 1..(Len(queued) - 1) : Q'[i] = Tail(Q)[i]
  BY <1>1, <1>2, <1>3 DEF Q
<1>5. Q' = [i \in 1..(Len(queued) - 1) |-> Q'[i]] /\ Tail(Q) = [i \in 1..(Len(queued) - 1) |-> Tail(Q)[i]]
  BY <1>1, <1>2, <1>3, LenProperties DEF Q
<1> QED
  BY <1>1, <1>2, <1>3, <1>4, <1>5

LEMMA QAppend ==
    ASSUME IInv, NEW m \in Blocks, queued' = Append(queued, m), data' = data
    PROVE  Q' = Append(Q, data[m])
<1>1. /\ Q \in Seq(Values \cup {None}) /\ Len(Q) = Len(queued) /\ Len(queued) \in Nat
      /\ \A i \in 1..Len(queued) : Q[i] = data[queued[i]]
  BY QType, Zenon
<1>2. /\ Len(queued') = Len(queued) + 1 /\ queued'[Len(queued) + 1] = m
      /\ \A i \in 1..Len(queued) : queued'[i] = queued[i]
  BY AppendFacts DEF IInv, TypeOK, PoolType
<1>3. data[m] \in Values \cup {None}
  BY Zenon DEF IInv, TypeOK, PoolType
<1> DEFINE c == Append(Q, data[m])
<1>4. /\ c \in Seq(Values \cup {None}) /\ Len(c) = Len(Q) + 1 /\ c[Len(Q) + 1] = data[m]
      /\ \A i \in 1..Len(Q) : c[i] = Q[i]
  BY <1>1, <1>3, AppendFacts
<1>5. c = [i \in 1..(Len(queued) + 1) |-> c[i]]
  BY <1>1, <1>4, LenProperties, Zenon
<1> HIDE DEF c
<1>6. Q' = [i \in 1..(Len(queued) + 1) |-> data[queued'[i]]]
  BY <1>2, Zenon DEF Q
<1>7. \A i \in 1..(Len(queued) + 1) : c[i] = data[queued'[i]]
  BY <1>1, <1>2, <1>4
<1> QED
  BY <1>5, <1>6, <1>7, Zenon DEF c

LEMMA QCons ==
    ASSUME IInv, NEW m \in Blocks, queued' = <<m>> \o queued, data' = data
    PROVE  Q' = <<data[m]>> \o Q
<1> DEFINE c == <<data[m]>> \o Q
<1>1. /\ Q \in Seq(Values \cup {None}) /\ Len(Q) = Len(queued) /\ Len(queued) \in Nat
      /\ \A i \in 1..Len(queued) : Q[i] = data[queued[i]]
  BY QType, Zenon
<1>2. /\ Len(queued') = Len(queued) + 1 /\ queued'[1] = m
      /\ \A i \in 1..Len(queued) : queued'[i + 1] = queued[i]
  BY ConsFacts DEF IInv, TypeOK, PoolType
<1>3. data[m] \in Values \cup {None}
  BY Zenon DEF IInv, TypeOK, PoolType
<1>4. /\ c \in Seq(Values \cup {None}) /\ Len(c) = Len(Q) + 1 /\ c[1] = data[m]
      /\ \A i \in 1..Len(Q) : c[i + 1] = Q[i]
  BY <1>1, <1>3, ConsFacts
<1>5. c = [i \in 1..(Len(queued) + 1) |-> c[i]]
  BY <1>1, <1>4, LenProperties, Zenon
<1> HIDE DEF c
<1>6. Q' = [i \in 1..(Len(queued) + 1) |-> data[queued'[i]]]
  BY <1>2, Zenon DEF Q
<1>7. ASSUME NEW i \in 1..(Len(queued) + 1) PROVE c[i] = data[queued'[i]]
  <2>1. i = 1 \/ (i - 1 \in 1..Len(queued) /\ (i - 1) + 1 = i)
    BY <1>1
  <2>2. i # 1 => c[(i - 1) + 1] = Q[i - 1] /\ queued'[(i - 1) + 1] = queued[i - 1]
    BY <1>1, <1>2, <1>4, <2>1, Zenon
  <2> QED
    BY <1>1, <1>2, <1>4, <2>1, <2>2, Zenon
<1> QED
  BY <1>5, <1>6, <1>7, Zenon DEF c

\* What the abstract queue knows of a thread, by its position.
LEMMA WantedFacts ==
    ASSUME NEW t \in Threads
    PROVE  /\ pc[t] \in {"sendwait", "sendready"} =>
                Wanted(t) = [val |-> val[t], front |-> FALSE, placed |-> FALSE]
           /\ pc[t] \in {"copyin", "linkin"} =>
                Wanted(t) = [val |-> val[t], front |-> FALSE, placed |-> TRUE]
           /\ pc[t] \in {"copyurgent", "linkurgent"} =>
                Wanted(t) = [val |-> val[t], front |-> TRUE, placed |-> TRUE]
           /\ pc[t] \notin Sending => Wanted(t) = None
BY DEF Wanted, Sending

LEMMA WantedNext ==
    ASSUME NEW t \in Threads
    PROVE  /\ pc'[t] \in {"sendwait", "sendready"} =>
                Wanted(t)' = [val |-> val'[t], front |-> FALSE, placed |-> FALSE]
           /\ pc'[t] \in {"copyin", "linkin"} =>
                Wanted(t)' = [val |-> val'[t], front |-> FALSE, placed |-> TRUE]
           /\ pc'[t] \in {"copyurgent", "linkurgent"} =>
                Wanted(t)' = [val |-> val'[t], front |-> TRUE, placed |-> TRUE]
           /\ pc'[t] \notin Sending => Wanted(t)' = None
BY DEF Wanted, Sending

\* The other threads of a step of t, as the abstract queue sees them.
LEMMA OthersMap ==
    ASSUME IInv, NEW t \in Threads, Others(t),
           \A u \in Threads \ {t} : val'[u] = val[u] /\ msg'[u] = msg[u] /\ got'[u] = got[u],
           \A b \in Blocks : b # msg[t] => data'[b] = data[b]
    PROVE  W' = [W EXCEPT ![t] = Wanted(t)'] /\ G' = [G EXCEPT ![t] = Got(t)']
<1>1. ASSUME NEW u \in Threads \ {t} PROVE Wanted(u)' = Wanted(u) /\ Got(u)' = Got(u)
  <2>1. val'[u] = val[u] /\ msg'[u] = msg[u] /\ got'[u] = got[u]
    BY Zenon
  <2>2. \/ pc'[u] = pc[u]
        \/ pc[u] = "recvwait" /\ pc'[u] = "recvready"
        \/ pc[u] = "sendwait" /\ pc'[u] = "sendready"
    BY Zenon DEF Others
  <2>3. Wanted(u)' = Wanted(u)
    <3>1. CASE pc'[u] = pc[u]
      BY <2>1, <3>1, Zenon DEF Wanted
    <3>2. CASE pc[u] = "recvwait" /\ pc'[u] = "recvready"
      BY <3>2, WantedFacts, WantedNext, Zenon DEF Sending
    <3>3. CASE pc[u] = "sendwait" /\ pc'[u] = "sendready"
      BY <2>1, <3>3, WantedFacts, WantedNext, ZenonT(40)
    <3> QED
      BY <2>2, <3>1, <3>2, <3>3, Zenon
  <2>4. pc[u] = "copyout" => data'[msg[u]] = data[msg[u]]
    BY OwnBlock, Zenon DEF Holding
  <2>5. Got(u)' = Got(u)
    BY <2>1, <2>2, <2>4, Zenon DEF Got
  <2> QED
    BY <2>3, <2>5, Zenon
<1> QED
  BY <1>1, Zenon DEF W, G

\* Steps the abstract queue does not see.
LEMMA Stutters ==
    ASSUME IInv, NEW t \in Threads, Others(t),
           \A u \in Threads \ {t} : val'[u] = val[u] /\ msg'[u] = msg[u] /\ got'[u] = got[u],
           \A b \in Blocks : b # msg[t] => data'[b] = data[b],
           queued' = queued, unused' = unused, ~In(msg[t], queued) \/ data' = data,
           Wanted(t)' = Wanted(t), Got(t)' = Got(t)
    PROVE  Q' = Q /\ U' = U /\ W' = W /\ G' = G
<1>1. \A b \in Blocks : In(b, queued) => data'[b] = data[b]
  BY Zenon
<1>2. Q' = Q /\ U' = U
  BY <1>1, QSame, Zenon DEF U
<1>3. W' = [W EXCEPT ![t] = Wanted(t)'] /\ G' = [G EXCEPT ![t] = Got(t)']
  BY OthersMap, Zenon
<1>4. W' = W /\ G' = G
  BY <1>3, ZenonT(40) DEF W, G
<1> QED
  BY <1>2, <1>4, Zenon

LEMMA MapInit == Init => Queue!Init
<1> SUFFICES ASSUME Init PROVE Queue!Init
  BY Zenon
<1>1. Q = <<>>
  <2>1. Q = [i \in 1..0 |-> data[queued[i]]]
    BY Zenon DEF Init, Q
  <2> QED
    BY <2>1
<1>2. U = 0
  <2>1. unused \in [1..MaxMsgs -> Blocks] /\ MaxMsgs \in Nat
    BY PoolAssumption DEF Init, Blocks
  <2>2. Len(unused) = MaxMsgs
    BY <2>1, SeqDef, LenProperties
  <2> QED
    BY <2>1, <2>2 DEF U
<1>3. W = [t \in Threads |-> None]
  BY WantedFacts, Zenon DEF Init, W, Sending
<1>4. G = [t \in Threads |-> None]
  BY Zenon DEF Init, G, Got
<1> QED
  BY <1>1, <1>2, <1>3, <1>4, Zenon DEF Queue!Init, Q, U, W, G, Got

\* The abstract actions, over the abstract state.
LEMMA AbsAsk ==
    ASSUME NEW t \in Threads, NEW v \in Values, W[t] = None,
           W' = [W EXCEPT ![t] = [val |-> v, front |-> FALSE, placed |-> FALSE]],
           Q' = Q, U' = U, G' = G
    PROVE  Queue!Next
<1>1. Queue!Ask(t, v)
  BY Zenon DEF Queue!Ask, Queue!Request, Q, U, W, G, Got
<1> QED
  BY <1>1, Zenon DEF Queue!Next

LEMMA AbsEnter ==
    ASSUME NEW t \in Threads, NEW v \in Values, NEW front \in BOOLEAN,
           W[t] \in {None, [val |-> v, front |-> FALSE, placed |-> FALSE]},
           W' = [W EXCEPT ![t] = [val |-> v, front |-> front, placed |-> TRUE]],
           U < MaxMsgs, U' = U + 1, Q' = Q, G' = G
    PROVE  Queue!Next
<1>1. Queue!Enter(t, v, front)
  BY Zenon DEF Queue!Enter, Queue!TakePlace, Queue!Request, Q, U, W, G, Got
<1> QED
  BY <1>1, Zenon DEF Queue!Next

LEMMA AbsGiveUp ==
    ASSUME NEW t \in Threads, W[t] # None, ~W[t].placed, W' = [W EXCEPT ![t] = None],
           Q' = Q, U' = U, G' = G
    PROVE  Queue!Next
<1>1. Queue!GiveUp(t)
  BY Zenon DEF Queue!GiveUp, Q, U, W, G, Got
<1> QED
  BY <1>1, Zenon DEF Queue!Next

LEMMA AbsPut ==
    ASSUME NEW t \in Threads, W[t] # None, W[t].placed, W' = [W EXCEPT ![t] = None],
           Q' = IF W[t].front THEN <<W[t].val>> \o Q ELSE Append(Q, W[t].val),
           U' = U, G' = G
    PROVE  Queue!Next
<1>1. Queue!Put(t)
  BY Zenon DEF Queue!Put, Q, U, W, G, Got
<1> QED
  BY <1>1, Zenon DEF Queue!Next

LEMMA AbsGet ==
    ASSUME NEW t \in Threads, Q # <<>>, Q' = Tail(Q), G' = [G EXCEPT ![t] = Head(Q)],
           U' = U, W' = W
    PROVE  Queue!Next
<1>1. Queue!Get(t)
  BY Zenon DEF Queue!Get, Q, U, W, G, Got
<1> QED
  BY <1>1, Zenon DEF Queue!Next

LEMMA AbsRelease ==
    ASSUME Len(Q) < U, U' = U - 1, Q' = Q, W' = W, G' = G
    PROVE  Queue!Next
<1>1. Queue!Release
  BY Zenon DEF Queue!Release, Q, U, W, G, Got
<1> QED
  BY <1>1, Zenon DEF Queue!Next

LEMMA AbsDiscard ==
    ASSUME Q # <<>>, Q' = Tail(Q), U' = U - 1, W' = W, G' = G
    PROVE  Queue!Next
<1>1. Queue!Discard
  BY Zenon DEF Queue!Discard, Q, U, W, G, Got
<1> QED
  BY <1>1, Zenon DEF Queue!Next

Same == Q' = Q /\ U' = U /\ W' = W /\ G' = G

\* A thread takes a free block: it enters with the place.
LEMMA Enters ==
    ASSUME IInv, NEW t \in Threads, NEW v \in Values, NEW front \in BOOLEAN,
           GetFree(t), UNCHANGED <<data, got, queued>>, val' = [val EXCEPT ![t] = v],
           pc[t] \in {"idle", "sendready"}, pc[t] = "sendready" => val[t] = v,
           pc' = [pc EXCEPT ![t] = IF front THEN "copyurgent" ELSE "copyin"]
    PROVE  Queue!Next
<1>1. /\ pc \in [Threads -> Points] /\ msg \in [Threads -> 0..MaxMsgs]
      /\ val \in [Threads -> Values \cup {None}]
  BY Zenon DEF IInv, TypeOK, ThreadType, CallType
<1>2. Others(t) /\ \A u \in Threads \ {t} : val'[u] = val[u] /\ msg'[u] = msg[u] /\ got'[u] = got[u]
  BY <1>1, Zenon DEF Others, GetFree
<1>3. W' = [W EXCEPT ![t] = Wanted(t)'] /\ G' = [G EXCEPT ![t] = Got(t)']
  BY <1>2, OthersMap, Zenon
<1>4. Wanted(t)' = [val |-> v, front |-> front, placed |-> TRUE]
  BY <1>1, WantedNext, Zenon
<1>5. Got(t)' = Got(t) /\ G' = G
  <2>1. Got(t)' = Got(t)
    BY <1>1, Zenon DEF Got
  <2> QED
    BY <1>3, <2>1, Zenon DEF G
<1>6. W[t] \in {None, [val |-> v, front |-> FALSE, placed |-> FALSE]}
  BY WantedFacts, Zenon DEF W, Sending
<1>7. Q' = Q
  BY QSame, Zenon
<1>8. U < MaxMsgs /\ U' = U + 1
  <2>1. unused # <<>> /\ unused \in Seq(Blocks)
    BY FreeBlock, Zenon DEF GetFree, IInv, Lists, TypeOK, PoolType
  <2>2. Len(Tail(unused)) = Len(unused) - 1 /\ Len(unused) \in Nat \ {0} /\ unused' = Tail(unused)
    BY <2>1, TailFacts, Zenon DEF GetFree
  <2> QED
    BY <2>2, PoolAssumption DEF U
<1> QED
  BY <1>3, <1>4, <1>5, <1>6, <1>7, <1>8, AbsEnter, Zenon

\* A thread takes the first message.
LEMMA Takes ==
    ASSUME IInv, IInv', NEW t \in Threads, resetting = None,
           pc[t] \in {"idle", "recvready"}, pc' = [pc EXCEPT ![t] = "copyout"],
           GetHead(t), UNCHANGED <<data, got, val, unused>>
    PROVE  Queue!Next
<1>1. pc \in [Threads -> Points] /\ msg \in [Threads -> 0..MaxMsgs]
  BY Zenon DEF IInv, TypeOK, ThreadType
<1>2. Others(t) /\ \A u \in Threads \ {t} : val'[u] = val[u] /\ msg'[u] = msg[u] /\ got'[u] = got[u]
  BY <1>1, Zenon DEF Others, GetHead
<1>3. W' = [W EXCEPT ![t] = Wanted(t)'] /\ G' = [G EXCEPT ![t] = Got(t)']
  BY <1>2, OthersMap, Zenon
<1>4. queued # <<>> /\ head = queued[1]
  BY HeadBlock, Zenon DEF GetHead, Lists, IInv
<1>5. Q # <<>> /\ Q' = Tail(Q) /\ Head(Q) = data[head]
  BY <1>4, QTail, Zenon DEF GetHead, Unlink
<1>6. Got(t)' = Head(Q)
  BY <1>1, <1>5, Zenon DEF Got, GetHead
<1>7. Wanted(t)' = Wanted(t)
  BY <1>1, WantedFacts, WantedNext, Zenon DEF Sending
<1>8. W' = W /\ U' = U
  BY <1>3, <1>7, Zenon DEF W, U
<1> QED
  BY <1>3, <1>5, <1>6, <1>8, AbsGet, Zenon

\* A thread links the message it has copied.
LEMMA Puts ==
    ASSUME IInv, NEW t \in Threads, NEW front \in BOOLEAN,
           pc[t] = IF front THEN "linkurgent" ELSE "linkin", pc'[t] = "idle", Others(t),
           queued' = IF front THEN <<msg[t]>> \o queued ELSE Append(queued, msg[t]),
           UNCHANGED <<data, got, val, unused>>, msg' = [msg EXCEPT ![t] = NULL]
    PROVE  Queue!Next
<1>1. msg \in [Threads -> 0..MaxMsgs] /\ msg[t] \in Blocks /\ val[t] \in Values /\ data[msg[t]] = val[t]
  BY OwnBlock, Zenon DEF IInv, TypeOK, ThreadType, SendInv, SendOf, Sending, Holding
<1>2. \A u \in Threads \ {t} : val'[u] = val[u] /\ msg'[u] = msg[u] /\ got'[u] = got[u]
  BY <1>1, Zenon
<1>3. W' = [W EXCEPT ![t] = Wanted(t)'] /\ G' = [G EXCEPT ![t] = Got(t)']
  BY <1>2, OthersMap, Zenon
<1>4. W[t] = [val |-> val[t], front |-> front, placed |-> TRUE] /\ Wanted(t)' = None
  BY WantedFacts, WantedNext, Zenon DEF W, Sending
<1>5. W[t] # None /\ W[t].placed /\ W[t].front = front /\ W[t].val = val[t]
  <2>1. [val |-> val[t], front |-> front, placed |-> TRUE] # None
    BY <1>1, NoneAssumption, Zenon
  <2> QED
    BY <1>4, <2>1
<1>6. Q' = IF front THEN <<val[t]>> \o Q ELSE Append(Q, val[t])
  BY <1>1, QAppend, QCons, Zenon
<1>7. G' = G /\ U' = U
  <2>1. Got(t)' = Got(t)
    BY Zenon DEF Got
  <2> QED
    BY <1>3, <2>1, Zenon DEF G, U
<1> QED
  <2>1. W' = [W EXCEPT ![t] = None]
    BY <1>3, <1>4, Zenon
  <2>2. Q' = IF W[t].front THEN <<W[t].val>> \o Q ELSE Append(Q, W[t].val)
    BY <1>5, <1>6, Zenon
  <2> QED
    BY <1>5, <1>7, <2>1, <2>2, AbsPut, Zenon

\* Every step of the pool is a step of the bounded queue, or none at all.
LEMMA MapStep == IInv /\ IInv' /\ [Next]_vars => Queue!Next \/ Same
<1> SUFFICES ASSUME IInv, IInv', [Next]_vars PROVE Queue!Next \/ Same
  BY Zenon
<1>0. /\ pc \in [Threads -> Points] /\ msg \in [Threads -> 0..MaxMsgs]
      /\ val \in [Threads -> Values \cup {None}] /\ got \in [Threads -> Values \cup {None}]
      /\ data \in [Blocks -> Values \cup {None}]
  BY Zenon DEF IInv, TypeOK, PoolType, ThreadType, CallType
<1>1. ASSUME NEW t \in Threads, NEW v \in Values, SendNow(t, v) PROVE Queue!Next
  BY <1>1, Enters, Zenon DEF SendNow, Step, list
<1>2. ASSUME NEW t \in Threads, NEW v \in Values, UrgentNow(t, v) PROVE Queue!Next
  BY <1>2, Enters, Zenon DEF UrgentNow, Step, list
<1>3. ASSUME NEW t \in Threads, NEW v \in Values, NEW to \in Timeouts, SendWait(t, v, to)
      PROVE  Queue!Next
  <2>1. /\ pc[t] = "idle" /\ pc' = [pc EXCEPT ![t] = "sendwait"] /\ val' = [val EXCEPT ![t] = v]
        /\ UNCHANGED <<data, msg, got, queued, unused>>
    BY <1>3, Zenon DEF SendWait, SuspendSender, Step, list, pool
  <2>2. Others(t) /\ \A u \in Threads \ {t} : val'[u] = val[u] /\ msg'[u] = msg[u] /\ got'[u] = got[u]
    BY <1>0, <2>1, Zenon DEF Others
  <2>3. W' = [W EXCEPT ![t] = Wanted(t)'] /\ G' = [G EXCEPT ![t] = Got(t)']
    BY <2>1, <2>2, OthersMap, Zenon
  <2>4. W[t] = None /\ Wanted(t)' = [val |-> v, front |-> FALSE, placed |-> FALSE]
    BY <1>0, <2>1, WantedFacts, WantedNext, Zenon DEF W, Sending
  <2>5. Got(t)' = Got(t) /\ Q' = Q /\ U' = U
    BY <1>0, <2>1, QSame, Zenon DEF Got, U
  <2>6. G' = G
    BY <2>3, <2>5, Zenon DEF G
  <2>7. W' = [W EXCEPT ![t] = [val |-> v, front |-> FALSE, placed |-> FALSE]]
    BY <2>3, <2>4, Zenon
  <2> QED
    BY <2>4, <2>5, <2>6, <2>7, AbsAsk, Zenon
<1>4. ASSUME NEW t \in Threads, SendFails(t) PROVE Queue!Next
  <2>1. /\ pc[t] = "sendready" /\ pc' = [pc EXCEPT ![t] = "idle"]
        /\ UNCHANGED <<data, msg, got, val, queued, unused>>
    BY <1>4, Zenon DEF SendFails, Step, list, pool
  <2>2. Others(t) /\ \A u \in Threads \ {t} : val'[u] = val[u] /\ msg'[u] = msg[u] /\ got'[u] = got[u]
    BY <1>0, <2>1, Zenon DEF Others
  <2>3. W' = [W EXCEPT ![t] = Wanted(t)'] /\ G' = [G EXCEPT ![t] = Got(t)']
    BY <2>1, <2>2, OthersMap, Zenon
  <2>4. W[t] = [val |-> val[t], front |-> FALSE, placed |-> FALSE] /\ Wanted(t)' = None
    BY <1>0, <2>1, WantedFacts, WantedNext, Zenon DEF W, Sending
  <2>5. val[t] \in Values
    BY <2>1, Zenon DEF IInv, SendInv, SendOf, Sending
  <2>6. W[t] # None /\ ~W[t].placed /\ W' = [W EXCEPT ![t] = None]
    <3>1. [val |-> val[t], front |-> FALSE, placed |-> FALSE] # None
      BY <2>5, NoneAssumption, Zenon
    <3> QED
      BY <2>3, <2>4, <3>1
  <2>7. Got(t)' = Got(t) /\ Q' = Q /\ U' = U
    BY <1>0, <2>1, QSame, Zenon DEF Got, U
  <2>8. G' = G
    BY <2>3, <2>7, Zenon DEF G
  <2> QED
    BY <2>6, <2>7, <2>8, AbsGiveUp, Zenon
<1>5. ASSUME NEW t \in Threads, SendAgain(t) PROVE Queue!Next \/ Same
  <2>1. CASE Step(t, "sendready", "copyin") /\ GetFree(t) /\ UNCHANGED <<data, list, call>>
    <3>1. val[t] \in Values /\ val' = [val EXCEPT ![t] = val[t]]
      BY <1>0, <2>1, Zenon DEF IInv, SendInv, SendOf, Sending, Step, call
    <3> QED
      BY <2>1, <3>1, Enters, Zenon DEF Step, list, call
  <2>2. CASE Step(t, "sendready", "sendwait") /\ UNCHANGED val /\ SuspendSender(t, timeout[t])
    <3>1. /\ pc[t] = "sendready" /\ pc' = [pc EXCEPT ![t] = "sendwait"]
          /\ UNCHANGED <<data, msg, got, val, queued, unused>>
      BY <2>2, Zenon DEF SuspendSender, Step, list, pool
    <3>2. Others(t) /\ \A u \in Threads \ {t} : val'[u] = val[u] /\ msg'[u] = msg[u] /\ got'[u] = got[u]
      BY <1>0, <3>1, Zenon DEF Others
    <3>3. Wanted(t)' = Wanted(t) /\ Got(t)' = Got(t)
      BY <1>0, <3>1, WantedFacts, WantedNext, Zenon DEF Got
    <3> QED
      BY <3>1, <3>2, <3>3, Stutters, Zenon DEF Same
  <2> QED
    BY <1>5, <2>1, <2>2, Zenon DEF SendAgain
<1>6. ASSUME NEW t \in Threads,
             \/ \E to \in Timeouts : RecvWait(t, to)
             \/ SendFull(t) \/ RecvFails(t) \/ ReceiverTimeout(t)
             \/ Step(t, "recvready", "recvwait") /\ SuspendReceiver(t, timeout[t])
      PROVE  Same
  <2>1. /\ pc[t] \in {"idle", "recvready", "recvwait"}
        /\ \E to \in {"idle", "recvready", "recvwait"} : pc' = [pc EXCEPT ![t] = to]
        /\ UNCHANGED <<data, msg, got, val, queued, unused>>
    BY <1>6, Zenon DEF RecvWait, SendFull, RecvFails, ReceiverTimeout, SuspendReceiver, Expire, Step,
                Ready, list, pool, call
  <2>2. Others(t) /\ \A u \in Threads \ {t} : val'[u] = val[u] /\ msg'[u] = msg[u] /\ got'[u] = got[u]
    BY <1>0, <2>1, Zenon DEF Others
  <2>3. Wanted(t)' = Wanted(t) /\ Got(t)' = Got(t)
    BY <1>0, <2>1, WantedFacts, WantedNext, Zenon DEF Got, Sending
  <2> QED
    BY <2>1, <2>2, <2>3, Stutters, Zenon DEF Same
<1>7. ASSUME NEW t \in Threads, SenderTimeout(t) PROVE Same
  <2>1. /\ pc[t] = "sendwait" /\ pc' = [pc EXCEPT ![t] = "sendready"]
        /\ UNCHANGED <<data, msg, got, val, queued, unused>>
    BY <1>7, Zenon DEF SenderTimeout, Expire, Step, Ready, list, pool
  <2>2. Others(t) /\ \A u \in Threads \ {t} : val'[u] = val[u] /\ msg'[u] = msg[u] /\ got'[u] = got[u]
    BY <1>0, <2>1, Zenon DEF Others
  <2>3. Wanted(t)' = Wanted(t) /\ Got(t)' = Got(t)
    BY <1>0, <2>1, WantedFacts, WantedNext, Zenon DEF Got
  <2> QED
    BY <2>1, <2>2, <2>3, Stutters, Zenon DEF Same
<1>8. ASSUME NEW t \in Threads, CopyIn(t) \/ CopyUrgent(t) PROVE Same
  <2>1. /\ \/ pc[t] = "copyin" /\ pc' = [pc EXCEPT ![t] = "linkin"]
           \/ pc[t] = "copyurgent" /\ pc' = [pc EXCEPT ![t] = "linkurgent"]
        /\ data' = [data EXCEPT ![msg[t]] = val[t]]
        /\ UNCHANGED <<msg, got, val, queued, unused>>
    BY <1>8, Zenon DEF CopyIn, CopyUrgent, Step, list, pool, call
  <2>2. Others(t) /\ \A u \in Threads \ {t} : val'[u] = val[u] /\ msg'[u] = msg[u] /\ got'[u] = got[u]
    BY <1>0, <2>1, Zenon DEF Others
  <2>3. Wanted(t)' = Wanted(t) /\ Got(t)' = Got(t)
    BY <1>0, <2>1, WantedFacts, WantedNext, Zenon DEF Got
  <2>4. ~In(msg[t], queued) /\ \A b \in Blocks : b # msg[t] => data'[b] = data[b]
    BY <1>0, <2>1, OwnBlock, Zenon DEF Holding
  <2> QED
    BY <2>1, <2>2, <2>3, <2>4, Stutters, Zenon DEF Same
<1>9. ASSUME NEW t \in Threads, LinkIn(t) \/ LinkUrgent(t) PROVE Queue!Next
  <2>1. PICK front \in BOOLEAN :
          /\ pc[t] = IF front THEN "linkurgent" ELSE "linkin"
          /\ queued' = IF front THEN <<msg[t]>> \o queued ELSE Append(queued, msg[t])
    BY <1>9, Zenon DEF LinkIn, LinkUrgent, Linked
  <2>2. /\ msg' = [msg EXCEPT ![t] = NULL] /\ UNCHANGED <<data, got, val, unused>>
        /\ \/ pc' = [pc EXCEPT ![t] = "idle"]
           \/ recvq # <<>> /\ pc' = [pc EXCEPT ![t] = "idle", ![Head(recvq)] = "recvready"]
    BY <1>9, Zenon DEF LinkIn, LinkUrgent, Linked, pool, call
  <2>3. recvq # <<>> => Head(recvq) \in Threads /\ pc[Head(recvq)] = "recvwait"
    <3>1. recvq # <<>> => Head(recvq) = recvq[1] /\ Head(recvq) \in Threads /\ 1 \in 1..Len(recvq)
      BY TailFacts DEF IInv, TypeOK, ThreadType
    <3> QED
      BY <3>1, Zenon DEF IInv, WaitInv
  <2>4. Others(t) /\ pc'[t] = "idle"
    BY <1>0, <2>1, <2>2, <2>3, Zenon DEF Others
  <2> QED
    BY <2>1, <2>2, <2>4, Puts, Zenon
<1>10. ASSUME NEW t \in Threads, RecvNow(t) PROVE Queue!Next
  BY <1>10, Takes, Zenon DEF RecvNow, Step, pool, call
<1>11. ASSUME NEW t \in Threads, RecvAgain(t) PROVE Queue!Next \/ Same
  <2>1. CASE Step(t, "recvready", "copyout") /\ GetHead(t) /\ UNCHANGED <<data, pool, call>>
    BY <2>1, Takes, Zenon DEF Step, pool, call
  <2>2. CASE Step(t, "recvready", "recvwait") /\ SuspendReceiver(t, timeout[t])
    BY <1>6, <2>2, Zenon
  <2> QED
    BY <1>11, <2>1, <2>2, Zenon DEF RecvAgain
<1>12. ASSUME NEW t \in Threads, CopyOut(t) PROVE Same
  <2>1. /\ pc[t] = "copyout" /\ pc' = [pc EXCEPT ![t] = "putfree"]
        /\ got' = [got EXCEPT ![t] = data[msg[t]]]
        /\ UNCHANGED <<data, msg, val, queued, unused>>
    BY <1>12, Zenon DEF CopyOut, Step, list, pool
  <2>2. Others(t) /\ \A u \in Threads \ {t} : val'[u] = val[u] /\ msg'[u] = msg[u] /\ got'[u] = got[u]
    BY <1>0, <2>1, Zenon DEF Others
  <2>3. Wanted(t)' = Wanted(t) /\ Got(t)' = Got(t)
    BY <1>0, <2>1, WantedFacts, WantedNext, Zenon DEF Got, Sending
  <2> QED
    BY <2>1, <2>2, <2>3, Stutters, Zenon DEF Same
<1>13. ASSUME NEW t \in Threads, PutFree(t) PROVE Queue!Next
  <2>1. /\ pc[t] = "putfree" /\ msg' = [msg EXCEPT ![t] = NULL]
        /\ UNCHANGED <<data, got, val, queued>> /\ unused' = <<msg[t]>> \o unused
        /\ \/ pc' = [pc EXCEPT ![t] = "idle"]
           \/ sendq # <<>> /\ pc' = [pc EXCEPT ![t] = "idle", ![Head(sendq)] = "sendready"]
    BY <1>13, Zenon DEF PutFree, list, call
  <2>2. sendq # <<>> => Head(sendq) \in Threads /\ pc[Head(sendq)] = "sendwait"
    <3>1. sendq # <<>> => Head(sendq) = sendq[1] /\ Head(sendq) \in Threads /\ 1 \in 1..Len(sendq)
      BY TailFacts DEF IInv, TypeOK, ThreadType
    <3> QED
      BY <3>1, Zenon DEF IInv, WaitInv
  <2>3. Others(t) /\ pc'[t] = "idle"
    BY <1>0, <2>1, <2>2, Zenon DEF Others
  <2>4. \A u \in Threads \ {t} : val'[u] = val[u] /\ msg'[u] = msg[u] /\ got'[u] = got[u]
    BY <1>0, <2>1, Zenon
  <2>5. W' = [W EXCEPT ![t] = Wanted(t)'] /\ G' = [G EXCEPT ![t] = Got(t)']
    BY <2>1, <2>3, <2>4, OthersMap, Zenon
  <2>6. Wanted(t)' = Wanted(t) /\ Got(t)' = Got(t)
    BY <2>1, <2>3, WantedFacts, WantedNext, Zenon DEF Got, Sending
  <2>7. W' = W /\ G' = G /\ Q' = Q
    BY <2>1, <2>5, <2>6, QSame, Zenon DEF W, G
  <2>8. Len(queued) + Len(unused) < MaxMsgs /\ msg[t] \in Blocks /\ Len(Q) = Len(queued)
        /\ Len(queued) \in Nat
    BY <2>1, HeldCounts, OwnBlock, QType, Zenon DEF Holding
  <2>9. Len(unused') = Len(unused) + 1 /\ Len(unused) \in Nat
    BY <2>1, <2>8, ConsFacts, LenProperties DEF IInv, TypeOK, PoolType
  <2>10. Len(Q) < U /\ U' = U - 1
    BY <2>8, <2>9, PoolAssumption DEF U
  <2> QED
    BY <2>7, <2>10, AbsRelease, Zenon
<1>14. ASSUME NEW t \in Threads, Reset(t) PROVE Same
  <2>1. pc[t] = "idle" /\ UNCHANGED <<data, msg, got, val, queued, unused>>
    BY <1>14, Zenon DEF Reset, list, pool
  <2>2. \A u \in Threads : \/ pc[u] = "sendwait" /\ pc'[u] = "sendready"
                           \/ pc[u] = "recvwait" /\ pc'[u] = "recvready"
                           \/ pc'[u] = pc[u]
    BY <1>14 DEF Reset, Ready
  <2>3. Others(t) /\ pc'[t] = pc[t]
    BY <2>1, <2>2, Zenon DEF Others
  <2>4. Wanted(t)' = Wanted(t) /\ Got(t)' = Got(t)
    BY <2>1, <2>3, WantedFacts, WantedNext, Zenon DEF Got, Sending
  <2> QED
    BY <2>1, <2>3, <2>4, Stutters, Zenon DEF Same
<1>15. ASSUME ResetBlock PROVE Queue!Next
  <2>1. /\ head # NULL /\ queued' = Tail(queued) /\ unused' = <<head>> \o unused
        /\ UNCHANGED <<data, pc, msg, val, got>>
    BY <1>15, Zenon DEF ResetBlock, Unlink, call
  <2>2. queued # <<>> /\ head \in Blocks
    BY <2>1, FirstBlock, Zenon DEF Lists, IInv
  <2>3. Q # <<>> /\ Q' = Tail(Q)
    BY <2>1, <2>2, QTail, Zenon
  <2>4. Len(unused') = Len(unused) + 1 /\ Len(unused) \in Nat
    BY <2>1, <2>2, ConsFacts, LenProperties DEF IInv, TypeOK, PoolType
  <2>5. U' = U - 1
    BY <2>4, PoolAssumption DEF U
  <2>6. W' = W /\ G' = G
    BY <2>1, Zenon DEF W, G, Wanted, Got
  <2> QED
    BY <2>3, <2>5, <2>6, AbsDiscard, Zenon
<1>16. ASSUME ResetDone PROVE Same
  BY <1>16, Zenon DEF ResetDone, pool, call, Same, Q, U, W, G, Wanted, Got
<1>17. CASE UNCHANGED vars
  BY <1>17, Zenon DEF vars, list, pool, call, Same, Q, U, W, G, Wanted, Got
<1> QED
  BY Zenon, <1>1, <1>2, <1>3, <1>4, <1>5, <1>6, <1>7, <1>8, <1>9, <1>10, <1>11, <1>12, <1>13, <1>14,
     <1>15, <1>16, <1>17 DEF Next, Calls, Goes

\* The kernel's message queue implements a bounded queue: for any number of
\* threads, blocks and messages, messages come out in the order they were linked
\* (urgent ones first), each once, and never more than MaxMsgs places are taken.
THEOREM ImplementsBoundedQueue == Spec => IsBoundedQueue
<1>1. Same => UNCHANGED Queue!vars
  BY Zenon DEF Same, Queue!vars, Q, U, W, G, Got
<1>2. IInv /\ IInv' /\ [Next]_vars => [Queue!Next]_(Queue!vars)
  BY <1>1, MapStep, Zenon
<1> QED
  BY <1>2, MapInit, Inductive, PTL DEF Spec, IsBoundedQueue, Queue!Spec

-----------------------------------------------------------------------------
(* Wake-ups: rt_mq_recv and rt_mq_send_wait resume one thread per message  *)
(* or block, and none of those resumed goes to sleep while there is still  *)
(* something for it.                                                       *)

RecvCovered == recvq # <<>> => entry <= Cardinality(Resumed("recvready"))
SendCovered == sendq # <<>> => Len(unused) <= Cardinality(Resumed("sendready"))

\* Nobody waits while a reset runs, and a thread that waits has its error
\* cleared, so that it counts as soon as it is resumed.
WaitClear ==
    /\ resetting # None => recvq = <<>> /\ sendq = <<>>
    /\ \A t \in Threads : pc[t] \in Waiting => error[t] = "EOK"

\* The inductive invariant: NoLostWakeup and what it needs to be kept.
WakeInv == WaitClear /\ (resetting = None => RecvCovered /\ SendCovered)

\* The resumed threads are finitely many; one more or one less counts as one.
LEMMA ResumedCount ==
    ASSUME NEW point PROVE IsFiniteSet(Resumed(point)) /\ Cardinality(Resumed(point)) \in Nat
<1>1. Resumed(point) \subseteq Threads
  BY Zenon DEF Resumed
<1> QED
  BY <1>1, ThreadAssumption, FS_Subset, FS_CardinalityType, Zenon

LEMMA ResumedCountNext ==
    ASSUME NEW point PROVE IsFiniteSet(Resumed(point)') /\ Cardinality(Resumed(point)') \in Nat
<1>1. Resumed(point)' \subseteq Threads
  BY Zenon DEF Resumed
<1> QED
  BY <1>1, ThreadAssumption, FS_Subset, FS_CardinalityType, Zenon

LEMMA ResumedSame ==
    ASSUME NEW point,
           \A u \in Threads : (pc'[u] = point /\ error'[u] = "EOK") <=> (pc[u] = point /\ error[u] = "EOK")
    PROVE  Resumed(point)' = Resumed(point)
  BY Zenon DEF Resumed

LEMMA ResumedMore ==
    ASSUME NEW point, NEW h \in Threads, pc'[h] = point, error'[h] = "EOK", pc[h] # point,
           \A u \in Threads \ {h} :
              (pc'[u] = point /\ error'[u] = "EOK") <=> (pc[u] = point /\ error[u] = "EOK")
    PROVE  Cardinality(Resumed(point)') = Cardinality(Resumed(point)) + 1
<1>1. Resumed(point)' = Resumed(point) \cup {h} /\ h \notin Resumed(point)
  BY Zenon DEF Resumed
<1> QED
  BY <1>1, ResumedCount, FS_AddElement, ZenonT(40)

LEMMA ResumedLess ==
    ASSUME NEW point, NEW h \in Threads, pc[h] = point, error[h] = "EOK", pc'[h] # point,
           \A u \in Threads \ {h} :
              (pc'[u] = point /\ error'[u] = "EOK") <=> (pc[u] = point /\ error[u] = "EOK")
    PROVE  Cardinality(Resumed(point)') = Cardinality(Resumed(point)) - 1
<1>1. Resumed(point)' = Resumed(point) \ {h} /\ h \in Resumed(point)
  BY DEF Resumed
<1> QED
  BY <1>1, ResumedCount, FS_RemoveElement, Zenon

\* While nobody waits in the queue of receivers, or when there is no message,
\* nothing is to be shown; otherwise the sets of resumed threads are compared.
LEMMA RecvKept ==
    ASSUME IInv, RecvCovered, Resumed("recvready")' = Resumed("recvready"),
           entry' <= entry, recvq' # <<>> => recvq # <<>>, entry' \in Nat
    PROVE  RecvCovered'
<1>1. Cardinality(Resumed("recvready")') = Cardinality(Resumed("recvready"))
  BY Zenon
<1>2. entry \in Nat /\ Cardinality(Resumed("recvready")) \in Nat
  BY ResumedCount, Zenon DEF IInv, TypeOK, PoolType
<1> QED
  BY <1>1, <1>2 DEF RecvCovered

LEMMA SendKept ==
    ASSUME SendCovered, Resumed("sendready")' = Resumed("sendready"),
           Len(unused) \in Nat, Len(unused') \in Nat,
           Len(unused') <= Len(unused), sendq' # <<>> => sendq # <<>>
    PROVE  SendCovered'
<1>1. Cardinality(Resumed("sendready")') = Cardinality(Resumed("sendready"))
  BY Zenon
<1>2. Cardinality(Resumed("sendready")) \in Nat
  BY ResumedCount, Zenon
<1> QED
  BY <1>1, <1>2 DEF SendCovered

LEMMA RecvNone == ASSUME entry' = 0 PROVE RecvCovered'
  BY ResumedCountNext DEF RecvCovered

LEMMA SendNone == ASSUME Len(unused') = 0 PROVE SendCovered'
  BY ResumedCountNext DEF SendCovered

\* A thread t that is not resumed, neither before nor after the step, leaves
\* the set as it is.
LEMMA Aside ==
    ASSUME IInv, NEW t \in Threads, NEW to, NEW point, pc' = [pc EXCEPT ![t] = to],
           pc[t] # point, to # point,
           \A u \in Threads \ {t} : error'[u] = error[u]
    PROVE  Resumed(point)' = Resumed(point)
<1>1. \A u \in Threads : (pc'[u] = point /\ error'[u] = "EOK") <=> (pc[u] = point /\ error[u] = "EOK")
  BY Zenon DEF IInv, TypeOK, ThreadType
<1> QED
  BY <1>1, ResumedSame, Zenon

\* A thread leaves the set of the resumed ones as itself.
LEMMA Leaves ==
    ASSUME IInv, NEW t \in Threads, NEW to, NEW point, pc' = [pc EXCEPT ![t] = to],
           pc[t] = point, error[t] = "EOK", to # point,
           \A u \in Threads \ {t} : error'[u] = error[u]
    PROVE  Cardinality(Resumed(point)') = Cardinality(Resumed(point)) - 1
<1>1. /\ pc'[t] # point
      /\ \A u \in Threads \ {t} : (pc'[u] = point /\ error'[u] = "EOK") <=> (pc[u] = point /\ error[u] = "EOK")
  BY Zenon DEF IInv, TypeOK, ThreadType
<1> QED
  BY <1>1, ResumedLess, Zenon

\* The first of a waiting list, and what resuming it does to a set of resumed
\* threads.
LEMMA Joins ==
    ASSUME IInv, WaitClear, NEW t \in Threads, NEW h \in Threads, NEW ready,
           pc' = [pc EXCEPT ![t] = "idle", ![h] = ready], error' = error,
           pc[t] \notin Waiting, pc[h] \in Waiting,
           ready \in {"recvready", "sendready"}, pc[t] # ready
    PROVE  Cardinality(Resumed(ready)') = Cardinality(Resumed(ready)) + 1
<1>1. t # h /\ error[h] = "EOK" /\ pc \in [Threads -> Points]
  BY Zenon DEF IInv, TypeOK, ThreadType, WaitClear
<1>2. /\ pc'[h] = ready /\ error'[h] = "EOK" /\ pc[h] # ready
      /\ \A u \in Threads \ {h} : (pc'[u] = ready /\ error'[u] = "EOK") <=> (pc[u] = ready /\ error[u] = "EOK")
  BY <1>1, Zenon DEF Waiting
<1> QED
  BY <1>2, ResumedMore, Zenon

\* The set at the other point is not touched by it.
LEMMA JoinsElsewhere ==
    ASSUME IInv, NEW t \in Threads, NEW h \in Threads, NEW ready, NEW other,
           pc' = [pc EXCEPT ![t] = "idle", ![h] = ready], error' = error,
           pc[h] \in Waiting, ready # other, pc[t] # other, other \in {"recvready", "sendready"}
    PROVE  Resumed(other)' = Resumed(other)
<1>1. \A u \in Threads : (pc'[u] = other /\ error'[u] = "EOK") <=> (pc[u] = other /\ error[u] = "EOK")
  BY Zenon DEF IInv, TypeOK, ThreadType, Waiting
<1> QED
  BY <1>1, ResumedSame, Zenon

LEMMA WaitClearStep == IInv /\ WaitClear /\ [Next]_vars => WaitClear'
<1> SUFFICES ASSUME IInv, WaitClear, [Next]_vars PROVE WaitClear'
  BY Zenon
<1> USE NoneAssumption DEF WaitClear, Waiting, IInv, TypeOK, ThreadType, CallType, Step, list, pool, wait, call
<1>1. ASSUME NEW t \in Threads, NEW v \in Values, SendNow(t, v) PROVE WaitClear'
  BY <1>1, Zenon DEF SendNow, GetFree
<1>2. ASSUME NEW t \in Threads, NEW v \in Values, UrgentNow(t, v) PROVE WaitClear'
  BY <1>2, Zenon DEF UrgentNow, GetFree
<1>3. ASSUME NEW t \in Threads, NEW v \in Values, NEW to \in Timeouts, SendWait(t, v, to) PROVE WaitClear'
  BY <1>3, Zenon DEF SendWait, SuspendSender
<1>4. ASSUME NEW t \in Threads, NEW to \in Timeouts, RecvWait(t, to) PROVE WaitClear'
  BY <1>4, Zenon DEF RecvWait, SuspendReceiver
<1>5. ASSUME NEW t \in Threads, SendFull(t) PROVE WaitClear'
  BY <1>5, Zenon DEF SendFull
<1>6. ASSUME NEW t \in Threads, SendFails(t) PROVE WaitClear'
  BY <1>6, Zenon DEF SendFails
<1>7. ASSUME NEW t \in Threads, SendAgain(t) PROVE WaitClear'
  BY <1>7, Zenon DEF SendAgain, GetFree, SuspendSender
<1>8. ASSUME NEW t \in Threads, CopyIn(t) PROVE WaitClear'
  BY <1>8, Zenon DEF CopyIn
<1>9. ASSUME NEW t \in Threads, LinkIn(t) PROVE WaitClear'
  BY <1>9, Zenon DEF LinkIn, Linked
<1>10. ASSUME NEW t \in Threads, CopyUrgent(t) PROVE WaitClear'
  BY <1>10, Zenon DEF CopyUrgent
<1>11. ASSUME NEW t \in Threads, LinkUrgent(t) PROVE WaitClear'
  BY <1>11, Zenon DEF LinkUrgent, Linked
<1>12. ASSUME NEW t \in Threads, RecvNow(t) PROVE WaitClear'
  BY <1>12, Zenon DEF RecvNow, GetHead
<1>13. ASSUME NEW t \in Threads, RecvFails(t) PROVE WaitClear'
  BY <1>13, Zenon DEF RecvFails
<1>14. ASSUME NEW t \in Threads, RecvAgain(t) PROVE WaitClear'
  BY <1>14, Zenon DEF RecvAgain, GetHead, SuspendReceiver
<1>15. ASSUME NEW t \in Threads, CopyOut(t) PROVE WaitClear'
  BY <1>15, Zenon DEF CopyOut
<1>16. ASSUME NEW t \in Threads, PutFree(t) PROVE WaitClear'
  BY <1>16, Zenon DEF PutFree
<1>17. ASSUME NEW t \in Threads, SenderTimeout(t) PROVE WaitClear'
  BY <1>17, Zenon DEF SenderTimeout, Expire, Ready
<1>18. ASSUME NEW t \in Threads, ReceiverTimeout(t) PROVE WaitClear'
  BY <1>18, Zenon DEF ReceiverTimeout, Expire, Ready
<1>19. ASSUME NEW t \in Threads, Reset(t) PROVE WaitClear'
  BY <1>19 DEF Reset, Ready
<1>20. ASSUME ResetBlock PROVE WaitClear'
  BY <1>20, Zenon DEF ResetBlock
<1>21. ASSUME ResetDone PROVE WaitClear'
  BY <1>21, Zenon DEF ResetDone
<1>22. CASE UNCHANGED vars
  BY <1>22, Zenon DEF vars
<1> QED
  BY <1>1, <1>2, <1>3, <1>4, <1>5, <1>6, <1>7, <1>8, <1>9, <1>10, <1>11, <1>12, <1>13, <1>14, <1>15, <1>16, <1>17, <1>18, <1>19, <1>20, <1>21, <1>22, Zenon DEF Next, Calls, Goes

\* The first thread of a waiting list is suspended there.
LEMMA FirstWaits ==
    ASSUME ThreadInv
    PROVE  /\ recvq # <<>> => Head(recvq) \in Threads /\ pc[Head(recvq)] = "recvwait"
           /\ sendq # <<>> => Head(sendq) \in Threads /\ pc[Head(sendq)] = "sendwait"
<1>1. ASSUME recvq # <<>> PROVE Head(recvq) \in Threads /\ pc[Head(recvq)] = "recvwait"
  <2>1. recvq \in Seq(Threads) /\ 1 \in 1..Len(recvq) /\ Head(recvq) = recvq[1]
    BY <1>1, TailIsWithout, HeadTailProperties DEF ThreadInv, ThreadType
  <2> QED
    BY <2>1, ElementOfSeq DEF ThreadInv, WaitInv
<1>2. ASSUME sendq # <<>> PROVE Head(sendq) \in Threads /\ pc[Head(sendq)] = "sendwait"
  <2>1. sendq \in Seq(Threads) /\ 1 \in 1..Len(sendq) /\ Head(sendq) = sendq[1]
    BY <1>2, TailIsWithout, HeadTailProperties DEF ThreadInv, ThreadType
  <2> QED
    BY <2>1, ElementOfSeq DEF ThreadInv, WaitInv
<1> QED
  BY <1>1, <1>2, Zenon

\* free is NULL exactly when the free list is empty; taking a block makes it one
\* shorter, and putting one back one longer.
LEMMA NoneLeft == ASSUME IInv, free = NULL PROVE Len(unused) = 0
<1>1. unused = <<>>
  <2> SUFFICES ASSUME unused # <<>> PROVE FALSE
    BY Zenon
  <2>1. free = unused[1] /\ unused \in Seq(Blocks) /\ 1 \in 1..Len(unused)
    BY TailIsWithout, Zenon DEF IInv, ListsSound, Chain, TypeOK, PoolType
  <2>2. free \in Blocks
    BY <2>1, ElementOfSeq, Zenon
  <2> QED
    BY <2>2, PoolAssumption DEF Blocks, NULL
<1> QED
  BY <1>1, EmptySeq, Zenon

LEMMA OneTaken == ASSUME IInv, NEW t \in Threads, GetFree(t) PROVE Len(unused') = Len(unused) - 1
<1>1. unused # <<>> /\ unused \in Seq(Blocks) /\ unused' = Tail(unused)
  BY FreeBlock, Zenon DEF GetFree, IInv, Lists, TypeOK, PoolType
<1> QED
  BY <1>1, HeadTailProperties, Zenon

LEMMA OnePutBack == ASSUME IInv, NEW t \in Threads, PutFree(t) PROVE Len(unused') = Len(unused) + 1
<1>1. msg[t] \in Blocks /\ unused \in Seq(Blocks)
  BY DEF PutFree, IInv, TypeOK, PoolType, ThreadType, Holding, Blocks, NULL
<1>2. unused' = <<msg[t]>> \o unused
  BY Zenon DEF PutFree
<1> QED
  BY <1>1, <1>2, LenProperties

\* A step leaves no receiver waiting for a message that nobody comes for.
LEMMA RecvSide == IInv /\ WakeInv /\ [Next]_vars => (resetting' = None => RecvCovered')
<1> SUFFICES ASSUME IInv, WakeInv, [Next]_vars, resetting' = None PROVE RecvCovered'
  BY Zenon
<1>0. IInv' /\ WaitClear /\ WaitClear' /\ entry \in Nat /\ entry' \in Nat /\ Len(unused) \in Nat /\ Len(unused') \in Nat
  BY StepInv, WaitClearStep, LenProperties, Zenon DEF WakeInv, IInv, TypeOK, PoolType
<1>c. resetting = None => RecvCovered
  BY Zenon DEF WakeInv
<1> USE NoneAssumption
<1>1. ASSUME NEW t \in Threads, NEW v \in Values, SendNow(t, v) PROVE RecvCovered'
  <2>1. Resumed("recvready")' = Resumed("recvready")
    BY <1>1, Aside, Zenon DEF SendNow, GetFree, IInv, TypeOK, PoolType, ThreadType, Step, list, pool, wait, call, CallType
  <2>2. resetting = None /\ entry' <= entry /\ recvq' = recvq
    BY <1>1 DEF SendNow, GetFree, IInv, TypeOK, PoolType, ThreadType, Step, list, pool, wait, call
  <2> QED
    BY <1>0, <1>c, <2>1, <2>2, RecvKept, Zenon
<1>2. ASSUME NEW t \in Threads, NEW v \in Values, UrgentNow(t, v) PROVE RecvCovered'
  <2>1. Resumed("recvready")' = Resumed("recvready")
    BY <1>2, Aside, Zenon DEF UrgentNow, GetFree, IInv, TypeOK, PoolType, ThreadType, Step, list, pool, wait, call, CallType
  <2>2. resetting = None /\ entry' <= entry /\ recvq' = recvq
    BY <1>2 DEF UrgentNow, GetFree, IInv, TypeOK, PoolType, ThreadType, Step, list, pool, wait, call
  <2> QED
    BY <1>0, <1>c, <2>1, <2>2, RecvKept, Zenon
<1>3. ASSUME NEW t \in Threads, NEW v \in Values, NEW to \in Timeouts, SendWait(t, v, to) PROVE RecvCovered'
  <2>1. Resumed("recvready")' = Resumed("recvready")
    BY <1>3, Aside, Zenon DEF SendWait, SuspendSender, IInv, TypeOK, PoolType, ThreadType, Step, list, pool, wait, call, CallType
  <2>2. resetting = None /\ entry' <= entry /\ recvq' = recvq
    BY <1>3 DEF SendWait, SuspendSender, IInv, TypeOK, PoolType, ThreadType, Step, list, pool, wait, call
  <2> QED
    BY <1>0, <1>c, <2>1, <2>2, RecvKept, Zenon
<1>4. ASSUME NEW t \in Threads, NEW to \in Timeouts, RecvWait(t, to) PROVE RecvCovered'
  BY <1>4, RecvNone, Zenon DEF RecvWait, SuspendReceiver, list
<1>5. ASSUME NEW t \in Threads, SendFull(t) PROVE RecvCovered'
  <2>1. Resumed("recvready")' = Resumed("recvready")
    BY <1>5, Aside, Zenon DEF SendFull, IInv, TypeOK, PoolType, ThreadType, Step, list, pool, wait, call, CallType
  <2>2. resetting = None /\ entry' <= entry /\ recvq' = recvq
    BY <1>5 DEF SendFull, IInv, TypeOK, PoolType, ThreadType, Step, list, pool, wait, call
  <2> QED
    BY <1>0, <1>c, <2>1, <2>2, RecvKept, Zenon
<1>6. ASSUME NEW t \in Threads, SendFails(t) PROVE RecvCovered'
  <2>1. Resumed("recvready")' = Resumed("recvready")
    BY <1>6, Aside, Zenon DEF SendFails, IInv, TypeOK, PoolType, ThreadType, Step, list, pool, wait, call, CallType
  <2>2. resetting = None /\ entry' <= entry /\ recvq' = recvq
    BY <1>6 DEF SendFails, IInv, TypeOK, PoolType, ThreadType, Step, list, pool, wait, call
  <2> QED
    BY <1>0, <1>c, <2>1, <2>2, RecvKept, Zenon
<1>7. ASSUME NEW t \in Threads, SendAgain(t) PROVE RecvCovered'
  <2>1. Resumed("recvready")' = Resumed("recvready")
    <3>1. CASE Step(t, "sendready", "copyin") /\ error' = error
      BY <3>1, Aside, Zenon DEF Step
    <3>2. CASE Step(t, "sendready", "sendwait") /\ SuspendSender(t, timeout[t])
      <4>1. \A u \in Threads \ {t} : error'[u] = error[u]
        BY <3>2, Zenon DEF SuspendSender, IInv, TypeOK, CallType
      <4> QED
        BY <3>2, <4>1, Aside, Zenon DEF Step
    <3> QED
      BY <1>7, <3>1, <3>2, Zenon DEF SendAgain, call
  <2>2. resetting = None /\ entry' <= entry /\ recvq' = recvq
    BY <1>7 DEF SendAgain, GetFree, SuspendSender, IInv, TypeOK, PoolType, ThreadType, Step, list, pool, wait, call
  <2> QED
    BY <1>0, <1>c, <2>1, <2>2, RecvKept, Zenon
<1>8. ASSUME NEW t \in Threads, CopyIn(t) PROVE RecvCovered'
  <2>1. Resumed("recvready")' = Resumed("recvready")
    BY <1>8, Aside, Zenon DEF CopyIn, IInv, TypeOK, PoolType, ThreadType, Step, list, pool, wait, call, CallType
  <2>2. resetting = None /\ entry' <= entry /\ recvq' = recvq
    BY <1>8 DEF CopyIn, IInv, TypeOK, PoolType, ThreadType, Step, list, pool, wait, call
  <2> QED
    BY <1>0, <1>c, <2>1, <2>2, RecvKept, Zenon
<1>9. ASSUME NEW t \in Threads, LinkIn(t) PROVE RecvCovered'
  <2>1. resetting = None /\ pc[t] = "linkin" /\ entry' = entry + 1 /\ error' = error
    BY <1>9, Zenon DEF LinkIn, Linked, call
  <2>2. CASE recvq = <<>> /\ recvq' = recvq
    BY <2>2, Zenon DEF RecvCovered
  <2>3. CASE recvq # <<>> /\ pc' = [pc EXCEPT ![t] = "idle", ![Head(recvq)] = "recvready"]
    <3>1. Head(recvq) \in Threads /\ pc[Head(recvq)] = "recvwait"
      BY <2>3, FirstWaits, Zenon DEF IInv, ThreadInv, TypeOK
    <3>2. Cardinality(Resumed("recvready")') = Cardinality(Resumed("recvready")) + 1
      BY <1>0, <2>1, <2>3, <3>1, Joins, Zenon DEF Waiting
    <3> QED
      BY <1>0, <1>c, <2>1, <2>3, <3>2, ResumedCount DEF RecvCovered
  <2> QED
    BY <1>9, <2>2, <2>3, Zenon DEF LinkIn, Linked
<1>10. ASSUME NEW t \in Threads, CopyUrgent(t) PROVE RecvCovered'
  <2>1. Resumed("recvready")' = Resumed("recvready")
    BY <1>10, Aside, Zenon DEF CopyUrgent, IInv, TypeOK, PoolType, ThreadType, Step, list, pool, wait, call, CallType
  <2>2. resetting = None /\ entry' <= entry /\ recvq' = recvq
    BY <1>10 DEF CopyUrgent, IInv, TypeOK, PoolType, ThreadType, Step, list, pool, wait, call
  <2> QED
    BY <1>0, <1>c, <2>1, <2>2, RecvKept, Zenon
<1>11. ASSUME NEW t \in Threads, LinkUrgent(t) PROVE RecvCovered'
  <2>1. resetting = None /\ pc[t] = "linkurgent" /\ entry' = entry + 1 /\ error' = error
    BY <1>11, Zenon DEF LinkUrgent, Linked, call
  <2>2. CASE recvq = <<>> /\ recvq' = recvq
    BY <2>2, Zenon DEF RecvCovered
  <2>3. CASE recvq # <<>> /\ pc' = [pc EXCEPT ![t] = "idle", ![Head(recvq)] = "recvready"]
    <3>1. Head(recvq) \in Threads /\ pc[Head(recvq)] = "recvwait"
      BY <2>3, FirstWaits, Zenon DEF IInv, ThreadInv, TypeOK
    <3>2. Cardinality(Resumed("recvready")') = Cardinality(Resumed("recvready")) + 1
      BY <1>0, <2>1, <2>3, <3>1, Joins, Zenon DEF Waiting
    <3> QED
      BY <1>0, <1>c, <2>1, <2>3, <3>2, ResumedCount DEF RecvCovered
  <2> QED
    BY <1>11, <2>2, <2>3, Zenon DEF LinkUrgent, Linked
<1>12. ASSUME NEW t \in Threads, RecvNow(t) PROVE RecvCovered'
  <2>1. Resumed("recvready")' = Resumed("recvready")
    BY <1>12, Aside, Zenon DEF RecvNow, GetHead, IInv, TypeOK, PoolType, ThreadType, Step, list, pool, wait, call, CallType
  <2>2. resetting = None /\ entry' <= entry /\ recvq' = recvq
    BY <1>12 DEF RecvNow, GetHead, IInv, TypeOK, PoolType, ThreadType, Step, list, pool, wait, call
  <2> QED
    BY <1>0, <1>c, <2>1, <2>2, RecvKept, Zenon
<1>13. ASSUME NEW t \in Threads, RecvFails(t) PROVE RecvCovered'
  <2>1. CASE error[t] = "EOK" /\ entry = 0
    BY <1>13, <2>1, RecvNone, Zenon DEF RecvFails, list
  <2>2. CASE error[t] # "EOK" /\ error' = error
    <3>1. \A u \in Threads : (pc'[u] = "recvready" /\ error'[u] = "EOK") <=> (pc[u] = "recvready" /\ error[u] = "EOK")
      BY <1>13, <2>2, Zenon DEF RecvFails, IInv, TypeOK, PoolType, ThreadType, Step, list, pool, wait, call
    <3>2. resetting = None /\ entry' = entry /\ recvq' = recvq
      BY <1>13, Zenon DEF RecvFails, Step, list, wait
    <3> QED
      BY <1>0, <1>c, <3>1, <3>2, ResumedSame, RecvKept
  <2> QED
    BY <1>13, <2>1, <2>2, Zenon DEF RecvFails
<1>14. ASSUME NEW t \in Threads, RecvAgain(t) PROVE RecvCovered'
  <2>1. CASE Step(t, "recvready", "copyout") /\ GetHead(t) /\ UNCHANGED <<wait, call>>
    <3>1. Cardinality(Resumed("recvready")') = Cardinality(Resumed("recvready")) - 1
      BY <1>14, <2>1, Leaves, Zenon DEF RecvAgain, Step, call
    <3>2. resetting = None /\ entry' = entry - 1 /\ recvq' = recvq
      BY <2>1, Zenon DEF Step, GetHead, wait
    <3> QED
      BY <1>0, <1>c, <3>1, <3>2, ResumedCount DEF RecvCovered
  <2>2. CASE SuspendReceiver(t, timeout[t])
    BY <2>2, RecvNone, Zenon DEF SuspendReceiver, list
  <2> QED
    BY <1>14, <2>1, <2>2, Zenon DEF RecvAgain
<1>15. ASSUME NEW t \in Threads, CopyOut(t) PROVE RecvCovered'
  <2>1. Resumed("recvready")' = Resumed("recvready")
    BY <1>15, Aside, Zenon DEF CopyOut, IInv, TypeOK, PoolType, ThreadType, Step, list, pool, wait, call, CallType
  <2>2. resetting = None /\ entry' <= entry /\ recvq' = recvq
    BY <1>15 DEF CopyOut, IInv, TypeOK, PoolType, ThreadType, Step, list, pool, wait, call
  <2> QED
    BY <1>0, <1>c, <2>1, <2>2, RecvKept, Zenon
<1>16. ASSUME NEW t \in Threads, PutFree(t) PROVE RecvCovered'
  <2>1. resetting = None /\ pc[t] = "putfree" /\ entry' = entry /\ recvq' = recvq /\ error' = error
    BY <1>16, Zenon DEF PutFree, list, call
  <2>2. Resumed("recvready")' = Resumed("recvready")
    <3>1. CASE pc' = [pc EXCEPT ![t] = "idle"]
      BY <2>1, <3>1, Aside, Zenon
    <3>2. CASE sendq # <<>> /\ pc' = [pc EXCEPT ![t] = "idle", ![Head(sendq)] = "sendready"]
      <4>1. Head(sendq) \in Threads /\ pc[Head(sendq)] = "sendwait"
        BY <3>2, FirstWaits, Zenon DEF IInv, ThreadInv, TypeOK
      <4> QED
        BY <1>0, <2>1, <3>2, <4>1, JoinsElsewhere, Zenon DEF Waiting
    <3> QED
      BY <1>16, <3>1, <3>2, Zenon DEF PutFree
  <2> QED
    BY <1>0, <1>c, <2>1, <2>2, RecvKept
<1>17. ASSUME NEW t \in Threads, SenderTimeout(t) PROVE RecvCovered'
  <2>1. Resumed("recvready")' = Resumed("recvready")
    BY <1>17, Aside, Zenon DEF SenderTimeout, Expire, Ready, IInv, TypeOK, PoolType, ThreadType, Step, list, pool, wait, call, CallType
  <2>2. resetting = None /\ entry' <= entry /\ recvq' = recvq
    BY <1>17 DEF SenderTimeout, Expire, Ready, IInv, TypeOK, PoolType, ThreadType, Step, list, pool, wait, call
  <2> QED
    BY <1>0, <1>c, <2>1, <2>2, RecvKept, Zenon
<1>18. ASSUME NEW t \in Threads, ReceiverTimeout(t) PROVE RecvCovered'
  <2>1. \A u \in Threads : (pc'[u] = "recvready" /\ error'[u] = "EOK") <=> (pc[u] = "recvready" /\ error[u] = "EOK")
    BY <1>18, Zenon DEF ReceiverTimeout, Expire, Ready, IInv, TypeOK, PoolType, ThreadType, Step, list, pool, wait, call, CallType
  <2>2. resetting = None /\ entry' = entry /\ recvq # <<>>
    BY <1>18, EmptySeq DEF ReceiverTimeout, Expire, IInv, TypeOK, PoolType, ThreadType, Step, list, pool, wait, call
  <2> QED
    BY <1>0, <1>c, <2>1, <2>2, ResumedSame, RecvKept
<1>19. ASSUME NEW t \in Threads, Reset(t) PROVE RecvCovered'
  BY <1>19, Zenon DEF Reset
<1>20. ASSUME ResetBlock PROVE RecvCovered'
  BY <1>20, Zenon DEF ResetBlock
<1>21. ASSUME ResetDone PROVE RecvCovered'
  BY <1>21, <1>0, Zenon DEF ResetDone, WaitClear, wait, RecvCovered
<1>22. CASE UNCHANGED vars
  BY <1>22, <1>c, Zenon DEF vars, list, pool, wait, call, RecvCovered, Resumed
<1> QED
  BY <1>1, <1>2, <1>3, <1>4, <1>5, <1>6, <1>7, <1>8, <1>9, <1>10, <1>11, <1>12, <1>13, <1>14, <1>15, <1>16, <1>17, <1>18, <1>19, <1>20, <1>21, <1>22, Zenon DEF Next, Calls, Goes

\* A step leaves no sender waiting for a free block that nobody comes for.
LEMMA SendSide == IInv /\ WakeInv /\ [Next]_vars => (resetting' = None => SendCovered')
<1> SUFFICES ASSUME IInv, WakeInv, [Next]_vars, resetting' = None PROVE SendCovered'
  BY Zenon
<1>0. IInv' /\ WaitClear /\ WaitClear' /\ entry \in Nat /\ entry' \in Nat /\ Len(unused) \in Nat /\ Len(unused') \in Nat
  BY StepInv, WaitClearStep, LenProperties, Zenon DEF WakeInv, IInv, TypeOK, PoolType
<1>c. resetting = None => SendCovered
  BY Zenon DEF WakeInv
<1> USE NoneAssumption
<1>1. ASSUME NEW t \in Threads, NEW v \in Values, SendNow(t, v) PROVE SendCovered'
  <2>1. Resumed("sendready")' = Resumed("sendready")
    BY <1>1, Aside, Zenon DEF SendNow, IInv, TypeOK, PoolType, ThreadType, Step, list, pool, wait, call
  <2>2. resetting = None /\ sendq' = sendq /\ GetFree(t)
    BY <1>1, Zenon DEF SendNow, Step, wait
  <2>3. Len(unused') = Len(unused) - 1
    BY <2>2, OneTaken, Zenon
  <2> QED
    BY <1>0, <1>c, <2>1, <2>2, <2>3, SendKept
<1>2. ASSUME NEW t \in Threads, NEW v \in Values, UrgentNow(t, v) PROVE SendCovered'
  <2>1. Resumed("sendready")' = Resumed("sendready")
    BY <1>2, Aside, Zenon DEF UrgentNow, IInv, TypeOK, PoolType, ThreadType, Step, list, pool, wait, call
  <2>2. resetting = None /\ sendq' = sendq /\ GetFree(t)
    BY <1>2, Zenon DEF UrgentNow, Step, wait
  <2>3. Len(unused') = Len(unused) - 1
    BY <2>2, OneTaken, Zenon
  <2> QED
    BY <1>0, <1>c, <2>1, <2>2, <2>3, SendKept
<1>3. ASSUME NEW t \in Threads, NEW v \in Values, NEW to \in Timeouts, SendWait(t, v, to) PROVE SendCovered'
  BY <1>3, NoneLeft, SendNone, Zenon DEF SendWait, SuspendSender, pool
<1>4. ASSUME NEW t \in Threads, NEW to \in Timeouts, RecvWait(t, to) PROVE SendCovered'
  <2>1. Resumed("sendready")' = Resumed("sendready")
    BY <1>4, Aside, Zenon DEF RecvWait, SuspendReceiver, IInv, TypeOK, PoolType, ThreadType, Step, list, pool, wait, call, CallType
  <2>2. resetting = None /\ unused' = unused /\ sendq' = sendq
    BY <1>4, Zenon DEF RecvWait, SuspendReceiver, IInv, TypeOK, PoolType, ThreadType, Step, list, pool, wait, call
  <2> QED
    BY <1>0, <1>c, <2>1, <2>2, SendKept
<1>5. ASSUME NEW t \in Threads, SendFull(t) PROVE SendCovered'
  <2>1. Resumed("sendready")' = Resumed("sendready")
    BY <1>5, Aside, Zenon DEF SendFull, IInv, TypeOK, PoolType, ThreadType, Step, list, pool, wait, call, CallType
  <2>2. resetting = None /\ unused' = unused /\ sendq' = sendq
    BY <1>5, Zenon DEF SendFull, IInv, TypeOK, PoolType, ThreadType, Step, list, pool, wait, call
  <2> QED
    BY <1>0, <1>c, <2>1, <2>2, SendKept
<1>6. ASSUME NEW t \in Threads, SendFails(t) PROVE SendCovered'
  <2>1. CASE error[t] = "EOK" /\ free = NULL
    BY <1>6, <2>1, NoneLeft, SendNone, Zenon DEF SendFails, pool
  <2>2. CASE error[t] # "EOK"
    <3>1. \A u \in Threads : (pc'[u] = "sendready" /\ error'[u] = "EOK") <=> (pc[u] = "sendready" /\ error[u] = "EOK")
      BY <1>6, <2>2, Zenon DEF SendFails, IInv, TypeOK, PoolType, ThreadType, Step, list, pool, wait, call
    <3>2. resetting = None /\ unused' = unused /\ sendq' = sendq
      BY <1>6, Zenon DEF SendFails, Step, pool, wait
    <3> QED
      BY <1>0, <1>c, <3>1, <3>2, ResumedSame, SendKept
  <2> QED
    BY <1>6, <2>1, <2>2, Zenon DEF SendFails
<1>7. ASSUME NEW t \in Threads, SendAgain(t) PROVE SendCovered'
  <2>1. CASE Step(t, "sendready", "copyin") /\ GetFree(t) /\ UNCHANGED <<wait, call>>
    <3>1. Cardinality(Resumed("sendready")') = Cardinality(Resumed("sendready")) - 1
      BY <1>7, <2>1, Leaves, Zenon DEF SendAgain, Step, call
    <3>2. resetting = None /\ sendq' = sendq
      BY <2>1, Zenon DEF Step, wait
    <3>3. Len(unused') = Len(unused) - 1
      BY <2>1, OneTaken, Zenon
    <3> QED
      BY <1>0, <1>c, <3>1, <3>2, <3>3, ResumedCount DEF SendCovered
  <2>2. CASE SuspendSender(t, timeout[t])
    BY <2>2, NoneLeft, SendNone, Zenon DEF SuspendSender, pool
  <2> QED
    BY <1>7, <2>1, <2>2, Zenon DEF SendAgain
<1>8. ASSUME NEW t \in Threads, CopyIn(t) PROVE SendCovered'
  <2>1. Resumed("sendready")' = Resumed("sendready")
    BY <1>8, Aside, Zenon DEF CopyIn, IInv, TypeOK, PoolType, ThreadType, Step, list, pool, wait, call, CallType
  <2>2. resetting = None /\ unused' = unused /\ sendq' = sendq
    BY <1>8, Zenon DEF CopyIn, IInv, TypeOK, PoolType, ThreadType, Step, list, pool, wait, call
  <2> QED
    BY <1>0, <1>c, <2>1, <2>2, SendKept
<1>9. ASSUME NEW t \in Threads, LinkIn(t) PROVE SendCovered'
  <2>1. resetting = None /\ pc[t] = "linkin" /\ unused' = unused /\ sendq' = sendq /\ error' = error
    BY <1>9, Zenon DEF LinkIn, Linked, pool, call
  <2>2. Resumed("sendready")' = Resumed("sendready")
    <3>1. CASE pc' = [pc EXCEPT ![t] = "idle"]
      BY <2>1, <3>1, Aside, Zenon
    <3>2. CASE recvq # <<>> /\ pc' = [pc EXCEPT ![t] = "idle", ![Head(recvq)] = "recvready"]
      <4>1. Head(recvq) \in Threads /\ pc[Head(recvq)] = "recvwait"
        BY <3>2, FirstWaits, Zenon DEF IInv, ThreadInv, TypeOK
      <4> QED
        BY <1>0, <2>1, <3>2, <4>1, JoinsElsewhere, Zenon DEF Waiting
    <3> QED
      BY <1>9, <3>1, <3>2, Zenon DEF LinkIn, Linked
  <2> QED
    BY <1>0, <1>c, <2>1, <2>2, SendKept
<1>10. ASSUME NEW t \in Threads, CopyUrgent(t) PROVE SendCovered'
  <2>1. Resumed("sendready")' = Resumed("sendready")
    BY <1>10, Aside, Zenon DEF CopyUrgent, IInv, TypeOK, PoolType, ThreadType, Step, list, pool, wait, call, CallType
  <2>2. resetting = None /\ unused' = unused /\ sendq' = sendq
    BY <1>10, Zenon DEF CopyUrgent, IInv, TypeOK, PoolType, ThreadType, Step, list, pool, wait, call
  <2> QED
    BY <1>0, <1>c, <2>1, <2>2, SendKept
<1>11. ASSUME NEW t \in Threads, LinkUrgent(t) PROVE SendCovered'
  <2>1. resetting = None /\ pc[t] = "linkurgent" /\ unused' = unused /\ sendq' = sendq /\ error' = error
    BY <1>11, Zenon DEF LinkUrgent, Linked, pool, call
  <2>2. Resumed("sendready")' = Resumed("sendready")
    <3>1. CASE pc' = [pc EXCEPT ![t] = "idle"]
      BY <2>1, <3>1, Aside, Zenon
    <3>2. CASE recvq # <<>> /\ pc' = [pc EXCEPT ![t] = "idle", ![Head(recvq)] = "recvready"]
      <4>1. Head(recvq) \in Threads /\ pc[Head(recvq)] = "recvwait"
        BY <3>2, FirstWaits, Zenon DEF IInv, ThreadInv, TypeOK
      <4> QED
        BY <1>0, <2>1, <3>2, <4>1, JoinsElsewhere, Zenon DEF Waiting
    <3> QED
      BY <1>11, <3>1, <3>2, Zenon DEF LinkUrgent, Linked
  <2> QED
    BY <1>0, <1>c, <2>1, <2>2, SendKept
<1>12. ASSUME NEW t \in Threads, RecvNow(t) PROVE SendCovered'
  <2>1. Resumed("sendready")' = Resumed("sendready")
    BY <1>12, Aside, Zenon DEF RecvNow, GetHead, IInv, TypeOK, PoolType, ThreadType, Step, list, pool, wait, call, CallType
  <2>2. resetting = None /\ unused' = unused /\ sendq' = sendq
    BY <1>12, Zenon DEF RecvNow, GetHead, IInv, TypeOK, PoolType, ThreadType, Step, list, pool, wait, call
  <2> QED
    BY <1>0, <1>c, <2>1, <2>2, SendKept
<1>13. ASSUME NEW t \in Threads, RecvFails(t) PROVE SendCovered'
  <2>1. Resumed("sendready")' = Resumed("sendready")
    BY <1>13, Aside, ZenonT(40) DEF RecvFails, IInv, TypeOK, PoolType, ThreadType, Step, list, pool, wait, call, CallType
  <2>2. resetting = None /\ unused' = unused /\ sendq' = sendq
    BY <1>13, Zenon DEF RecvFails, IInv, TypeOK, PoolType, ThreadType, Step, list, pool, wait, call
  <2> QED
    BY <1>0, <1>c, <2>1, <2>2, SendKept
<1>14. ASSUME NEW t \in Threads, RecvAgain(t) PROVE SendCovered'
  <2>1. Resumed("sendready")' = Resumed("sendready")
    <3>1. CASE Step(t, "recvready", "copyout") /\ error' = error
      BY <3>1, Aside, Zenon DEF Step
    <3>2. CASE Step(t, "recvready", "recvwait") /\ SuspendReceiver(t, timeout[t])
      <4>1. \A u \in Threads \ {t} : error'[u] = error[u]
        BY <3>2, Zenon DEF SuspendReceiver, IInv, TypeOK, CallType
      <4> QED
        BY <3>2, <4>1, Aside, Zenon DEF Step
    <3> QED
      BY <1>14, <3>1, <3>2, Zenon DEF RecvAgain, call
  <2>2. resetting = None /\ unused' = unused /\ sendq' = sendq
    BY <1>14, Zenon DEF RecvAgain, GetHead, SuspendReceiver, IInv, TypeOK, PoolType, ThreadType, Step, list, pool, wait, call
  <2> QED
    BY <1>0, <1>c, <2>1, <2>2, SendKept
<1>15. ASSUME NEW t \in Threads, CopyOut(t) PROVE SendCovered'
  <2>1. Resumed("sendready")' = Resumed("sendready")
    BY <1>15, Aside, Zenon DEF CopyOut, IInv, TypeOK, PoolType, ThreadType, Step, list, pool, wait, call, CallType
  <2>2. resetting = None /\ unused' = unused /\ sendq' = sendq
    BY <1>15, Zenon DEF CopyOut, IInv, TypeOK, PoolType, ThreadType, Step, list, pool, wait, call
  <2> QED
    BY <1>0, <1>c, <2>1, <2>2, SendKept
<1>16. ASSUME NEW t \in Threads, PutFree(t) PROVE SendCovered'
  <2>1. resetting = None /\ pc[t] = "putfree" /\ error' = error
    BY <1>16, Zenon DEF PutFree, call
  <2>2. Len(unused') = Len(unused) + 1
    BY <1>16, OnePutBack, Zenon
  <2>3. CASE sendq = <<>> /\ sendq' = sendq
    BY <2>3, Zenon DEF SendCovered
  <2>4. CASE sendq # <<>> /\ pc' = [pc EXCEPT ![t] = "idle", ![Head(sendq)] = "sendready"]
    <3>1. Head(sendq) \in Threads /\ pc[Head(sendq)] = "sendwait"
      BY <2>4, FirstWaits, Zenon DEF IInv, ThreadInv, TypeOK
    <3>2. Cardinality(Resumed("sendready")') = Cardinality(Resumed("sendready")) + 1
      BY <1>0, <2>1, <2>4, <3>1, Joins, Zenon DEF Waiting
    <3> QED
      BY <1>0, <1>c, <2>1, <2>2, <2>4, <3>2, ResumedCount DEF SendCovered
  <2> QED
    BY <1>16, <2>3, <2>4, Zenon DEF PutFree
<1>17. ASSUME NEW t \in Threads, SenderTimeout(t) PROVE SendCovered'
  <2>1. \A u \in Threads : (pc'[u] = "sendready" /\ error'[u] = "EOK") <=> (pc[u] = "sendready" /\ error[u] = "EOK")
    BY <1>17, Zenon DEF SenderTimeout, Expire, Ready, IInv, TypeOK, PoolType, ThreadType, Step, list, pool, wait, call, CallType
  <2>2. resetting = None /\ unused' = unused /\ sendq # <<>>
    BY <1>17, EmptySeq DEF SenderTimeout, Expire, IInv, TypeOK, PoolType, ThreadType, Step, list, pool, wait, call
  <2> QED
    BY <1>0, <1>c, <2>1, <2>2, ResumedSame, SendKept
<1>18. ASSUME NEW t \in Threads, ReceiverTimeout(t) PROVE SendCovered'
  <2>1. Resumed("sendready")' = Resumed("sendready")
    BY <1>18, Aside, Zenon DEF ReceiverTimeout, Expire, Ready, IInv, TypeOK, PoolType, ThreadType, Step, list, pool, wait, call, CallType
  <2>2. resetting = None /\ unused' = unused /\ sendq' = sendq
    BY <1>18, Zenon DEF ReceiverTimeout, Expire, Ready, IInv, TypeOK, PoolType, ThreadType, Step, list, pool, wait, call
  <2> QED
    BY <1>0, <1>c, <2>1, <2>2, SendKept
<1>19. ASSUME NEW t \in Threads, Reset(t) PROVE SendCovered'
  BY <1>19, Zenon DEF Reset
<1>20. ASSUME ResetBlock PROVE SendCovered'
  BY <1>20, Zenon DEF ResetBlock
<1>21. ASSUME ResetDone PROVE SendCovered'
  BY <1>21, <1>0, Zenon DEF ResetDone, WaitClear, wait, SendCovered
<1>22. CASE UNCHANGED vars
  BY <1>22, <1>c, Zenon DEF vars, list, pool, wait, call, SendCovered, Resumed
<1> QED
  BY <1>1, <1>2, <1>3, <1>4, <1>5, <1>6, <1>7, <1>8, <1>9, <1>10, <1>11, <1>12, <1>13, <1>14, <1>15, <1>16, <1>17, <1>18, <1>19, <1>20, <1>21, <1>22, Zenon DEF Next, Calls, Goes

LEMMA WakeInit == Init => WakeInv
<1> SUFFICES ASSUME Init PROVE WakeInv
  BY Zenon
<1>1. WaitClear
  BY Zenon DEF Init, WaitClear, Waiting
<1>2. RecvCovered /\ SendCovered
  BY Zenon DEF Init, RecvCovered, SendCovered
<1> QED
  BY <1>1, <1>2, Zenon DEF WakeInv

LEMMA WakeStep == IInv /\ WakeInv /\ [Next]_vars => WakeInv'
BY WaitClearStep, RecvSide, SendSide DEF WakeInv

\* No wake-up is lost, for any finite set of threads, interrupt handlers among
\* them, any pool and any interleaving with timeouts and resets: rt_mq_recv and
\* rt_mq_send_wait loop after rt_schedule, and the resumed threads are always
\* enough for the messages and the free blocks that there are.
THEOREM NoWakeupIsLost == Spec => []NoLostWakeup
<1>1. WakeInv => NoLostWakeup
  BY Zenon DEF WakeInv, NoLostWakeup, RecvCovered, SendCovered
<1> QED
  BY <1>1, Inductive, WakeInit, WakeStep, PTL DEF Spec
=============================================================================
