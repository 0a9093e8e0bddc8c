---------------------------- MODULE ScreenProofs ----------------------------
(***************************************************************************)
(* The screen is out of date only where an update was dropped, for queues  *)
(* of any size and however long the flush thread starves.                  *)
(***************************************************************************)
EXTENDS TeamReachProofs, Screen

CellSet == {"v_measure", "qualified", "total", "qualified_amount", "v_threshold", "date",
            "csq", "msg_id"}

\* A message redraws its own cells, with what it carries, and no others.
LEMMA OtherCells ==
    ASSUME NEW l, DOMAIN l = CellSet, NEW m, m.op \in Ops, NEW c \in CellSet
    PROVE  /\ DOMAIN Redraw(l, m) = CellSet
           /\ ~Redraws(m, c) => Redraw(l, m)[c] = l[c]
<1>1. CASE m.op = 1
  <2>1. Redraw(l, m) = [l EXCEPT !.v_measure = m.val[1], !.qualified = m.val[2],
                                   !.total = m.val[3], !.qualified_amount = m.val[4]]
    BY <1>1 DEF Redraw
  <2>2. Redraws(m, c) <=> c \in {"v_measure", "qualified", "total", "qualified_amount"}
    BY <1>1 DEF Redraws, Draws
  <2> QED
    BY <2>1, <2>2 DEF CellSet
<1>2. CASE m.op = 2
  BY <1>2 DEF Redraw, Redraws, Draws, CellSet
<1>3. CASE m.op = 3
  BY <1>3 DEF Redraw, Redraws, Draws, CellSet
<1>4. CASE m.op = 4
  <2>1. Redraw(l, m) = [l EXCEPT !.total = m.val[1], !.qualified_amount = m.val[2]]
    BY <1>4 DEF Redraw
  <2>2. Redraws(m, c) <=> c \in {"total", "qualified_amount"}
    BY <1>4 DEF Redraws, Draws
  <2> QED
    BY <2>1, <2>2 DEF CellSet
<1>5. CASE m.op = 5
  BY <1>5 DEF Redraw, Redraws, Draws, CellSet
<1>6. CASE m.op = 6
  BY <1>6 DEF Redraw, Redraws, Draws, CellSet
<1> QED
  BY <1>1, <1>2, <1>3, <1>4, <1>5, <1>6, Zenon DEF Ops

LEMMA OwnCells ==
    ASSUME NEW l, DOMAIN l = CellSet, NEW m, m.op \in Ops, NEW c \in CellSet, Redraws(m, c),
           NEW k, DOMAIN k = CellSet
    PROVE  Redraw(l, m)[c] = Redraw(k, m)[c]
<1>1. CASE m.op = 1
  <2>1. /\ Redraw(l, m) = [l EXCEPT !.v_measure = m.val[1], !.qualified = m.val[2],
                                   !.total = m.val[3], !.qualified_amount = m.val[4]]
        /\ Redraw(k, m) = [k EXCEPT !.v_measure = m.val[1], !.qualified = m.val[2],
                                   !.total = m.val[3], !.qualified_amount = m.val[4]]
    BY <1>1 DEF Redraw
  <2>2. c \in {"v_measure", "qualified", "total", "qualified_amount"}
    BY <1>1 DEF Redraws, Draws
  <2>3. CASE c = "v_measure"
    BY <2>1, <2>3 DEF CellSet
  <2>4. CASE c = "qualified"
    BY <2>1, <2>4 DEF CellSet
  <2>5. CASE c = "total"
    BY <2>1, <2>5 DEF CellSet
  <2>6. CASE c = "qualified_amount"
    BY <2>1, <2>6 DEF CellSet
  <2> QED
    BY <2>2, <2>3, <2>4, <2>5, <2>6, Zenon
<1>2. CASE m.op = 2
  BY <1>2 DEF Redraw, Redraws, Draws, CellSet
<1>3. CASE m.op = 3
  BY <1>3 DEF Redraw, Redraws, Draws, CellSet
<1>4. CASE m.op = 4
  <2>1. /\ Redraw(l, m) = [l EXCEPT !.total = m.val[1], !.qualified_amount = m.val[2]]
        /\ Redraw(k, m) = [k EXCEPT !.total = m.val[1], !.qualified_amount = m.val[2]]
    BY <1>4 DEF Redraw
  <2>2. c \in {"total", "qualified_amount"}
    BY <1>4 DEF Redraws, Draws
  <2>3. CASE c = "total"
    BY <2>1, <2>3 DEF CellSet
  <2>4. CASE c = "qualified_amount"
    BY <2>1, <2>4 DEF CellSet
  <2> QED
    BY <2>2, <2>3, <2>4, Zenon
<1>5. CASE m.op = 5
  BY <1>5 DEF Redraw, Redraws, Draws, CellSet
<1>6. CASE m.op = 6
  BY <1>6 DEF Redraw, Redraws, Draws, CellSet
<1> QED
  BY <1>1, <1>2, <1>3, <1>4, <1>5, <1>6, Zenon DEF Ops

-----------------------------------------------------------------------------
(* Sending and drawing. *)

LEMMA Appended ==
    ASSUME NEW q \in Seq(Messages), NEW m \in Messages
    PROVE  /\ Len(q) \in Nat /\ DOMAIN q = 1..Len(q)
           /\ DOMAIN Append(q, m) = 1..(Len(q) + 1) /\ Append(q, m)[Len(q) + 1] = m
           /\ \A i \in 1..Len(q) : Append(q, m)[i] = q[i]
OBVIOUS

LEMMA SendOther ==
    ASSUME NEW q \in Seq(Messages), NEW m \in Messages, NEW l, NEW c, NEW v,
           ~Redraws(m, c), WillShow(q, l, c, v)
    PROVE  WillShow(Append(q, m), l, c, v)
<1> DEFINE s == Append(q, m)
           n == Len(q)
<1> HIDE DEF s, n
<1>0. /\ n \in Nat /\ DOMAIN q = 1..n /\ DOMAIN s = 1..(n + 1) /\ s[n + 1] = m
      /\ \A i \in 1..n : s[i] = q[i]
  BY Appended DEF s, n
<1>a. \A i \in DOMAIN q : i \in DOMAIN s /\ s[i] = q[i]
  BY <1>0
<1>b. \A i \in DOMAIN s : Redraws(s[i], c) => i \in DOMAIN q
  <2> SUFFICES ASSUME NEW i \in DOMAIN s, Redraws(s[i], c) PROVE i \in DOMAIN q
    OBVIOUS
  <2>1. i # n + 1
    BY <1>0, Zenon
  <2> QED
    BY <1>0, <2>1
<1>1. CASE \E i \in DOMAIN q : /\ Redraws(q[i], c) /\ (\A j \in DOMAIN q : Redraws(q[j], c) => j <= i)
                               /\ Redraw(l, q[i])[c] = v
  <2> PICK i \in DOMAIN q : /\ Redraws(q[i], c) /\ (\A j \in DOMAIN q : Redraws(q[j], c) => j <= i)
                            /\ Redraw(l, q[i])[c] = v
    BY <1>1, Zenon
  <2>1. \A j \in DOMAIN s : Redraws(s[j], c) => j <= i
    BY <1>a, <1>b, Zenon
  <2>2. i \in DOMAIN s /\ Redraws(s[i], c) /\ Redraw(l, s[i])[c] = v
    BY <1>a, Zenon
  <2>3. WillShow(s, l, c, v)
    BY <2>1, <2>2, Zenon DEF WillShow
  <2> QED
    BY <2>3, Zenon DEF s
<1>2. CASE (\A i \in DOMAIN q : ~Redraws(q[i], c)) /\ l[c] = v
  <2>1. \A i \in DOMAIN s : ~Redraws(s[i], c)
    BY <1>a, <1>b, <1>2, Zenon
  <2>2. WillShow(s, l, c, v)
    BY <2>1, <1>2, Zenon DEF WillShow
  <2> QED
    BY <2>2, Zenon DEF s
<1> QED
  BY <1>1, <1>2, Zenon DEF WillShow

LEMMA SendOwn ==
    ASSUME NEW q \in Seq(Messages), NEW m \in Messages, NEW l, NEW c, Redraws(m, c)
    PROVE  WillShow(Append(q, m), l, c, Redraw(l, m)[c])
<1> DEFINE s == Append(q, m)
           n == Len(q)
<1> HIDE DEF s, n
<1>0. n \in Nat /\ DOMAIN s = 1..(n + 1) /\ s[n + 1] = m
  BY Appended DEF s, n
<1>1. n + 1 \in DOMAIN s /\ \A j \in DOMAIN s : j <= n + 1
  BY <1>0
<1>2. WillShow(s, l, c, Redraw(l, m)[c])
  BY <1>0, <1>1, Zenon DEF WillShow
<1> QED
  BY <1>2, Zenon DEF s

LEMMA Shifted ==
    ASSUME NEW q \in Seq(Messages), q # <<>>
    PROVE  /\ Len(q) \in Nat \ {0} /\ DOMAIN q = 1..Len(q) /\ Head(q) = q[1]
           /\ DOMAIN Tail(q) = 1..(Len(q) - 1)
           /\ \A i \in 1..(Len(q) - 1) : Tail(q)[i] = q[i + 1]
OBVIOUS

LEMMA DrawHead ==
    ASSUME NEW q \in Seq(Messages), q # <<>>, \A i \in DOMAIN q : q[i].op \in Ops,
           NEW l, DOMAIN l = CellSet, NEW c \in CellSet, NEW v, WillShow(q, l, c, v)
    PROVE  WillShow(Tail(q), Redraw(l, Head(q)), c, v)
<1> DEFINE s == Tail(q)
           n == Len(q)
           k == Redraw(l, q[1])
<1> HIDE DEF s, n, k
<1>0. /\ n \in Nat \ {0} /\ DOMAIN q = 1..n /\ Head(q) = q[1] /\ DOMAIN s = 1..(n - 1)
      /\ \A i \in 1..(n - 1) : s[i] = q[i + 1]
  BY Shifted DEF s, n
<1>a. \A i \in DOMAIN s : i + 1 \in DOMAIN q /\ s[i] = q[i + 1] /\ i \in Nat
  BY <1>0
<1>b. 1 \in DOMAIN q
  BY <1>0
<1>c. DOMAIN k = CellSet /\ (~Redraws(q[1], c) => k[c] = l[c])
  BY <1>b, OtherCells, Zenon DEF k
<1>1. CASE \E i \in DOMAIN q : /\ Redraws(q[i], c) /\ (\A j \in DOMAIN q : Redraws(q[j], c) => j <= i)
                               /\ Redraw(l, q[i])[c] = v
  <2> PICK i \in DOMAIN q : /\ Redraws(q[i], c) /\ (\A j \in DOMAIN q : Redraws(q[j], c) => j <= i)
                            /\ Redraw(l, q[i])[c] = v
    BY <1>1, Zenon
  <2>1. CASE i = 1
    <3>1. ASSUME NEW j \in DOMAIN s, Redraws(s[j], c) PROVE FALSE
      <4>1. j + 1 <= i
        BY <1>a, <3>1, Zenon
      <4> QED
        BY <4>1, <2>1, <1>0
    <3>2. k[c] = v
      BY <2>1, Zenon DEF k
    <3>3. WillShow(s, k, c, v)
      BY <3>1, <3>2, Zenon DEF WillShow
    <3> QED
      BY <3>3, <1>0, Zenon DEF s, k
  <2>2. CASE i # 1
    <3>1. i - 1 \in DOMAIN s /\ s[i - 1] = q[i]
      BY <1>0, <2>2
    <3>2. ASSUME NEW j \in DOMAIN s, Redraws(s[j], c) PROVE j <= i - 1
      <4>1. j + 1 <= i
        BY <1>a, <3>2, Zenon
      <4> QED
        BY <4>1, <1>0
    <3>3. Redraw(k, s[i - 1])[c] = v
      <4>1. Redraw(l, q[i])[c] = Redraw(k, q[i])[c]
        <5>1. q[i].op \in Ops /\ Redraws(q[i], c) /\ DOMAIN l = CellSet /\ DOMAIN k = CellSet
          BY <1>c, Zenon
        <5> HIDE <1>c
        <5> QED
          BY <5>1, OwnCells
      <4> QED
        BY <4>1, <3>1, Zenon
    <3>4. WillShow(s, k, c, v)
      BY <3>1, <3>2, <3>3, Zenon DEF WillShow
    <3> QED
      BY <3>4, <1>0, Zenon DEF s, k
  <2> QED
    BY <2>1, <2>2, Zenon
<1>2. CASE (\A i \in DOMAIN q : ~Redraws(q[i], c)) /\ l[c] = v
  <2>1. \A i \in DOMAIN s : ~Redraws(s[i], c)
    BY <1>2, <1>a, Zenon
  <2>2. k[c] = v
    BY <1>2, <1>b, <1>c, Zenon
  <2>3. WillShow(s, k, c, v)
    BY <2>1, <2>2, Zenon DEF WillShow
  <2> QED
    BY <2>3, <1>0, Zenon DEF s, k
<1> QED
  BY <1>1, <1>2, Zenon DEF WillShow

-----------------------------------------------------------------------------
(* One report: either it is queued and its cells are repaired, or it is dropped and   *)
(* they are missed.                                                                   *)

KnownCells == CellSet \ {"msg_id"}
SoundMq(q) == /\ q \in Seq(Messages) /\ Len(q) <= OutputMax
              /\ \A i \in DOMAIN q : q[i].op \in Ops
Shown(q, l, gone, known) == \A c \in KnownCells \ gone : Fresh(q, l, known, c)
Gone(q, gone, op) == IF Len(q) < OutputMax THEN gone \ Draws(op) ELSE gone \cup Draws(op)
\* The message tells what changes from one knowledge to the next.
Tells(m, l, old, new) ==
    \A c \in KnownCells : new[c] = IF Redraws(m, c) THEN Redraw(l, m)[c] ELSE old[c]

LEMMA SoundSend ==
    ASSUME NEW q, SoundMq(q), NEW m \in Messages, m.op \in Ops
    PROVE  SoundMq(rt_mq_send(q, OutputMax, m))
<1> DEFINE s == rt_mq_send(q, OutputMax, m)
           n == Len(q)
<1>1. s \in Seq(Messages) /\ Len(s) <= OutputMax
  BY SendType, Constants, Zenon DEF SoundMq
<1>2. CASE s = q
  BY <1>2, Zenon DEF SoundMq
<1>3. CASE s = Append(q, m)
  <2> HIDE DEF s, n
  <2>1. /\ n \in Nat /\ DOMAIN q = 1..n /\ DOMAIN s = 1..(n + 1) /\ s[n + 1] = m
        /\ \A i \in 1..n : s[i] = q[i]
    BY <1>3, Appended DEF n, SoundMq
  <2>2. ASSUME NEW i \in DOMAIN s PROVE s[i].op \in Ops
    <3>1. CASE i = n + 1
      BY <3>1, <2>1, Zenon
    <3>2. CASE i # n + 1
      <4>1. i \in 1..n
        BY <2>1, <3>2
      <4> QED
        BY <2>1, <4>1, Zenon DEF SoundMq
    <3> QED
      BY <3>1, <3>2, Zenon
  <2>3. SoundMq(s)
    BY <1>1, <2>2, Zenon DEF SoundMq
  <2> QED
    BY <2>3, Zenon DEF s
<1> QED
  BY <1>2, <1>3, Zenon DEF rt_mq_send

LEMMA OneSend ==
    ASSUME NEW q, SoundMq(q), NEW m \in Messages, m.op \in Ops,
           NEW l, DOMAIN l = CellSet, NEW gone, NEW old, NEW new,
           Shown(q, l, gone, old), Tells(m, l, old, new)
    PROVE  Shown(rt_mq_send(q, OutputMax, m), l, Gone(q, gone, m.op), new)
<1> DEFINE s == rt_mq_send(q, OutputMax, m)
<1> SUFFICES ASSUME NEW c \in KnownCells, c \notin Gone(q, gone, m.op)
             PROVE  Fresh(s, l, new, c)
  BY Zenon DEF Shown
<1>0. q \in Seq(Messages)
  BY Zenon DEF SoundMq
<1>1. CASE Len(q) < OutputMax
  <2>1. s = Append(q, m)
    BY <1>1, Zenon DEF rt_mq_send
  <2> HIDE DEF s
  <2>2. CASE Redraws(m, c)
    <3>1. WillShow(s, l, c, Redraw(l, m)[c])
      BY <1>0, <2>1, <2>2, SendOwn, Zenon
    <3> QED
      BY <2>2, <3>1, Zenon DEF Fresh, Tells
  <2>3. CASE ~Redraws(m, c)
    <3>1. Fresh(q, l, old, c) /\ new[c] = old[c]
      BY <1>1, <2>3, Zenon DEF Shown, Gone, Redraws, Tells
    <3>2. \A v : WillShow(q, l, c, v) => WillShow(s, l, c, v)
      BY <1>0, <2>1, <2>3, SendOther, Zenon
    <3> QED
      BY <3>1, <3>2, Zenon DEF Fresh
  <2> QED
    BY <2>2, <2>3, Zenon
<1>2. CASE ~(Len(q) < OutputMax)
  <2>1. s = q
    BY <1>2, Zenon DEF rt_mq_send
  <2> HIDE DEF s
  <2>2. c \notin gone /\ ~Redraws(m, c)
    BY <1>2, Zenon DEF Gone, Redraws
  <2>3. Fresh(q, l, old, c) /\ new[c] = old[c]
    BY <2>2, Zenon DEF Shown, Tells
  <2> QED
    BY <2>1, <2>3, Zenon DEF Fresh
<1> QED
  BY <1>1, <1>2, Zenon

-----------------------------------------------------------------------------
(* What the step of main() reports, and what that does to the cells missed. *)

Missing == (missed \ Queueing) \cup Dropping

LEMMA NoReport ==
    ASSUME Reports = <<>>
    PROVE  Missing = missed
<1>1. DOMAIN Reports = {}
  OBVIOUS
<1>2. Queueing = {} /\ Dropping = {}
  BY <1>1, Zenon DEF Queueing, Dropping
<1> QED
  BY <1>2, Zenon DEF Missing

LEMMA OneReport ==
    ASSUME NEW op, Reports = <<op>>, SoundMq(output_mq)
    PROVE  Missing = Gone(output_mq, missed, op)
<1>0. Len(output_mq) \in Nat /\ OutputMax \in Nat
  BY Constants DEF SoundMq
<1>1. DOMAIN Reports = {1} /\ Reports[1] = op
  OBVIOUS
<1>2. CASE Len(output_mq) < OutputMax
  <2>1. Len(output_mq) + 1 <= OutputMax /\ ~(Len(output_mq) + 1 > OutputMax)
    BY <1>0, <1>2
  <2>2. Queueing = Draws(op) /\ Dropping = {}
    BY <1>1, <2>1, Zenon DEF Queueing, Dropping
  <2> QED
    BY <1>2, <2>2, Zenon DEF Missing, Gone
<1>3. CASE ~(Len(output_mq) < OutputMax)
  <2>1. Len(output_mq) + 1 > OutputMax /\ ~(Len(output_mq) + 1 <= OutputMax)
    BY <1>0, <1>3
  <2>2. Dropping = Draws(op) /\ Queueing = {}
    BY <1>1, <2>1, Zenon DEF Queueing, Dropping
  <2> QED
    BY <1>3, <2>2, Zenon DEF Missing, Gone
<1> QED
  BY <1>2, <1>3, Zenon

\* Two reports on different cells are one after the other.
LEMMA TwoReports ==
    ASSUME NEW a, NEW b, Reports = <<a, b>>, SoundMq(output_mq), NEW m \in Messages,
           Draws(a) \cap Draws(b) = {}
    PROVE  Missing = Gone(rt_mq_send(output_mq, OutputMax, m), Gone(output_mq, missed, a), b)
<1> DEFINE n == Len(output_mq)
           s == rt_mq_send(output_mq, OutputMax, m)
<1>0. n \in Nat /\ OutputMax \in Nat
  BY Constants DEF SoundMq
<1>1. DOMAIN Reports = {1, 2} /\ Reports[1] = a /\ Reports[2] = b
  OBVIOUS
<1>2. Len(s) = IF n < OutputMax THEN n + 1 ELSE n
  BY DEF SoundMq, rt_mq_send
<1> HIDE DEF s, n
<1>3. CASE n + 2 <= OutputMax
  <2>1. /\ n + 1 <= OutputMax /\ ~(n + 1 > OutputMax) /\ ~(n + 2 > OutputMax)
        /\ n < OutputMax /\ Len(s) < OutputMax
    BY <1>0, <1>2, <1>3
  <2>2. Queueing = Draws(a) \cup Draws(b) /\ Dropping = {}
    BY <1>1, <1>3, <2>1, Zenon DEF Queueing, Dropping, n
  <2> QED
    BY <2>1, <2>2, Zenon DEF Missing, Gone, n, s
<1>4. CASE n + 1 = OutputMax
  <2>1. /\ n + 1 <= OutputMax /\ ~(n + 1 > OutputMax) /\ n + 2 > OutputMax
        /\ ~(n + 2 <= OutputMax) /\ n < OutputMax /\ ~(Len(s) < OutputMax)
    BY <1>0, <1>2, <1>4
  <2>2. Queueing = Draws(a) /\ Dropping = Draws(b)
    BY <1>1, <2>1, Zenon DEF Queueing, Dropping, n
  <2> QED
    BY <2>1, <2>2, Zenon DEF Missing, Gone, n, s
<1>5. CASE ~(n < OutputMax)
  <2>1. /\ ~(n + 1 <= OutputMax) /\ n + 1 > OutputMax /\ n + 2 > OutputMax
        /\ ~(n + 2 <= OutputMax) /\ ~(Len(s) < OutputMax)
    BY <1>0, <1>2, <1>5
  <2>2. Queueing = {} /\ Dropping = Draws(a) \cup Draws(b)
    BY <1>1, <2>1, Zenon DEF Queueing, Dropping, n
  <2> QED
    BY <1>5, <2>1, <2>2, Zenon DEF Missing, Gone, n, s
<1> QED
  BY <1>0, <1>3, <1>4, <1>5

-----------------------------------------------------------------------------
(* Each message tells what its case of main() has changed. *)

LEMMA TellsData ==
    ASSUME NEW l, DOMAIN l = CellSet, NEW old, NEW new,
           new.v_threshold = old.v_threshold, new.date = old.date, new.csq = old.csq
    PROVE  Tells(Msg(1, <<new.v_measure, new.qualified, new.total, new.qualified_amount>>), l, old, new)
<1> DEFINE m == Msg(1, <<new.v_measure, new.qualified, new.total, new.qualified_amount>>)
<1> SUFFICES ASSUME NEW c \in KnownCells
             PROVE  new[c] = IF Redraws(m, c) THEN Redraw(l, m)[c] ELSE old[c]
  BY Zenon DEF Tells
<1>0. m.op = 1 /\ m.val = <<new.v_measure, new.qualified, new.total, new.qualified_amount>>
  BY DEF Msg
<1> HIDE DEF m
<1>1. Redraws(m, c) <=> c \in {"v_measure", "qualified", "total", "qualified_amount"}
  BY <1>0 DEF Redraws, Draws
<1>2. /\ Redraw(l, m).v_measure = new.v_measure
      /\ Redraw(l, m).qualified = new.qualified
      /\ Redraw(l, m).total = new.total
      /\ Redraw(l, m).qualified_amount = new.qualified_amount
  <2>1. Redraw(l, m) = [l EXCEPT !.v_measure = m.val[1], !.qualified = m.val[2],
                                 !.total = m.val[3], !.qualified_amount = m.val[4]]
    BY <1>0 DEF Redraw
  <2>2. m.val[1] = new.v_measure /\ m.val[2] = new.qualified /\ m.val[3] = new.total /\ m.val[4] = new.qualified_amount
    BY <1>0
  <2>3. Redraw(l, m).v_measure = m.val[1]
    BY <2>1 DEF CellSet
  <2>4. Redraw(l, m).qualified = m.val[2]
    BY <2>1 DEF CellSet
  <2>5. Redraw(l, m).total = m.val[3]
    BY <2>1 DEF CellSet
  <2>6. Redraw(l, m).qualified_amount = m.val[4]
    BY <2>1 DEF CellSet
  <2> QED
    BY <2>2, <2>3, <2>4, <2>5, <2>6, Zenon
<1> QED
  BY <1>1, <1>2 DEF KnownCells, CellSet

LEMMA TellsThreshold ==
    ASSUME NEW l, DOMAIN l = CellSet, NEW old, NEW new,
           new.v_measure = old.v_measure, new.qualified = old.qualified,
           new.total = old.total, new.qualified_amount = old.qualified_amount,
           new.date = old.date, new.csq = old.csq
    PROVE  Tells(Msg(2, <<new.v_threshold>>), l, old, new)
<1> DEFINE m == Msg(2, <<new.v_threshold>>)
<1> SUFFICES ASSUME NEW c \in KnownCells
             PROVE  new[c] = IF Redraws(m, c) THEN Redraw(l, m)[c] ELSE old[c]
  BY Zenon DEF Tells
<1>0. m.op = 2 /\ m.val = <<new.v_threshold>>
  BY DEF Msg
<1> HIDE DEF m
<1>1. Redraws(m, c) <=> c \in {"v_threshold"}
  BY <1>0 DEF Redraws, Draws
<1>2. Redraw(l, m).v_threshold = new.v_threshold
  BY <1>0 DEF Redraw, CellSet
<1> QED
  BY <1>1, <1>2 DEF KnownCells, CellSet

LEMMA TellsDate ==
    ASSUME NEW l, DOMAIN l = CellSet, NEW old, NEW new,
           new.v_measure = old.v_measure, new.qualified = old.qualified,
           new.total = old.total, new.qualified_amount = old.qualified_amount,
           new.v_threshold = old.v_threshold, new.csq = old.csq
    PROVE  Tells(Msg(3, new.date), l, old, new)
<1> DEFINE m == Msg(3, new.date)
<1> SUFFICES ASSUME NEW c \in KnownCells
             PROVE  new[c] = IF Redraws(m, c) THEN Redraw(l, m)[c] ELSE old[c]
  BY Zenon DEF Tells
<1>0. m.op = 3 /\ m.val = new.date
  BY DEF Msg
<1> HIDE DEF m
<1>1. Redraws(m, c) <=> c \in {"date"}
  BY <1>0 DEF Redraws, Draws
<1>2. Redraw(l, m).date = new.date
  BY <1>0 DEF Redraw, CellSet
<1> QED
  BY <1>1, <1>2 DEF KnownCells, CellSet

LEMMA TellsProduct ==
    ASSUME NEW l, DOMAIN l = CellSet, NEW old, NEW new,
           new.v_measure = old.v_measure, new.qualified = old.qualified,
           new.v_threshold = old.v_threshold, new.date = old.date, new.csq = old.csq
    PROVE  Tells(Msg(4, <<new.total, new.qualified_amount>>), l, old, new)
<1> DEFINE m == Msg(4, <<new.total, new.qualified_amount>>)
<1> SUFFICES ASSUME NEW c \in KnownCells
             PROVE  new[c] = IF Redraws(m, c) THEN Redraw(l, m)[c] ELSE old[c]
  BY Zenon DEF Tells
<1>0. m.op = 4 /\ m.val = <<new.total, new.qualified_amount>>
  BY DEF Msg
<1> HIDE DEF m
<1>1. Redraws(m, c) <=> c \in {"total", "qualified_amount"}
  BY <1>0 DEF Redraws, Draws
<1>2. /\ Redraw(l, m).total = new.total
      /\ Redraw(l, m).qualified_amount = new.qualified_amount
  <2>1. Redraw(l, m) = [l EXCEPT !.total = m.val[1], !.qualified_amount = m.val[2]]
    BY <1>0 DEF Redraw
  <2>2. m.val[1] = new.total /\ m.val[2] = new.qualified_amount
    BY <1>0
  <2>3. Redraw(l, m).total = m.val[1]
    BY <2>1 DEF CellSet
  <2>4. Redraw(l, m).qualified_amount = m.val[2]
    BY <2>1 DEF CellSet
  <2> QED
    BY <2>2, <2>3, <2>4, Zenon
<1> QED
  BY <1>1, <1>2 DEF KnownCells, CellSet

LEMMA TellsCsq ==
    ASSUME NEW l, DOMAIN l = CellSet, NEW old, NEW new,
           new.v_measure = old.v_measure, new.qualified = old.qualified,
           new.total = old.total, new.qualified_amount = old.qualified_amount,
           new.v_threshold = old.v_threshold, new.date = old.date
    PROVE  Tells(Msg(5, <<new.csq>>), l, old, new)
<1> DEFINE m == Msg(5, <<new.csq>>)
<1> SUFFICES ASSUME NEW c \in KnownCells
             PROVE  new[c] = IF Redraws(m, c) THEN Redraw(l, m)[c] ELSE old[c]
  BY Zenon DEF Tells
<1>0. m.op = 5 /\ m.val = <<new.csq>>
  BY DEF Msg
<1> HIDE DEF m
<1>1. Redraws(m, c) <=> c \in {"csq"}
  BY <1>0 DEF Redraws, Draws
<1>2. Redraw(l, m).csq = new.csq
  BY <1>0 DEF Redraw, CellSet
<1> QED
  BY <1>1, <1>2 DEF KnownCells, CellSet

LEMMA TellsMsgId ==
    ASSUME NEW l, DOMAIN l = CellSet, NEW old, NEW new, NEW v,
           new.v_measure = old.v_measure, new.qualified = old.qualified,
           new.total = old.total, new.qualified_amount = old.qualified_amount,
           new.v_threshold = old.v_threshold, new.date = old.date, new.csq = old.csq
    PROVE  Tells(Msg(6, <<v>>), l, old, new)
<1> DEFINE m == Msg(6, <<v>>)
<1> SUFFICES ASSUME NEW c \in KnownCells
             PROVE  new[c] = IF Redraws(m, c) THEN Redraw(l, m)[c] ELSE old[c]
  BY Zenon DEF Tells
<1>0. m.op = 6 /\ m.val = <<v>>
  BY DEF Msg
<1> HIDE DEF m
<1>1. Redraws(m, c) <=> c \in {"msg_id"}
  BY <1>0 DEF Redraws, Draws
<1> QED
  BY <1>1 DEF KnownCells, CellSet

-----------------------------------------------------------------------------
(* The steps. *)

ScreenInv == /\ SoundMq(output_mq) /\ DOMAIN lcd = CellSet
             /\ Shown(output_mq, lcd, missed, Latest)

LEMMA LatestCells ==
    /\ Latest.v_measure = res_t.v_measure /\ Latest.qualified = res_t.qualified
    /\ Latest.v_threshold = res_t.v_threshold /\ Latest.total = info_t.total
    /\ Latest.qualified_amount = info_t.qualified_amount /\ Latest.date = info_t.date
    /\ Latest.csq = stat_t.csq /\ DOMAIN Latest = KnownCells
BY DEF Latest, KnownCells, CellSet

LEMMA LatestCellsNext ==
    /\ Latest'.v_measure = res_t'.v_measure /\ Latest'.qualified = res_t'.qualified
    /\ Latest'.v_threshold = res_t'.v_threshold /\ Latest'.total = info_t'.total
    /\ Latest'.qualified_amount = info_t'.qualified_amount /\ Latest'.date = info_t'.date
    /\ Latest'.csq = stat_t'.csq
BY DEF Latest

\* A step of main() that sends one message.
LEMMA SendingStep ==
    ASSUME ScreenInv, UNCHANGED lcd, NEW m \in Messages, NEW op \in Ops, m.op = op,
           Reports = <<op>>, missed' = Missing,
           output_mq' = rt_mq_send(output_mq, OutputMax, m), Tells(m, lcd, Latest, Latest')
    PROVE  ScreenInv'
<1>1. missed' = Gone(output_mq, missed, m.op)
  BY OneReport, Zenon DEF ScreenInv
<1>2. SoundMq(output_mq')
  BY SoundSend, Zenon DEF ScreenInv
<1>3. Shown(output_mq', lcd, missed', Latest')
  BY <1>1, OneSend, Zenon DEF ScreenInv
<1>4. SoundMq(output_mq)' <=> SoundMq(output_mq')
  BY DEF SoundMq
<1>5. Shown(output_mq, lcd, missed, Latest)' <=> Shown(output_mq', lcd', missed', Latest')
  BY DEF Shown
<1> QED
  BY <1>2, <1>3, <1>4, <1>5, Zenon DEF ScreenInv

\* A step that sends and draws nothing.
LEMMA QuietStep ==
    ASSUME ScreenInv, UNCHANGED <<lcd, output_mq, missed, res_t, info_t>>, stat_t'.csq = stat_t.csq
    PROVE  ScreenInv'
<1>1. Latest' = Latest
  BY DEF Latest
<1> QED
  BY <1>1, Zenon DEF ScreenInv, SoundMq, Shown, Fresh, WillShow

LEMMA WordsSent ==
    ASSUME TypeOK
    PROVE  /\ Msg(1, <<Latest.v_measure, Latest.qualified, Latest.total,
                       Latest.qualified_amount>>) \in Messages
           /\ Msg(2, <<Latest.v_threshold>>) \in Messages
           /\ Msg(3, Latest.date) \in Messages
           /\ Msg(4, <<Latest.total, Latest.qualified_amount>>) \in Messages
           /\ Msg(5, <<Latest.csq>>) \in Messages
           /\ Msg(6, <<stat_t.msg_id>>) \in Messages
<1>1. /\ Latest.v_measure \in Nat /\ Latest.v_threshold \in Nat /\ Latest.qualified \in Nat
      /\ Latest.total \in Nat /\ Latest.qualified_amount \in Nat /\ Latest.date \in Seq(Nat)
      /\ Latest.csq \in Nat /\ stat_t.msg_id \in Nat
  <2>1. DataType
    BY Zenon DEF TypeOK
  <2> QED
    BY <2>1, LatestCells, FieldTypes, Zenon DEF DataType
<1>2. 1 \in Ops /\ 2 \in Ops /\ 3 \in Ops /\ 4 \in Ops /\ 5 \in Ops /\ 6 \in Ops
  BY Zenon DEF Ops
<1> QED
  BY <1>1, <1>2, OneWord, TwoWords, FourWords, WordsType, Zenon

LEMMA WordsSentNext ==
    ASSUME TypeOK'
    PROVE  /\ Msg(1, <<Latest'.v_measure, Latest'.qualified, Latest'.total,
                       Latest'.qualified_amount>>) \in Messages
           /\ Msg(2, <<Latest'.v_threshold>>) \in Messages
           /\ Msg(3, Latest'.date) \in Messages
           /\ Msg(4, <<Latest'.total, Latest'.qualified_amount>>) \in Messages
           /\ Msg(5, <<Latest'.csq>>) \in Messages
           /\ Msg(6, <<stat_t'.msg_id>>) \in Messages
<1>1. /\ Latest'.v_measure \in Nat /\ Latest'.v_threshold \in Nat /\ Latest'.qualified \in Nat
      /\ Latest'.total \in Nat /\ Latest'.qualified_amount \in Nat /\ Latest'.date \in Seq(Nat)
      /\ Latest'.csq \in Nat /\ stat_t'.msg_id \in Nat
  <2>1. DataType'
    BY Zenon DEF TypeOK
  <2> QED
    BY <2>1, LatestCellsNext, FieldTypes, Zenon DEF DataType
<1>2. 1 \in Ops /\ 2 \in Ops /\ 3 \in Ops /\ 4 \in Ops /\ 5 \in Ops /\ 6 \in Ops
  BY Zenon DEF Ops
<1> QED
  BY <1>1, <1>2, OneWord, TwoWords, FourWords, WordsType, Zenon

MainStep == ScreenInv /\ TypeOK /\ TypeOK' /\ UNCHANGED lcd /\ missed' = Missing

LEMMA MeasureStep ==
    ASSUME MainStep, Measure
    PROVE  ScreenInv'
<1> DEFINE m == Msg(1, <<Latest'.v_measure, Latest'.qualified, Latest'.total,
                         Latest'.qualified_amount>>)
<1>1. Reports = <<1>>
  BY DEF Measure, Reports
<1>2. output_mq' = rt_mq_send(output_mq, OutputMax, m)
  BY LatestCellsNext, Zenon DEF Measure, send_data_msg
<1>3. m \in Messages /\ m.op = 1 /\ 1 \in Ops
  <2>1. m \in Messages /\ 1 \in Ops
    BY WordsSentNext, Zenon DEF MainStep, Ops
  <2>2. m.op = 1
    BY Zenon DEF Msg
  <2> QED
    BY <2>1, <2>2, Zenon
<1>4. /\ res_t'.v_threshold = res_t.v_threshold /\ info_t'.date = info_t.date
      /\ stat_t'.csq = stat_t.csq
  <2>1. DataType
    BY Zenon DEF MainStep, TypeOK
  <2> QED
    BY <2>1 DEF Measure, DataType
<1>5. Tells(m, lcd, Latest, Latest')
  BY <1>4, LatestCells, LatestCellsNext, TellsData, Zenon DEF MainStep, ScreenInv
<1> HIDE DEF m
<1> QED
  BY <1>1, <1>2, <1>3, <1>5, SendingStep, Zenon DEF MainStep

LEMMA CsqStep ==
    ASSUME MainStep, SetCsq
    PROVE  ScreenInv'
<1> DEFINE m == Msg(5, <<Latest'.csq>>)
<1>1. Reports = <<5>>
  BY DEF SetCsq, Recv, Reports
<1>2. output_mq' = rt_mq_send(output_mq, OutputMax, m)
  BY LatestCellsNext, Zenon DEF SetCsq, send_csq
<1>3. m \in Messages /\ m.op = 5 /\ 5 \in Ops
  <2>1. m \in Messages /\ 5 \in Ops
    BY WordsSentNext, Zenon DEF MainStep, Ops
  <2>2. m.op = 5
    BY Zenon DEF Msg
  <2> QED
    BY <2>1, <2>2, Zenon
<1>4. res_t' = res_t /\ info_t' = info_t
  BY Zenon DEF SetCsq
<1>5. Tells(m, lcd, Latest, Latest')
  BY <1>4, LatestCells, LatestCellsNext, TellsCsq, Zenon DEF MainStep, ScreenInv
<1> HIDE DEF m
<1> QED
  BY <1>1, <1>2, <1>3, <1>5, SendingStep, Zenon DEF MainStep

LEMMA DateStep ==
    ASSUME MainStep, SetDate
    PROVE  ScreenInv'
<1> DEFINE m == Msg(3, Latest'.date)
<1>1. Reports = <<3>>
  BY DEF SetDate, Recv, Reports
<1>2. output_mq' = rt_mq_send(output_mq, OutputMax, m)
  BY LatestCellsNext, Zenon DEF SetDate, send_rtc_msg
<1>3. m \in Messages /\ m.op = 3 /\ 3 \in Ops
  <2>1. m \in Messages /\ 3 \in Ops
    BY WordsSentNext, Zenon DEF MainStep, Ops
  <2>2. m.op = 3
    BY Zenon DEF Msg
  <2> QED
    BY <2>1, <2>2, Zenon
<1>4. /\ res_t' = res_t /\ stat_t' = stat_t /\ info_t'.total = info_t.total
      /\ info_t'.qualified_amount = info_t.qualified_amount
  <2>1. DataType
    BY Zenon DEF MainStep, TypeOK
  <2> QED
    BY <2>1 DEF SetDate, DataType
<1>5. Tells(m, lcd, Latest, Latest')
  BY <1>4, LatestCells, LatestCellsNext, TellsDate, Zenon DEF MainStep, ScreenInv
<1> HIDE DEF m
<1> QED
  BY <1>1, <1>2, <1>3, <1>5, SendingStep, Zenon DEF MainStep

LEMMA ThresholdStep ==
    ASSUME MainStep, MoveThreshold
    PROVE  ScreenInv'
<1> DEFINE m == Msg(2, <<Latest'.v_threshold>>)
<1>1. Reports = <<2>>
  BY DEF MoveThreshold, Recv, Reports
<1>2. output_mq' = rt_mq_send(output_mq, OutputMax, m)
  BY LatestCellsNext, Zenon DEF MoveThreshold, send_v_threshold_msg
<1>3. m \in Messages /\ m.op = 2 /\ 2 \in Ops
  <2>1. m \in Messages /\ 2 \in Ops
    BY WordsSentNext, Zenon DEF MainStep, Ops
  <2>2. m.op = 2
    BY Zenon DEF Msg
  <2> QED
    BY <2>1, <2>2, Zenon
<1>4. /\ info_t' = info_t /\ stat_t' = stat_t /\ res_t'.v_measure = res_t.v_measure
      /\ res_t'.qualified = res_t.qualified
  <2>1. DataType
    BY Zenon DEF MainStep, TypeOK
  <2> QED
    BY <2>1 DEF MoveThreshold, DataType
<1>5. Tells(m, lcd, Latest, Latest')
  BY <1>4, LatestCells, LatestCellsNext, TellsThreshold, Zenon DEF MainStep, ScreenInv
<1> HIDE DEF m
<1> QED
  BY <1>1, <1>2, <1>3, <1>5, SendingStep, Zenon DEF MainStep

LEMMA PublishedStep ==
    ASSUME MainStep, Published
    PROVE  ScreenInv'
<1> DEFINE m == Msg(6, <<stat_t.msg_id>>)
<1>1. Reports = <<6>>
  BY DEF Published, Recv, Reports
<1>2. output_mq' = rt_mq_send(output_mq, OutputMax, m)
  BY Zenon DEF Published, send_msg_id_msg
<1>3. m \in Messages /\ m.op = 6 /\ 6 \in Ops
  <2>1. m \in Messages /\ 6 \in Ops
    BY WordsSent, Zenon DEF MainStep, Ops
  <2>2. m.op = 6
    BY Zenon DEF Msg
  <2> QED
    BY <2>1, <2>2, Zenon
<1>4. res_t' = res_t /\ info_t' = info_t /\ stat_t' = stat_t
  BY Zenon DEF Published
<1>5. Tells(m, lcd, Latest, Latest')
  BY <1>4, LatestCells, LatestCellsNext, TellsMsgId, Zenon DEF MainStep, ScreenInv
<1> HIDE DEF m
<1> QED
  BY <1>1, <1>2, <1>3, <1>5, SendingStep, Zenon DEF MainStep

\* case 3 sends the date and then the counts.
LEMMA RestoreStep ==
    ASSUME MainStep, Restore
    PROVE  ScreenInv'
<1> DEFINE m == Msg(3, Latest'.date)
           k == Msg(4, <<Latest'.total, Latest'.qualified_amount>>)
           q == rt_mq_send(output_mq, OutputMax, m)
           mid == [Latest EXCEPT !.date = Latest'.date]
<1>1. Reports = <<3, 4>>
  BY DEF Restore, Recv, Reports
<1>2. output_mq' = rt_mq_send(q, OutputMax, k)
  BY LatestCellsNext, Zenon DEF Restore, send_rtc_msg, send_product_info_msg
<1>3. m \in Messages /\ m.op = 3 /\ k \in Messages /\ k.op = 4
  <2>1. m \in Messages /\ k \in Messages
    BY WordsSentNext, Zenon DEF MainStep
  <2>2. m.op = 3 /\ k.op = 4
    BY Zenon DEF Msg
  <2> QED
    BY <2>1, <2>2, Zenon
<1>4. res_t' = res_t /\ stat_t' = stat_t
  BY Zenon DEF Restore
<1>5. /\ mid.date = Latest'.date /\ mid.v_measure = Latest.v_measure
      /\ mid.qualified = Latest.qualified /\ mid.v_threshold = Latest.v_threshold
      /\ mid.total = Latest.total /\ mid.qualified_amount = Latest.qualified_amount
      /\ mid.csq = Latest.csq
  BY LatestCells DEF KnownCells, CellSet
<1> HIDE DEF mid
<1>6. Tells(m, lcd, Latest, mid)
  <2>1. Tells(Msg(3, mid.date), lcd, Latest, mid)
    BY <1>5, TellsDate, Zenon DEF MainStep, ScreenInv
  <2> QED
    BY <2>1, <1>5, Zenon
<1>7. Tells(k, lcd, mid, Latest')
  BY <1>4, <1>5, LatestCells, LatestCellsNext, TellsProduct, Zenon DEF MainStep, ScreenInv
<1> HIDE DEF m, k
<1>8. 3 \in Ops /\ 4 \in Ops
  BY Zenon DEF Ops
<1>9. SoundMq(q) /\ Shown(q, lcd, Gone(output_mq, missed, 3), mid)
  <2>1. m \in Messages /\ m.op \in Ops
    BY <1>3, <1>8, Zenon
  <2>2. SoundMq(q)
    BY <2>1, SoundSend, Zenon DEF MainStep, ScreenInv
  <2>3. Shown(q, lcd, Gone(output_mq, missed, m.op), mid)
    BY <2>1, <1>6, OneSend, Zenon DEF MainStep, ScreenInv
  <2> QED
    BY <2>2, <2>3, <1>3, Zenon
<1>10. missed' = Gone(q, Gone(output_mq, missed, 3), 4)
  <2>1. Draws(3) \cap Draws(4) = {}
    BY DEF Draws
  <2> QED
    BY <1>1, <1>3, <2>1, TwoReports, Zenon DEF MainStep, ScreenInv
<1> HIDE DEF q
<1>11. SoundMq(output_mq') /\ Shown(output_mq', lcd, missed', Latest')
  <2>1. k \in Messages /\ k.op \in Ops
    BY <1>3, <1>8, Zenon
  <2>2. SoundMq(rt_mq_send(q, OutputMax, k))
    BY <1>9, <2>1, SoundSend, Zenon
  <2>3. Shown(rt_mq_send(q, OutputMax, k), lcd, Gone(q, Gone(output_mq, missed, 3), k.op), Latest')
    BY <1>7, <1>9, <2>1, OneSend, Zenon DEF MainStep, ScreenInv
  <2> QED
    BY <1>2, <1>3, <1>10, <2>2, <2>3, Zenon
<1>12. SoundMq(output_mq)' <=> SoundMq(output_mq')
  BY DEF SoundMq
<1>13. Shown(output_mq, lcd, missed, Latest)' <=> Shown(output_mq', lcd', missed', Latest')
  BY DEF Shown
<1> QED
  BY <1>11, <1>12, <1>13, Zenon DEF ScreenInv, MainStep

LEMMA MainKeepsFresh ==
    ASSUME ScreenInv, TypeOK, TypeOK', Main, missed' = Missing
    PROVE  ScreenInv'
<1>0. MainStep
  BY Zenon DEF MainStep, Main
<1>1. CASE Measure
  BY <1>0, <1>1, MeasureStep, Zenon
<1>2. CASE Restore
  BY <1>0, <1>2, RestoreStep, Zenon
<1>3. CASE SetCsq
  BY <1>0, <1>3, CsqStep, Zenon
<1>4. CASE SetDate
  BY <1>0, <1>4, DateStep, Zenon
<1>5. CASE MoveThreshold
  BY <1>0, <1>5, ThresholdStep, Zenon
<1>6. CASE Published
  BY <1>0, <1>6, PublishedStep, Zenon
<1>7. ASSUME Reports = <<>>, UNCHANGED <<output_mq, res_t, info_t, stat_t>> PROVE ScreenInv'
  BY <1>0, <1>7, NoReport, QuietStep, Zenon DEF MainStep
<1>8. CASE InstallIsr \/ CreateQueues
  <2>1. Reports = <<>>
    BY <1>8 DEF InstallIsr, CreateQueues, Reports
  <2> QED
    BY <1>7, <1>8, <2>1, Zenon DEF InstallIsr, CreateQueues, queueVars
<1>9. CASE UnmaskBatch \/ LoadPart \/ UnmaskPart
  <2>1. Reports = <<>>
    BY <1>9 DEF UnmaskBatch, LoadPart, UnmaskPart, Reports
  <2> QED
    BY <1>7, <1>9, <2>1, Zenon DEF UnmaskBatch, LoadPart, UnmaskPart, queueVars
<1>10. CASE OpenBatch
  <2>1. Reports = <<>>
    BY <1>10 DEF OpenBatch, Reports
  <2> QED
    BY <1>7, <1>10, <2>1, Zenon DEF OpenBatch, queueVars
<1>11. CASE SingleGrabbed \/ AllGrabbed
  <2>1. Reports = <<>>
    BY <1>11 DEF SingleGrabbed, AllGrabbed, Recv, Reports
  <2> QED
    BY <1>7, <1>11, <2>1, Zenon DEF SingleGrabbed, AllGrabbed
<1>12. CASE FillLog
  <2>1. Reports = <<>>
    BY <1>12 DEF FillLog, Recv, Reports
  <2> QED
    BY <1>7, <1>12, <2>1, Zenon DEF FillLog
<1> QED
  BY <1>1, <1>2, <1>3, <1>4, <1>5, <1>6, <1>8, <1>9, <1>10, <1>11, <1>12, Zenon
     DEF Main, MainThread

\* The flush thread draws the oldest message: what the screen will show is the same.
LEMMA FlushKeepsFresh ==
    ASSUME ScreenInv, Flush, UNCHANGED missed
    PROVE  ScreenInv'
<1> DEFINE q == output_mq
<1>0. /\ q # <<>> /\ q \in Seq(Messages) /\ Len(q) <= OutputMax
      /\ \A i \in DOMAIN q : q[i].op \in Ops
      /\ output_mq' = Tail(q) /\ lcd' = Redraw(lcd, Head(q)) /\ DOMAIN lcd = CellSet
  BY Zenon DEF ScreenInv, SoundMq, Flush, rt_flush_task
<1>1. Latest' = Latest
  BY Zenon DEF Flush, mainVars, Latest
<1> HIDE DEF q
<1>2. /\ Tail(q) \in Seq(Messages) /\ Len(Tail(q)) <= OutputMax /\ Head(q) = q[1]
      /\ 1 \in DOMAIN q /\ DOMAIN Tail(q) \subseteq Int
      /\ \A i \in DOMAIN Tail(q) : i + 1 \in DOMAIN q /\ Tail(q)[i] = q[i + 1]
  <2> DEFINE s == Tail(q)
             n == Len(q)
  <2>1. /\ n \in Nat \ {0} /\ DOMAIN q = 1..n /\ DOMAIN s = 1..(n - 1) /\ Head(q) = q[1]
        /\ \A i \in 1..(n - 1) : s[i] = q[i + 1]
    BY <1>0, Shifted, Zenon
  <2>2. s \in Seq(Messages) /\ Len(s) = n - 1
    BY <1>0, TailType, Zenon
  <2>3. n <= OutputMax /\ OutputMax \in Nat
    BY <1>0, Constants, Zenon
  <2> HIDE DEF s, n
  <2>4. /\ s \in Seq(Messages) /\ Len(s) <= OutputMax /\ 1 \in DOMAIN q /\ DOMAIN s \subseteq Int
        /\ \A i \in DOMAIN s : i + 1 \in DOMAIN q /\ s[i] = q[i + 1]
    BY <2>1, <2>2, <2>3
  <2> QED
    BY <2>1, <2>4, Zenon DEF s
<1>3. SoundMq(Tail(q))
  BY <1>0, <1>2, Zenon DEF SoundMq
<1>4. DOMAIN lcd' = CellSet
  <2>1. "csq" \in CellSet
    BY Zenon DEF CellSet
  <2> QED
    BY <1>0, <1>2, <2>1, OtherCells, Zenon
<1>5. Shown(Tail(q), lcd', missed, Latest)
  <2> SUFFICES ASSUME NEW c \in KnownCells \ missed PROVE Fresh(Tail(q), lcd', Latest, c)
    BY Zenon DEF Shown
  <2>1. c \in CellSet /\ Fresh(q, lcd, Latest, c)
    BY Zenon DEF ScreenInv, Shown, KnownCells, q
  <2>2. \A v : WillShow(q, lcd, c, v) => WillShow(Tail(q), lcd', c, v)
    BY <1>0, <2>1, DrawHead, Zenon
  <2> QED
    BY <2>1, <2>2, Zenon DEF Fresh
<1>6. SoundMq(output_mq)' <=> SoundMq(output_mq')
  BY DEF SoundMq
<1>7. Shown(output_mq, lcd, missed, Latest)' <=> Shown(output_mq', lcd', missed', Latest')
  BY DEF Shown
<1> QED
  BY <1>0, <1>1, <1>3, <1>4, <1>5, <1>6, <1>7, Zenon DEF ScreenInv

LEMMA OthersKeepFresh ==
    ASSUME ScreenInv, Others, UNCHANGED missed
    PROVE  ScreenInv'
<1>1. CASE Flush
  BY <1>1, FlushKeepsFresh, Zenon
<1>2. ASSUME UNCHANGED <<lcd, output_mq, res_t, info_t, stat_t>> PROVE ScreenInv'
  BY <1>2, QuietStep, Zenon
<1>3. CASE GrabAll \/ TakeOff \/ Noise \/ Press
  BY <1>2, <1>3, Zenon DEF GrabAll, TakeOff, Noise, Press, mainVars, queueVars
<1>4. CASE DelayOver
  BY <1>2, <1>4, Zenon DEF DelayOver, EndPulse, queueVars
<1>5. CASE SignalIsr
  BY <1>2, <1>5, Zenon DEF SignalIsr, input_interrupt_isr, input_interrupt_isr2, Isr, mainVars
<1>6. CASE TouchIsr \/ Touch
  BY <1>2, <1>6, Zenon DEF TouchIsr, Touch, mainVars, queueVars
<1>7. CASE Click \/ Service \/ ServiceTake
  BY <1>2, <1>7, Zenon DEF Click, Service, ServiceTake, mainVars
<1> QED
  BY <1>1, <1>3, <1>4, <1>5, <1>6, <1>7, Zenon DEF Others

LEMMA FreshInit ==
    ASSUME OutputMax >= 2, ScreenInit
    PROVE  ScreenInv
<1> DEFINE m == Msg(2, <<Latest.v_threshold>>)
           k == Msg(3, Latest.date)
           q == rt_mq_send(<<>>, OutputMax, m)
           mid == [lcd EXCEPT !.v_threshold = Latest.v_threshold]
           new == [mid EXCEPT !.date = Latest.date]
<1>0. TypeOK
  BY TypeInit, Zenon DEF ScreenInit
<1>1. /\ output_mq = rt_mq_send(q, OutputMax, k) /\ missed = {}
  BY LatestCells, Zenon DEF ScreenInit, Init, MainInit, send_rtc_msg, send_v_threshold_msg
<1>2. /\ DOMAIN lcd = CellSet
      /\ \A c \in KnownCells \ {"v_threshold", "date"} : lcd[c] = Blank /\ Latest[c] = 0
  <2>1. lcd = [v_measure |-> Blank, qualified |-> Blank, total |-> Blank,
              qualified_amount |-> Blank, v_threshold |-> Blank,
              date |-> <<Blank, Blank, Blank>>, csq |-> Blank, msg_id |-> Blank]
    BY Zenon DEF ScreenInit, Init, PanelInit
  <2>2. DOMAIN lcd = CellSet
    BY <2>1 DEF CellSet
  <2>3. /\ lcd.v_measure = Blank /\ lcd.qualified = Blank /\ lcd.total = Blank
        /\ lcd.qualified_amount = Blank /\ lcd.csq = Blank
    BY <2>1
  <2>4. /\ Latest.v_measure = 0 /\ Latest.qualified = 0 /\ Latest.total = 0
        /\ Latest.qualified_amount = 0 /\ Latest.csq = 0
    BY LatestCells DEF ScreenInit, Init, MainInit, init_datastructure
  <2> QED
    BY <2>2, <2>3, <2>4, Zenon DEF KnownCells, CellSet
<1>3. m \in Messages /\ m.op = 2 /\ k \in Messages /\ k.op = 3
  <2>1. m \in Messages /\ k \in Messages
    BY <1>0, WordsSent, Zenon
  <2>2. m.op = 2 /\ k.op = 3
    BY Zenon DEF Msg
  <2> QED
    BY <2>1, <2>2, Zenon
<1>4. /\ mid.v_threshold = Latest.v_threshold /\ new.v_threshold = mid.v_threshold
      /\ new.date = Latest.date
      /\ \A c \in KnownCells \ {"v_threshold"} : mid[c] = lcd[c]
      /\ \A c \in KnownCells \ {"date"} : new[c] = mid[c]
  BY <1>2 DEF KnownCells, CellSet
<1> HIDE DEF new, mid
<1>a. {"v_measure", "qualified", "total", "qualified_amount", "csq"} \subseteq
          KnownCells \ {"v_threshold", "date"}
  BY DEF KnownCells, CellSet
<1>b. "date" \in KnownCells \ {"v_threshold"} /\ "v_threshold" \in KnownCells \ {"date"}
  BY DEF KnownCells, CellSet
<1>5. Tells(m, lcd, lcd, mid)
  <2>1. Tells(Msg(2, <<mid.v_threshold>>), lcd, lcd, mid)
    BY <1>2, <1>4, <1>a, <1>b, TellsThreshold, Zenon
  <2> QED
    BY <1>4, <2>1, Zenon
<1>6. Tells(k, lcd, mid, new)
  <2>1. Tells(Msg(3, new.date), lcd, mid, new)
    BY <1>2, <1>4, <1>a, <1>b, TellsDate, Zenon
  <2> QED
    BY <1>4, <2>1, Zenon
<1> HIDE DEF m, k
<1>7. SoundMq(<<>>) /\ Shown(<<>>, lcd, {}, lcd)
  <2>1. <<>> \in Seq(Messages) /\ Len(<<>>) <= OutputMax /\ DOMAIN <<>> = {}
    BY Constants
  <2> QED
    BY <2>1, Zenon DEF SoundMq, Shown, Fresh, WillShow
<1>8. SoundMq(q) /\ Shown(q, lcd, Gone(<<>>, {}, 2), mid)
  <2>1. m \in Messages /\ m.op \in Ops
    BY <1>3, Zenon DEF Ops
  <2>2. SoundMq(q) /\ Shown(q, lcd, Gone(<<>>, {}, m.op), mid)
    BY <1>2, <1>5, <1>7, <2>1, SoundSend, OneSend, Zenon
  <2> QED
    BY <1>3, <2>2, Zenon
<1>9. Gone(<<>>, {}, 2) = {} /\ Gone(q, {}, 3) = {}
  <2>1. Len(<<>>) < OutputMax /\ Len(q) < OutputMax
    BY Constants, <1>3 DEF rt_mq_send
  <2> QED
    BY <2>1, Zenon DEF Gone
<1> HIDE DEF q
<1>10. SoundMq(output_mq) /\ Shown(output_mq, lcd, {}, new)
  <2>1. k \in Messages /\ k.op \in Ops
    BY <1>3, Zenon DEF Ops
  <2>2. SoundMq(output_mq) /\ Shown(output_mq, lcd, Gone(q, {}, k.op), new)
    BY <1>1, <1>2, <1>6, <1>8, <1>9, <2>1, SoundSend, OneSend, Zenon
  <2> QED
    BY <1>3, <1>9, <2>2, Zenon
<1>11. ASSUME NEW c \in KnownCells PROVE Fresh(output_mq, lcd, Latest, c)
  <2>1. Fresh(output_mq, lcd, new, c)
    BY <1>10, <1>11, Zenon DEF Shown
  <2>2. CASE c \in {"v_threshold", "date"}
    BY <1>4, <2>1, <2>2, Zenon DEF Fresh
  <2>3. CASE c \notin {"v_threshold", "date"}
    <3>1. new[c] = Blank /\ Latest[c] = 0
      BY <1>2, <1>4, <1>11, <2>3, Zenon
    <3> QED
      BY <2>1, <3>1, Zenon DEF Fresh
  <2> QED
    BY <2>2, <2>3, Zenon
<1> QED
  BY <1>1, <1>2, <1>10, <1>11, Zenon DEF ScreenInv, Shown

\* With room for the two messages main() starts with, a cell of the screen is out of
\* date only if its own latest update was dropped: for queues of any size, readings,
\* clicks and answers of any kind, failing conversions, and a flush thread that
\* starves for as long as the scheduler lets it.
THEOREM LcdStaysFresh ==
    ASSUME OutputMax >= 2
    PROVE  ScreenSpec => []LcdFresh
<1>1. ScreenInit => ScreenInv
  BY FreshInit, Zenon
<1>2. ScreenInv /\ TypeOK /\ TypeOK' /\ [ScreenNext]_screenVars => ScreenInv'
  <2> SUFFICES ASSUME ScreenInv, TypeOK, TypeOK', [ScreenNext]_screenVars PROVE ScreenInv'
    BY Zenon
  <2>1. CASE Main /\ missed' = Missing
    BY <2>1, MainKeepsFresh, Zenon
  <2>2. CASE Others /\ UNCHANGED missed
    BY <2>2, OthersKeepFresh, Zenon
  <2>3. CASE UNCHANGED screenVars
    BY <2>3, QuietStep, Zenon DEF screenVars, vars, mainVars, queueVars
  <2> QED
    BY <2>1, <2>2, <2>3, Zenon DEF ScreenNext, Missing
<1>3. ScreenInv => LcdFresh
  BY LatestCells, Zenon DEF ScreenInv, Shown, LcdFresh
<1>4. ScreenInit => Init
  BY Zenon DEF ScreenInit
<1>5. [ScreenNext]_screenVars => [Next]_vars
  BY Zenon DEF ScreenNext, Next, screenVars
<1> QED
  BY <1>1, <1>2, <1>3, <1>4, <1>5, TypeTheorem, PTL DEF ScreenSpec, Spec
=============================================================================
