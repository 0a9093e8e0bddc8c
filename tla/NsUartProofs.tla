---------------------------- MODULE NsUartProofs ----------------------------
(***************************************************************************)
(* The serial driver keeps bytes in order, for rings and FIFOs of any size *)
(* and calls of any length: what waits to be read is the newest that came  *)
(* in, and what is written goes out as long as nothing disturbs it.        *)
(***************************************************************************)
EXTENDS NsUart, SequenceTheorems, TLAPS

-----------------------------------------------------------------------------
(* The modulus. *)

LEMMA ModSplit ==
    ASSUME NEW N \in Nat \ {0}, NEW a \in Nat
    PROVE  \E q \in Nat : a = N * q + (a % N)
<1>1. a = N * (a \div N) + (a % N)
  OBVIOUS
<1>2. a \div N \in Nat
  OBVIOUS
<1> QED
  BY <1>1, <1>2, Zenon

LEMMA ModOf ==
    ASSUME NEW N \in Nat \ {0}, NEW q \in Int, NEW r \in 0..(N - 1)
    PROVE  (N * q + r) % N = r
  OBVIOUS

LEMMA MultipleAbove ==
    ASSUME NEW N \in Nat \ {0}, NEW k \in Int, k >= 1
    PROVE  N * k >= N
  OBVIOUS

LEMMA ModPlusN ==
    ASSUME NEW N \in Nat \ {0}, NEW a \in Nat
    PROVE  (a + N) % N = a % N
<1>1. PICK q \in Nat : a = N * q + (a % N)
  BY ModSplit, Zenon
<1>2. a % N \in 0..(N - 1)
  OBVIOUS
<1> DEFINE k == q + 1
<1>3. k \in Int /\ a + N = N * k + (a % N)
  BY <1>1, <1>2
<1> HIDE DEF k
<1>4. (N * k + (a % N)) % N = a % N
  BY <1>2, <1>3, ModOf, Zenon
<1> QED
  BY <1>3, <1>4, Zenon

LEMMA ModAdd ==
    ASSUME NEW N \in Nat \ {0}, NEW a \in Nat, NEW b \in Nat
    PROVE  ((a % N) + b) % N = (a + b) % N
<1>1. PICK q \in Nat : a = N * q + (a % N)
  BY ModSplit, Zenon
<1> DEFINE c == (a % N) + b
<1>2. c \in Nat
  OBVIOUS
<1>3. PICK p \in Nat : c = N * p + (c % N)
  BY <1>2, ModSplit, Zenon
<1>4. c % N \in 0..(N - 1)
  BY <1>2
<1>5. a + b = N * q + c
  BY <1>1
<1> DEFINE k == q + p
<1> HIDE DEF c
<1>6. k \in Int /\ a + b = N * k + (c % N)
  BY <1>3, <1>4, <1>5
<1> HIDE DEF k
<1>7. (N * k + (c % N)) % N = c % N
  BY <1>4, <1>6, ModOf, Zenon
<1>8. (a + b) % N = c % N
  BY <1>6, <1>7, Zenon
<1> QED
  BY <1>8, Zenon DEF c

\* Of numbers less than N apart no two have the same remainder.
LEMMA ModUnique ==
    ASSUME NEW N \in Nat \ {0}, NEW a \in Nat, NEW b \in Nat, a % N = b % N, a <= b, b < a + N
    PROVE  a = b
<1>1. PICK q \in Nat : a = N * q + (a % N)
  BY ModSplit, Zenon
<1>2. PICK p \in Nat : b = N * p + (b % N)
  BY ModSplit, Zenon
<1>3. a % N \in 0..(N - 1)
  OBVIOUS
<1>4. b - a = N * (p - q) /\ p - q \in Int
  BY <1>1, <1>2, <1>3
<1>5. p - q >= 1 => N * (p - q) >= N
  BY <1>4, MultipleAbove, Zenon
<1>6. p = q \/ q - p >= 1
  BY <1>4, <1>5
<1>7. q - p >= 1 => N * (q - p) >= N
  BY MultipleAbove
<1>8. b - a = 0 - N * (q - p)
  BY <1>4
<1> QED
  BY <1>1, <1>2, <1>3, <1>6, <1>7, <1>8

-----------------------------------------------------------------------------
(* Bytes in order: the n after the first f. *)

Run(f, n) == [i \in 1..n |-> f + i]

LEMMA RunFacts ==
    ASSUME NEW f \in Nat, NEW n \in Nat
    PROVE  /\ Run(f, n) \in Seq(Nat) /\ Len(Run(f, n)) = n
           /\ \A i \in 1..n : Run(f, n)[i] = f + i
           /\ Run(f, n) = <<>> <=> n = 0
<1>1. Run(f, n) \in [1..n -> Nat]
  BY DEF Run
<1>2. Run(f, n) \in Seq(Nat) /\ Len(Run(f, n)) = n
  BY <1>1
<1>3. \A i \in 1..n : Run(f, n)[i] = f + i
  BY Zenon DEF Run
<1>4. Run(f, n) = <<>> <=> n = 0
  BY <1>2, EmptySeq, Zenon
<1> QED
  BY <1>2, <1>3, <1>4, Zenon

LEMMA IsRun ==
    ASSUME NEW f \in Nat, NEW s, NEW S, s \in Seq(S), \A i \in 1..Len(s) : s[i] = f + i
    PROVE  s = Run(f, Len(s))
<1>1. Len(s) \in Nat /\ s = [i \in 1..Len(s) |-> s[i]]
  OBVIOUS
<1> DEFINE n == Len(s)
<1> HIDE DEF n
<1>2. [i \in 1..n |-> s[i]] = [i \in 1..n |-> f + i]
  BY Zenon DEF n
<1> QED
  BY <1>1, <1>2, Zenon DEF Run, n

LEMMA RunConcat ==
    ASSUME NEW f \in Nat, NEW n \in Nat, NEW m \in Nat
    PROVE  Run(f, n) \o Run(f + n, m) = Run(f, n + m)
<1> DEFINE s == Run(f, n)
           t == Run(f + n, m)
<1>1. s \in Seq(Nat) /\ Len(s) = n /\ \A i \in 1..n : s[i] = f + i
  BY RunFacts, Zenon
<1>2. f + n \in Nat
  OBVIOUS
<1>3. t \in Seq(Nat) /\ Len(t) = m /\ \A i \in 1..m : t[i] = f + n + i
  BY RunFacts, <1>2, Zenon
<1> HIDE DEF s, t
<1>4. /\ s \o t \in Seq(Nat) /\ Len(s \o t) = n + m
      /\ \A i \in 1..(n + m) : (s \o t)[i] = IF i <= n THEN s[i] ELSE t[i - n]
  BY <1>1, <1>3, ConcatProperties, Zenon
<1>5. ASSUME NEW i \in 1..(n + m) PROVE (s \o t)[i] = f + i
  <2>1. CASE i <= n
    BY <2>1, <1>1, <1>4
  <2>2. CASE ~(i <= n)
    <3>1. i - n \in 1..m
      BY <2>2
    <3>2. (s \o t)[i] = t[i - n]
      BY <2>2, <1>4, Zenon
    <3>3. t[i - n] = f + n + (i - n)
      BY <3>1, <1>3, Zenon
    <3> QED
      BY <3>2, <3>3
  <2> QED
    BY <2>1, <2>2, Zenon
<1>6. s \o t = Run(f, n + m)
  BY <1>4, <1>5, IsRun, Zenon
<1> QED
  BY <1>6, Zenon DEF s, t

LEMMA RunAppend ==
    ASSUME NEW f \in Nat, NEW n \in Nat
    PROVE  Append(Run(f, n), f + n + 1) = Run(f, n + 1)
<1> DEFINE s == Run(f, n)
           t == Append(s, f + n + 1)
<1>1. s \in Seq(Nat) /\ Len(s) = n /\ \A i \in 1..n : s[i] = f + i
  BY RunFacts, Zenon
<1> HIDE DEF s
<1>2. t \in Seq(Nat) /\ Len(t) = n + 1 /\ t[n + 1] = f + n + 1 /\ \A i \in 1..n : t[i] = s[i]
  BY <1>1, AppendProperties
<1> HIDE DEF t
<1>3. ASSUME NEW i \in 1..Len(t) PROVE t[i] = f + i
  <2>1. CASE i = n + 1
    BY <2>1, <1>2
  <2>2. CASE i \in 1..n
    BY <2>2, <1>1, <1>2, Zenon
  <2> QED
    BY <2>1, <2>2, <1>2
<1>4. t = Run(f, n + 1)
  BY <1>2, <1>3, IsRun, Zenon
<1> QED
  BY <1>4, Zenon DEF s, t

LEMMA RunTail ==
    ASSUME NEW f \in Nat, NEW n \in Nat, n > 0
    PROVE  Head(Run(f, n)) = f + 1 /\ Tail(Run(f, n)) = Run(f + 1, n - 1)
<1> DEFINE s == Run(f, n)
           t == Tail(s)
<1>1. s \in Seq(Nat) /\ Len(s) = n /\ s # <<>> /\ \A i \in 1..n : s[i] = f + i
  BY RunFacts
<1> HIDE DEF s
<1>2. Head(s) = f + 1
  BY <1>1
<1>3. t \in Seq(Nat) /\ Len(t) = n - 1 /\ \A i \in 1..(n - 1) : t[i] = s[i + 1]
  BY <1>1, HeadTailProperties, Zenon
<1> HIDE DEF t
<1>4. \A i \in 1..Len(t) : t[i] = f + 1 + i
  BY <1>1, <1>3
<1>5. f + 1 \in Nat
  OBVIOUS
<1>6. t = Run(f + 1, n - 1)
  BY <1>3, <1>4, <1>5, IsRun, Zenon
<1> QED
  BY <1>2, <1>6, Zenon DEF s, t

LEMMA RunCut ==
    ASSUME NEW f \in Nat, NEW w \in Nat, NEW n \in Nat, n <= w
    PROVE  SubSeq(Run(f, w), 1, n) = Run(f, n) /\ SubSeq(Run(f, w), n + 1, w) = Run(f + n, w - n)
<1> DEFINE s == Run(f, w)
           t == SubSeq(s, 1, n)
           u == SubSeq(s, n + 1, w)
<1>1. \A x \in 1..w : s[x] = f + x
  BY RunFacts, Zenon
<1> HIDE DEF s
<1>2. (\A x \in 1..n : s[x] \in Nat) /\ (\A x \in (n + 1)..w : s[x] \in Nat)
  BY <1>1
<1>3. t = Run(f, n)
  <2>1. /\ t \in Seq(Nat) /\ Len(t) = IF 1 <= n THEN n - 1 + 1 ELSE 0
        /\ \A x \in 1..(n - 1 + 1) : t[x] = s[1 + x - 1]
    BY <1>2, SubSeqProperties
  <2> HIDE DEF t
  <2>2. Len(t) = n
    BY <2>1
  <2>3. \A x \in 1..n : t[x] = f + x
    BY <1>1, <2>1
  <2> QED
    BY <2>1, <2>2, <2>3, IsRun, Zenon
<1>4. u = Run(f + n, w - n)
  <2>1. /\ u \in Seq(Nat) /\ Len(u) = IF n + 1 <= w THEN w - (n + 1) + 1 ELSE 0
        /\ \A x \in 1..(w - (n + 1) + 1) : u[x] = s[n + 1 + x - 1]
    BY <1>2, SubSeqProperties
  <2> HIDE DEF u
  <2>2. Len(u) = w - n /\ f + n \in Nat
    BY <2>1
  <2>3. ASSUME NEW x \in 1..Len(u) PROVE u[x] = f + n + x
    <3>1. x \in 1..(w - (n + 1) + 1) /\ n + 1 + x - 1 \in 1..w
      BY <2>2
    <3>2. u[x] = s[n + 1 + x - 1] /\ s[n + 1 + x - 1] = f + (n + 1 + x - 1)
      BY <1>1, <2>1, <3>1, Zenon
    <3> QED
      BY <3>2
  <2> QED
    BY <2>1, <2>2, <2>3, IsRun, Zenon
<1> QED
  BY <1>3, <1>4, Zenon DEF s, t, u

-----------------------------------------------------------------------------
(* Rings.  At(r, c) is the byte c places from the head. *)

At(r, c) == r.Buf[(r.pHead + c - 1) % UART_BUF_SIZE]

Ring(r) ==
    /\ r = [Buf |-> r.Buf, Count |-> r.Count, pHead |-> r.pHead, pTail |-> r.pTail]
    /\ RingSound(r) /\ \A c \in 1..r.Count : At(r, c) \in Nat

Holds(r, f) == \A c \in 1..r.Count : At(r, c) = f + c

LEMMA RingTypes ==
    ASSUME NEW r, Ring(r)
    PROVE  /\ UART_BUF_SIZE \in Nat \ {0}
           /\ r.Count \in Nat /\ r.Count <= UART_BUF_SIZE
           /\ r.pHead \in Nat /\ r.pHead < UART_BUF_SIZE
           /\ r.pTail \in Nat /\ r.pTail < UART_BUF_SIZE
           /\ r.pTail = (r.pHead + r.Count) % UART_BUF_SIZE
  BY UartConstants DEF Ring, RingSound, Places

\* The bytes a read or the transmitter takes.
LEMMA FrontFacts ==
    ASSUME NEW r, Ring(r), NEW len \in Nat
    PROVE  /\ Front(r, len) \in Seq(Nat) /\ Len(Front(r, len)) = Least(len, r.Count)
           /\ \A i \in 1..Least(len, r.Count) : Front(r, len)[i] = At(r, i)
           /\ \A f \in Nat : Holds(r, f) => Front(r, len) = Run(f, Least(len, r.Count))
<1> DEFINE n == Least(len, r.Count)
<1>1. r.Count \in Nat /\ n \in 0..r.Count
  BY RingTypes DEF Least
<1> HIDE DEF n
<1>2. Front(r, len) = [i \in 1..n |-> At(r, i)]
  BY Zenon DEF Front, At, n
<1>3. \A i \in 1..n : i \in 1..r.Count
  BY <1>1
<1>4. \A i \in 1..n : At(r, i) \in Nat
  BY <1>3, Zenon DEF Ring
<1>5. Front(r, len) \in [1..n -> Nat]
  BY <1>2, <1>4, Zenon
<1>6. Front(r, len) \in Seq(Nat) /\ Len(Front(r, len)) = n
  BY <1>1, <1>5
<1>7. ASSUME NEW f \in Nat, Holds(r, f) PROVE Front(r, len) = Run(f, n)
  BY <1>2, <1>3, <1>7, Zenon DEF Holds, Run
<1> QED
  BY <1>2, <1>6, <1>7, Zenon DEF n

\* Taking bytes from the head leaves the others where they are.
LEMMA Dequeued ==
    ASSUME NEW r, Ring(r), NEW len \in Nat
    PROVE  LET n == Least(len, r.Count)
               q == dequeue_from_buffer(r, len)
           IN  /\ n \in Nat /\ n <= r.Count /\ n <= len
               /\ Ring(q) /\ q.Count = r.Count - n
               /\ \A f \in Nat : Holds(r, f) => Holds(q, f + n)
<1> DEFINE n == Least(len, r.Count)
           q == dequeue_from_buffer(r, len)
           N == UART_BUF_SIZE
<1>0. /\ N \in Nat \ {0} /\ r.Count \in Nat /\ r.Count <= N /\ r.pHead \in Nat /\ r.pHead < N
      /\ r.pTail \in Nat /\ r.pTail < N /\ r.pTail = (r.pHead + r.Count) % N
  BY RingTypes, Zenon
<1>1. n \in Nat /\ n <= r.Count /\ n <= len
  BY <1>0 DEF Least
<1>2. q = [Buf |-> r.Buf, Count |-> r.Count - n, pHead |-> (r.pHead + n) % N, pTail |-> r.pTail]
  <2> DEFINE b == r.Buf
             k == r.Count
             h == r.pHead
             t == r.pTail
  <2>1. r = [Buf |-> b, Count |-> k, pHead |-> h, pTail |-> t]
    BY Zenon DEF Ring
  <2> HIDE DEF b, k, h, t, n
  <2>2. q = [r EXCEPT !.Count = k - n, !.pHead = (h + n) % N]
    BY <2>1, Zenon DEF dequeue_from_buffer, n, k, h
  <2>3. q = [Buf |-> b, Count |-> k - n, pHead |-> (h + n) % N, pTail |-> t]
    BY <2>1, <2>2, Zenon
  <2> QED
    BY <2>3, Zenon DEF b, k, h, t
<1> HIDE DEF n, q, N
<1>3. /\ q = [Buf |-> q.Buf, Count |-> q.Count, pHead |-> q.pHead, pTail |-> q.pTail]
      /\ q.Buf = r.Buf /\ q.Count = r.Count - n /\ q.pHead = (r.pHead + n) % N /\ q.pTail = r.pTail
  BY <1>2, Zenon
<1>4. q.Count \in 0..N /\ q.pHead \in 0..(N - 1) /\ q.pTail \in 0..(N - 1)
  BY <1>0, <1>1, <1>3
<1>5. (q.pHead + q.Count) % N = q.pTail
  <2>0. r.pHead + n \in Nat /\ r.Count - n \in Nat
    BY <1>0, <1>1
  <2>1. (((r.pHead + n) % N) + (r.Count - n)) % N = ((r.pHead + n) + (r.Count - n)) % N
    BY <1>0, <2>0, ModAdd, Zenon
  <2>2. (r.pHead + n) + (r.Count - n) = r.pHead + r.Count
    BY <1>0, <1>1
  <2> QED
    BY <1>0, <1>3, <2>1, <2>2, Zenon
<1>6. ASSUME NEW c \in 1..q.Count PROVE c + n \in 1..r.Count /\ At(q, c) = At(r, c + n)
  <2>1. c + n \in 1..r.Count /\ c - 1 \in Nat /\ r.pHead + n \in Nat
    BY <1>0, <1>1, <1>3
  <2>2. (((r.pHead + n) % N) + (c - 1)) % N = ((r.pHead + n) + (c - 1)) % N
    BY <1>0, <2>1, ModAdd, Zenon
  <2>3. /\ (r.pHead + n) + (c - 1) = r.pHead + (c + n) - 1
        /\ ((r.pHead + n) % N) + (c - 1) = q.pHead + c - 1
    BY <1>0, <1>1, <1>3, <2>1
  <2>4. (q.pHead + c - 1) % N = (r.pHead + (c + n) - 1) % N
    BY <2>2, <2>3, Zenon
  <2> QED
    BY <1>3, <2>1, <2>4, Zenon DEF At, N
<1>7. Ring(q)
  BY <1>3, <1>4, <1>5, <1>6, Zenon DEF Ring, RingSound, Places, N
<1>8. ASSUME NEW f \in Nat, Holds(r, f) PROVE Holds(q, f + n)
  <2> SUFFICES ASSUME NEW c \in 1..q.Count PROVE At(q, c) = f + n + c
    BY Zenon DEF Holds
  <2>1. At(q, c) = f + (c + n)
    BY <1>6, <1>8, Zenon DEF Holds
  <2>2. c \in Nat
    BY <1>4
  <2> QED
    BY <1>1, <2>1, <2>2
<1> QED
  BY <1>1, <1>3, <1>7, <1>8, Zenon DEF n, q

\* L bytes are stored behind the k of a ring with head h and tail t: it then has
\* n, with head u.
Pushed(N, h, k, t, L, n, u) ==
    /\ N \in Nat \ {0} /\ h \in Nat /\ k \in 0..N /\ t \in Nat /\ L \in Nat /\ n \in Nat /\ u \in Nat
    /\ t = (h + k) % N
    /\ n = (IF k + L > N THEN N ELSE k + L)
    /\ u = (IF k + L > N THEN (t + L) % N ELSE h)

\* Of L bytes stored from t on, the last for place p is byte j; none if j < 1.
LastFor(N, t, L, p, j) ==
    /\ \A i \in 1..L : (t + i - 1) % N = p => i <= j
    /\ j >= 1 => j <= L /\ (t + j - 1) % N = p

\* Place c of the n is number g of the k + L.
LEMMA PlaceOf ==
    ASSUME NEW N, NEW h, NEW k, NEW t, NEW L, NEW n, NEW u, Pushed(N, h, k, t, L, n, u),
           NEW c \in 1..n, NEW g \in Int, g = k + L - n + c
    PROVE  /\ 1 <= g /\ g <= k + L
           /\ (u + c - 1) % N = (h + g - 1) % N
           /\ LastFor(N, t, L, (h + g - 1) % N, g - k)
<1>a. /\ N \in Nat \ {0} /\ h \in Nat /\ k \in Nat /\ t \in Nat /\ L \in Nat /\ n \in Nat
      /\ u \in Nat
  BY DEF Pushed
<1>0. /\ k <= N /\ t = (h + k) % N
      /\ n = (IF k + L > N THEN N ELSE k + L)
      /\ u = (IF k + L > N THEN (t + L) % N ELSE h)
      /\ c \in Nat /\ 1 <= c /\ c <= n
  BY <1>a DEF Pushed
<1>n. k <= N /\ n = (IF k + L > N THEN N ELSE k + L) /\ c \in Nat /\ 1 <= c /\ c <= n
  BY <1>a, <1>0, Zenon
<1>1. 1 <= g /\ g <= k + L /\ k + L - g < N
  BY <1>a, <1>n
<1>2. h + g - 1 \in Nat /\ h + k \in Nat
  BY <1>a, <1>1
<1>3. ASSUME NEW i \in Nat, i >= 1 PROVE (t + i - 1) % N = (h + k + i - 1) % N
  <2>1. i - 1 \in Nat /\ t + i - 1 = t + (i - 1) /\ h + k + i - 1 = (h + k) + (i - 1)
    BY <1>a, <1>3
  <2>2. (((h + k) % N) + (i - 1)) % N = ((h + k) + (i - 1)) % N
    BY <1>a, <1>2, <2>1, ModAdd, Zenon
  <2> QED
    BY <1>a, <1>0, <2>1, <2>2, Zenon
<1>4. (u + c - 1) % N = (h + g - 1) % N
  <2>1. CASE k + L > N
    <3>1. u = (t + L) % N /\ t + L \in Nat /\ c - 1 \in Nat
      BY <1>a, <1>0, <2>1
    <3>2. (((t + L) % N) + (c - 1)) % N = ((t + L) + (c - 1)) % N
      BY <1>a, <3>1, ModAdd, Zenon
    <3>3. u + c - 1 = ((t + L) % N) + (c - 1)
      BY <1>a, <3>1, Zenon
    <3>4. (u + c - 1) % N = ((t + L) + (c - 1)) % N
      BY <1>a, <3>2, <3>3, Zenon
    <3>5. (t + L) + (c - 1) = t + (L + c) - 1 /\ L + c \in Nat /\ L + c >= 1
      BY <1>a, <1>n
    <3>6. (t + (L + c) - 1) % N = (h + k + (L + c) - 1) % N
      BY <1>a, <1>3, <3>5, Zenon
    <3>7. h + k + (L + c) - 1 = (h + g - 1) + N
      BY <1>a, <1>n, <2>1
    <3>8. ((h + g - 1) + N) % N = (h + g - 1) % N
      BY <1>a, <1>2, ModPlusN, Zenon
    <3> QED
      BY <1>a, <3>4, <3>5, <3>6, <3>7, <3>8, Zenon
  <2>2. CASE ~(k + L > N)
    <3>1. u + c - 1 = h + g - 1
      BY <1>a, <1>0, <2>2
    <3> QED
      BY <1>a, <3>1, Zenon
  <2> QED
    BY <1>a, <2>1, <2>2, Zenon
<1>5. ASSUME g > k PROVE (t + (g - k) - 1) % N = (h + g - 1) % N
  <2>1. g - k \in Nat /\ g - k >= 1 /\ h + k + (g - k) - 1 = h + g - 1
    BY <1>a, <1>5
  <2> QED
    BY <1>a, <1>3, <2>1, Zenon
<1>6. ASSUME NEW i \in 1..L, (t + i - 1) % N = (h + g - 1) % N, ~(i <= g - k) PROVE FALSE
  <2> DEFINE x == h + g - 1
             y == h + k + i - 1
  <2>1. x \in Nat /\ y \in Nat /\ x < y /\ x <= y /\ y < x + N
    BY <1>a, <1>1, <1>2, <1>6
  <2>2. i \in Nat /\ i >= 1
    BY <1>a
  <2>3. x % N = y % N
    BY <1>a, <1>3, <1>6, <2>2, Zenon
  <2> HIDE DEF x, y
  <2>4. x = y
    BY <1>a, <2>1, <2>3, ModUnique, Zenon
  <2> QED
    BY <1>a, <2>1, <2>4
<1>7. g - k >= 1 => g - k <= L /\ g > k
  BY <1>a, <1>1
<1> QED
  BY <1>a, <1>1, <1>4, <1>5, <1>6, <1>7, Zenon DEF LastFor

\* A place has the last byte stored there, or what it had.
LEMMA StoredAt ==
    ASSUME NEW r, NEW s, Len(s) \in Nat, NEW p \in Places, NEW j \in Int,
           LastFor(UART_BUF_SIZE, r.pTail, Len(s), p, j)
    PROVE  Stored(r, s)[p] = IF j >= 1 THEN s[j] ELSE r.Buf[p]
<1> DEFINE I == {i \in 1..Len(s) : (r.pTail + i - 1) % UART_BUF_SIZE = p}
           m == CHOOSE i \in I : \A k \in I : k <= i
<1>1. Stored(r, s)[p] = IF I = {} THEN r.Buf[p] ELSE s[m]
  BY Zenon DEF Stored
<1>2. \A i \in I : i \in Nat /\ i >= 1 /\ i <= j
  BY DEF LastFor
<1>3. j >= 1 => j \in I
  BY DEF LastFor
<1> HIDE DEF I
<1>4. CASE j >= 1
  <2>1. j \in I
    BY <1>3, <1>4, Zenon
  <2>2. m \in I /\ \A k \in I : k <= m
    BY <1>2, <2>1, Zenon
  <2> HIDE DEF m
  <2>3. m = j
    BY <1>2, <2>1, <2>2
  <2> QED
    BY <1>1, <1>4, <2>1, <2>3, Zenon
<1>5. CASE ~(j >= 1)
  <2>1. I = {}
    BY <1>2, <1>5
  <2> QED
    BY <1>1, <1>5, <2>1, Zenon
<1> QED
  BY <1>4, <1>5, Zenon

\* The bytes of q are the last of those of r followed by s.
Newest(q, r, s) ==
    \A c \in 1..q.Count, g \in Int :
        g = r.Count + Len(s) - q.Count + c =>
            /\ 1 <= g /\ g <= r.Count + Len(s)
            /\ At(q, c) = IF g > r.Count THEN s[g - r.Count] ELSE At(r, g)

\* Storing bytes: the ring has the newest that fit.
LEMMA EnqueuedAt ==
    ASSUME NEW r, Ring(r), NEW s \in Seq(Nat)
    PROVE  LET q == enqueue_to_buffer(r, s)
           IN  Ring(q) /\ q.Count = Least(UART_BUF_SIZE, r.Count + Len(s)) /\ Newest(q, r, s)
<1> DEFINE N == UART_BUF_SIZE
           h == r.pHead
           k == r.Count
           t == r.pTail
           L == Len(s)
           q == enqueue_to_buffer(r, s)
           n == q.Count
           u == q.pHead
<1>0. /\ N \in Nat \ {0} /\ k \in Nat /\ k <= N /\ h \in Nat /\ h < N
      /\ t \in Nat /\ t < N /\ L \in Nat
  BY RingTypes
<1>t. t = (h + k) % N
  BY RingTypes, Zenon
<1>1. /\ q = [Buf |-> q.Buf, Count |-> n, pHead |-> u, pTail |-> q.pTail]
      /\ q.Buf = Stored(r, s) /\ n = (IF k + L > N THEN N ELSE k + L)
      /\ u = (IF k + L > N THEN (t + L) % N ELSE h) /\ q.pTail = (t + L) % N
  BY Zenon DEF enqueue_to_buffer
<1> HIDE DEF N, h, k, t, L, q, n, u
<1>2. n \in Nat /\ n <= N /\ n = Least(N, k + L)
  BY <1>0, <1>1 DEF Least
<1>3. q.pTail \in 0..(N - 1) /\ u \in 0..(N - 1)
  <2>1. t + L \in Nat
    BY <1>0
  <2>2. (t + L) % N \in 0..(N - 1)
    BY <1>0, <2>1
  <2>3. h \in 0..(N - 1)
    BY <1>0
  <2> QED
    BY <1>1, <2>2, <2>3, Zenon
<1>4. (u + n) % N = q.pTail
  <2>1. CASE k + L > N
    <3>1. u = q.pTail /\ n = N
      BY <1>1, <2>1, Zenon
    <3>2. (u + N) % N = u % N
      <4>1. u \in Nat
        BY <1>3
      <4> QED
        BY <1>0, <4>1, ModPlusN, Zenon
    <3>3. u % N = u
      BY <1>0, <1>3
    <3> QED
      BY <3>1, <3>2, <3>3, Zenon
  <2>2. CASE ~(k + L > N)
    <3>1. u + n = (h + k) + L /\ h + k \in Nat
      BY <1>0, <1>1, <2>2
    <3>2. (((h + k) % N) + L) % N = ((h + k) + L) % N
      BY <1>0, <3>1, ModAdd, Zenon
    <3> QED
      BY <1>1, <1>t, <3>1, <3>2, Zenon
  <2> QED
    BY <2>1, <2>2, Zenon
<1>5. RingSound(q)
  BY <1>2, <1>3, <1>4 DEF RingSound, Places, N, n, u
<1>6. ASSUME NEW c \in 1..n, NEW g \in Int, g = k + L - n + c
      PROVE  1 <= g /\ g <= k + L /\ At(q, c) = IF g > k THEN s[g - k] ELSE At(r, g)
  <2> DEFINE p == (h + g - 1) % N
             j == g - k
  <2>c. c \in Nat /\ 1 <= c /\ c <= n
    BY <1>2
  <2>u. u \in Nat
    BY <1>3
  <2>p. Pushed(N, h, k, t, L, n, u)
    BY <1>0, <1>t, <1>1, <1>2, <2>u DEF Pushed
  <2>1. 1 <= g /\ g <= k + L /\ (u + c - 1) % N = p /\ LastFor(N, t, L, p, j)
    BY <1>6, <2>p, PlaceOf
  <2>2. h + g - 1 \in Nat
    BY <1>0, <2>1
  <2>3. p \in 0..(N - 1)
    BY <1>0, <2>2
  <2> HIDE DEF p
  <2>4. j \in Int /\ (j >= 1 <=> g > k) /\ j <= L
    BY <1>0, <2>1
  <2> HIDE DEF j
  <2>5. Stored(r, s)[p] = IF j >= 1 THEN s[j] ELSE r.Buf[p]
    <3>1. Len(s) \in Nat /\ p \in Places
      BY <1>0, <2>3, Zenon DEF Places, N, L
    <3> QED
      BY <2>1, <2>4, <3>1, StoredAt, Zenon DEF N, L, t
  <2>6. At(q, c) = Stored(r, s)[p]
    BY <1>1, <2>1, Zenon DEF At, N, u
  <2>7. At(r, g) = r.Buf[p]
    BY Zenon DEF At, p, h, N
  <2> QED
    BY <2>1, <2>4, <2>5, <2>6, <2>7, Zenon DEF j
<1>7. ASSUME NEW c \in 1..n PROVE At(q, c) \in Nat
  <2> DEFINE g == k + L - n + c
  <2>1. g \in Int
    BY <1>0, <1>2
  <2>2. 1 <= g /\ g <= k + L /\ At(q, c) = IF g > k THEN s[g - k] ELSE At(r, g)
    BY <1>6, <2>1, Zenon
  <2> HIDE DEF g
  <2>3. CASE g > k
    <3>1. g - k \in 1..L
      BY <1>0, <2>1, <2>2, <2>3
    <3> QED
      BY <2>2, <2>3, <3>1 DEF L
  <2>4. CASE ~(g > k)
    <3>1. g \in 1..k
      BY <1>0, <2>1, <2>2, <2>4
    <3> QED
      BY <2>2, <2>4, <3>1, Zenon DEF Ring, k
  <2> QED
    BY <2>3, <2>4, Zenon
<1>8. Ring(q)
  BY <1>1, <1>5, <1>7, Zenon DEF Ring, n, u
<1>9. Newest(q, r, s)
  BY <1>6, Zenon DEF Newest, n, L, k
<1> QED
  BY <1>2, <1>8, <1>9, Zenon DEF q, n, L, N, k

LEMMA EnqueuedRun ==
    ASSUME NEW r, Ring(r), NEW f \in Nat, Holds(r, f), NEW L \in Nat, NEW q,
           q = enqueue_to_buffer(r, Run(f + r.Count, L))
    PROVE  /\ Ring(q) /\ q.Count = Least(UART_BUF_SIZE, r.Count + L)
           /\ Holds(q, f + r.Count + L - q.Count)
<1> DEFINE k == r.Count
           n == q.Count
           s == Run(f + k, L)
<1>1. k \in Nat
  BY RingTypes, Zenon
<1>2. f + k \in Nat
  BY <1>1
<1>3. s \in Seq(Nat) /\ Len(s) = L /\ \A i \in 1..L : s[i] = f + k + i
  BY <1>2, RunFacts, Zenon
<1> HIDE DEF s
<1>4. Ring(q) /\ n = Least(UART_BUF_SIZE, k + L) /\ Newest(q, r, s)
  BY <1>3, EnqueuedAt, Zenon DEF s
<1>5. n \in Nat
  BY <1>4, RingTypes, Zenon
<1> HIDE DEF k, n
<1>6. ASSUME NEW c \in 1..n PROVE At(q, c) = f + k + L - n + c
  <2> DEFINE g == k + L - n + c
  <2>1. g \in Int /\ c \in Int
    BY <1>1, <1>5
  <2>2. 1 <= g /\ g <= k + L /\ At(q, c) = IF g > k THEN s[g - k] ELSE At(r, g)
    BY <1>3, <1>4, <2>1, Zenon DEF Newest, k, n
  <2>3. f + g = f + k + L - n + c
    BY <1>1, <1>5, <2>1
  <2> HIDE DEF g
  <2>4. CASE g > k
    <3>1. g - k \in 1..L
      BY <1>1, <2>1, <2>2, <2>4
    <3>2. s[g - k] = f + k + (g - k)
      BY <1>3, <3>1, Zenon
    <3>3. f + k + (g - k) = f + g
      BY <1>1, <2>1
    <3> QED
      BY <2>2, <2>3, <2>4, <3>2, <3>3, Zenon
  <2>5. CASE ~(g > k)
    <3>1. g \in 1..k
      BY <1>1, <2>1, <2>2, <2>5
    <3> QED
      BY <2>2, <2>3, <2>5, <3>1, Zenon DEF Holds, k
  <2> QED
    BY <2>4, <2>5, Zenon
<1> QED
  BY <1>4, <1>6, Zenon DEF Holds, k, n

LEMMA EmptyRing ==
    /\ Ring(initialize_buffer) /\ initialize_buffer.Count = 0
<1> DEFINE r == initialize_buffer
<1>1. r = [Buf |-> [p \in Places |-> 0], Count |-> 0, pHead |-> 0, pTail |-> 0]
  BY Zenon DEF initialize_buffer
<1> HIDE DEF r
<1>2. r = [Buf |-> r.Buf, Count |-> r.Count, pHead |-> r.pHead, pTail |-> r.pTail] /\ r.Count = 0
  BY <1>1, Zenon
<1>3. RingSound(r)
  BY <1>1, UartConstants DEF RingSound, Places
<1>4. \A c \in 1..r.Count : At(r, c) \in Nat
  BY <1>2
<1> QED
  BY <1>2, <1>3, <1>4, Zenon DEF Ring, r

LEMMA HoldsNone ==
    ASSUME NEW r, r.Count = 0, NEW f
    PROVE  Holds(r, f)
  BY DEF Holds

-----------------------------------------------------------------------------
(* The types. *)

TypeInv ==
    /\ TypeOK /\ Ring(TxData) /\ Ring(RxData)
    /\ txfifo \in Seq(Nat) /\ rxfifo \in Seq(Nat)
    /\ written \in Nat /\ arrived \in Nat

\* What the chip keeps of s.
LEMMA FillFacts ==
    ASSUME txfifo \in Seq(Nat), NEW s \in Seq(Nat)
    PROVE  Fill(s) \in Seq(Nat) /\ Len(Fill(s)) <= SP_FIFO_SIZE
<1> DEFINE t == txfifo \o s
           n == Least(Len(t), SP_FIFO_SIZE)
<1>1. t \in Seq(Nat)
  BY ConcatProperties, Zenon
<1> HIDE DEF t
<1>2. n \in Nat /\ n <= Len(t) /\ n <= SP_FIFO_SIZE
  BY <1>1, UartConstants DEF Least
<1> HIDE DEF n
<1>3. SubSeq(t, 1, n) \in Seq(Nat) /\ Len(SubSeq(t, 1, n)) = n
  BY <1>1, <1>2
<1> QED
  BY <1>2, <1>3, Zenon DEF Fill, t, n

LEMMA TypeInit == Init => TypeInv
<1> SUFFICES ASSUME Init PROVE TypeInv
  BY Zenon
<1>1. Ring(TxData) /\ Ring(RxData)
  BY EmptyRing, Zenon DEF Init
<1>2. RingSound(TxData) /\ RingSound(RxData)
  BY <1>1, Zenon DEF Ring
<1>3. Len(txfifo) = 0 /\ Len(rxfifo) = 0
  BY Zenon DEF Init
<1> QED
  BY <1>1, <1>2, <1>3, UartConstants DEF Init, TypeInv, TypeOK

\* The handler stores what came in, and sends or not.
LEMMA RoundTypes ==
    ASSUME TypeInv, Round
    PROVE  /\ Ring(RxData') /\ rxfifo' \in Seq(Nat) /\ Len(rxfifo') <= SP_FIFO_SIZE
           /\ Ring(TxData') /\ txfifo' \in Seq(Nat) /\ Len(txfifo') <= SP_FIFO_SIZE
           /\ ier' \in {AllButTx, All} /\ thre' \in BOOLEAN /\ isr' \in {"off", "none", "some"}
<1>0. /\ Ring(RxData) /\ Ring(TxData) /\ rxfifo \in Seq(Nat) /\ txfifo \in Seq(Nat)
      /\ Len(txfifo) <= SP_FIFO_SIZE /\ Len(rxfifo) <= SP_FIFO_SIZE
      /\ isr \in {"off", "none", "some"} /\ SP_FIFO_SIZE \in Nat
  BY UartConstants, Zenon DEF TypeInv, TypeOK
<1>1. Ring(RxData') /\ rxfifo' \in Seq(Nat) /\ Len(rxfifo') <= SP_FIFO_SIZE
  <2>1. CASE RxPending
    <3>1. RxData' = enqueue_to_buffer(RxData, rxfifo) /\ rxfifo' = <<>>
      BY <2>1, Zenon DEF Round
    <3>2. Ring(RxData')
      BY <1>0, <3>1, EnqueuedAt, Zenon
    <3> QED
      BY <1>0, <3>1, <3>2
  <2>2. CASE ~RxPending
    <3>1. RxData' = RxData /\ rxfifo' = rxfifo
      BY <2>2, Zenon DEF Round
    <3> QED
      BY <1>0, <3>1, Zenon
  <2> QED
    BY <2>1, <2>2, Zenon
<1>2. Ring(TxData') /\ txfifo' \in Seq(Nat) /\ Len(txfifo') <= SP_FIFO_SIZE
  <2>1. CASE TxData.Count > 0 /\ THOLD
    <3>1. /\ txfifo' = Fill(Front(TxData, SP_FIFO_SIZE))
          /\ TxData' = dequeue_from_buffer(TxData, SP_FIFO_SIZE)
      BY <2>1, Zenon DEF Round
    <3>2. Ring(TxData')
      BY <1>0, <3>1, Dequeued, Zenon
    <3>3. Front(TxData, SP_FIFO_SIZE) \in Seq(Nat)
      BY <1>0, FrontFacts, Zenon
    <3> QED
      BY <1>0, <3>1, <3>2, <3>3, FillFacts, Zenon
  <2>2. CASE ~(TxData.Count > 0 /\ THOLD)
    <3>1. TxData' = TxData /\ txfifo' = txfifo
      BY <2>2, Zenon DEF Round
    <3> QED
      BY <1>0, <3>1, Zenon
  <2> QED
    BY <2>1, <2>2, Zenon
<1>3. ier' \in {AllButTx, All} /\ thre' \in BOOLEAN
  BY Zenon DEF Round, NS16550_set_interrupt, NextMask
<1>4. isr' \in {"off", "none", "some"}
  BY <1>0, Zenon DEF Round
<1> QED
  BY <1>1, <1>2, <1>3, <1>4, Zenon

LEMMA TypeStep ==
    ASSUME TypeInv, [Next]_vars
    PROVE  TypeInv'
<1>0. /\ Ring(TxData) /\ Ring(RxData) /\ txfifo \in Seq(Nat) /\ rxfifo \in Seq(Nat)
      /\ written \in Nat /\ arrived \in Nat
      /\ Len(txfifo) <= SP_FIFO_SIZE /\ Len(rxfifo) <= SP_FIFO_SIZE
      /\ ier \subseteq {"rx", "tx"} /\ thre \in BOOLEAN
      /\ isr \in {"off", "none", "some"} /\ wpc \in {"idle", "direct", "enable", "cache"}
      /\ buf \in Seq(Nat) /\ line \in Seq(Nat) /\ got \in Seq(Nat)
      /\ upset \subseteq {"race", "overrun"} /\ SP_FIFO_SIZE \in Nat
  BY UartConstants, Zenon DEF TypeInv, TypeOK
<1>r. \A r : Ring(r) => RingSound(r)
  BY Zenon DEF Ring
<1>s. SUFFICES
        /\ Ring(TxData') /\ Ring(RxData') /\ txfifo' \in Seq(Nat) /\ rxfifo' \in Seq(Nat)
        /\ written' \in Nat /\ arrived' \in Nat
        /\ Len(txfifo') <= SP_FIFO_SIZE /\ Len(rxfifo') <= SP_FIFO_SIZE
        /\ ier' \subseteq {"rx", "tx"} /\ thre' \in BOOLEAN
        /\ isr' \in {"off", "none", "some"} /\ wpc' \in {"idle", "direct", "enable", "cache"}
        /\ buf' \in Seq(Nat) /\ line' \in Seq(Nat) /\ got' \in Seq(Nat)
        /\ upset' \subseteq {"race", "overrun"}
  BY <1>r, Zenon DEF TypeInv, TypeOK
<1>1. CASE Shift
  <2>1. Head(txfifo) \in Nat /\ txfifo' \in Seq(Nat) /\ Len(txfifo') <= SP_FIFO_SIZE
    BY <1>0, <1>1, HeadTailProperties DEF Shift
  <2>2. line' \in Seq(Nat)
    BY <1>0, <1>1, <2>1, AppendProperties, Zenon DEF Shift
  <2> QED
    BY <1>0, <1>1, <2>1, <2>2, Zenon DEF Shift, Upset, rxVars
<1>2. CASE Arrive
  <2>1. arrived' \in Nat /\ arrived' = arrived + 1
    BY <1>0, <1>2 DEF Arrive
  <2>2. rxfifo' \in Seq(Nat) /\ Len(rxfifo') = Len(rxfifo) + 1
    BY <1>0, <1>2, <2>1, AppendProperties DEF Arrive
  <2>3. Len(rxfifo') <= SP_FIFO_SIZE
    BY <1>0, <1>2, <2>2 DEF Arrive
  <2> QED
    BY <1>0, <1>2, <2>1, <2>2, <2>3, Zenon DEF Arrive, Upset, txVars
<1>3. CASE Enter
  BY <1>0, <1>3, Zenon DEF Enter, Upset, txVars, rxVars
<1>4. CASE Round
  <2>1. /\ Ring(RxData') /\ rxfifo' \in Seq(Nat) /\ Len(rxfifo') <= SP_FIFO_SIZE
        /\ Ring(TxData') /\ txfifo' \in Seq(Nat) /\ Len(txfifo') <= SP_FIFO_SIZE
        /\ ier' \in {AllButTx, All} /\ thre' \in BOOLEAN /\ isr' \in {"off", "none", "some"}
    BY <1>4, RoundTypes, Zenon
  <2>2. ier' \subseteq {"rx", "tx"}
    BY <2>1, Zenon DEF AllButTx, All
  <2>3. UNCHANGED <<line, arrived, got, wpc, buf, written, upset>>
    BY <1>4, Zenon DEF Round
  <2> QED
    BY <1>0, <2>1, <2>2, <2>3, Zenon
<1>5. CASE Write
  <2>1. PICK n \in WriteSizes : written' = written + n /\ buf' = [i \in 1..n |-> written + i]
    BY <1>5, Zenon DEF Write
  <2>2. n \in Nat
    BY UartConstants, Zenon
  <2>3. written' \in Nat /\ buf' = Run(written, n)
    BY <1>0, <2>1, <2>2 DEF Run
  <2>4. buf' \in Seq(Nat)
    BY <1>0, <2>2, <2>3, RunFacts, Zenon
  <2> QED
    BY <1>0, <1>5, <2>3, <2>4, Zenon DEF Write, txVars, rxVars
<1>6. CASE Direct
  <2> DEFINE n == Least(Len(buf), SP_FIFO_SIZE)
  <2>1. n \in Nat /\ n <= Len(buf) /\ Len(buf) \in Nat
    BY <1>0 DEF Least
  <2>2. txfifo' = Fill(SubSeq(buf, 1, n)) /\ buf' = SubSeq(buf, n + 1, Len(buf))
    BY <1>6, Zenon DEF Direct
  <2> HIDE DEF n
  <2>3. SubSeq(buf, 1, n) \in Seq(Nat) /\ SubSeq(buf, n + 1, Len(buf)) \in Seq(Nat)
    BY <1>0, <2>1
  <2>4. txfifo' \in Seq(Nat) /\ Len(txfifo') <= SP_FIFO_SIZE /\ buf' \in Seq(Nat)
    BY <1>0, <2>2, <2>3, FillFacts, Zenon
  <2> QED
    BY <1>0, <1>6, <2>4, Zenon DEF Direct, rxVars
<1>7. CASE Enable
  <2>1. ier' = All /\ thre' \in BOOLEAN /\ wpc' \in {"idle", "cache"}
    BY <1>7, Zenon DEF Enable, NS16550_set_interrupt
  <2>2. ier' \subseteq {"rx", "tx"}
    BY <2>1, Zenon DEF All
  <2> QED
    BY <1>0, <1>7, <2>1, <2>2, Zenon DEF Enable, rxVars
<1>8. CASE Cache
  <2>1. Ring(TxData')
    BY <1>0, <1>8, EnqueuedAt, Zenon DEF Cache
  <2>2. buf' \in Seq(Nat)
    BY <1>8 DEF Cache
  <2> QED
    BY <1>0, <1>8, <2>1, <2>2, Zenon DEF Cache, Upset, rxVars
<1>9. CASE Read
  <2>1. PICK n \in ReadSizes : got' = got \o Front(RxData, n) /\ RxData' = dequeue_from_buffer(RxData, n)
    BY <1>9, Zenon DEF Read
  <2>2. n \in Nat
    BY UartConstants, Zenon
  <2>3. Ring(RxData')
    BY <1>0, <2>1, <2>2, Dequeued, Zenon
  <2>4. Front(RxData, n) \in Seq(Nat)
    BY <1>0, <2>2, FrontFacts, Zenon
  <2>5. got' \in Seq(Nat)
    BY <1>0, <2>1, <2>4, ConcatProperties, Zenon
  <2> QED
    BY <1>0, <1>9, <2>3, <2>5, Zenon DEF Read, txVars
<1>10. CASE UNCHANGED vars
  BY <1>0, <1>10, Zenon DEF vars
<1> QED
  BY <1>1, <1>2, <1>3, <1>4, <1>5, <1>6, <1>7, <1>8, <1>9, <1>10, Zenon DEF Next, Handler, Thread

\* The rings' heads, tails and counts agree and the FIFOs never hold more than
\* they have places for, whatever the chip and the thread do.
THEOREM RingsStaySound == Spec => []TypeOK
<1>1. TypeInv => TypeOK
  BY Zenon DEF TypeInv
<1> QED
  BY TypeInit, TypeStep, <1>1, PTL DEF Spec

-----------------------------------------------------------------------------
(* What comes in. *)

\* The bytes that are no longer on their way to the reader are the first ones.
First == arrived - RxData.Count - Len(rxfifo)

InOrder(s, f) == \A i \in 1..Len(s) : s[i] <= f /\ (i > 1 => s[i - 1] < s[i])

RxInv ==
    /\ First \in Nat /\ Holds(RxData, First)
    /\ rxfifo = Run(First + RxData.Count, Len(rxfifo))
    /\ InOrder(got, First)
    /\ arrived <= UART_BUF_SIZE => Len(got) = First

LEMMA RxInit == Init => RxInv
<1> SUFFICES ASSUME Init PROVE RxInv
  BY Zenon
<1>1. RxData.Count = 0 /\ rxfifo = <<>> /\ got = <<>> /\ arrived = 0 /\ Len(rxfifo) = 0 /\ Len(got) = 0
  BY EmptyRing, Zenon DEF Init
<1>2. First = 0
  <2>1. First = 0 - 0 - 0
    BY <1>1, Zenon DEF First
  <2> QED
    BY <2>1
<1>3. Run(0, 0) = <<>>
  BY RunFacts, Zenon
<1> QED
  BY <1>1, <1>2, <1>3, HoldsNone DEF RxInv, InOrder

LEMMA ArriveRx ==
    ASSUME TypeInv, RxInv, Arrive
    PROVE  RxInv'
<1> DEFINE k == RxData.Count
           L == Len(rxfifo)
           F == First
<1>1. /\ arrived' = arrived + 1 /\ rxfifo' = Append(rxfifo, arrived + 1)
      /\ RxData' = RxData /\ got' = got
  BY Zenon DEF Arrive
<1>2. rxfifo \in Seq(Nat) /\ arrived \in Nat /\ k \in Nat /\ L \in Nat /\ F \in Nat
  BY RingTypes DEF TypeInv, RxInv
<1>3. Len(rxfifo') = L + 1
  BY <1>1, <1>2, AppendProperties
<1>4. F = arrived - k - L /\ First' = arrived' - RxData'.Count - Len(rxfifo')
  BY Zenon DEF First
<1> HIDE DEF k, L, F
<1>5. First' = F
  BY <1>1, <1>2, <1>3, <1>4 DEF k
<1>6. F + k \in Nat /\ arrived + 1 = (F + k) + L + 1
  BY <1>2, <1>4
<1>7. rxfifo = Run(F + k, L)
  BY Zenon DEF RxInv, F, k, L
<1>8. rxfifo' = Run(F + k, L + 1)
  BY <1>1, <1>2, <1>6, <1>7, RunAppend, Zenon
<1>9. arrived' <= UART_BUF_SIZE => arrived <= UART_BUF_SIZE
  BY <1>1, <1>2, UartConstants
<1> QED
  BY <1>1, <1>2, <1>3, <1>5, <1>8, <1>9, Zenon DEF RxInv, F, k

LEMMA RoundRx ==
    ASSUME TypeInv, RxInv, Round
    PROVE  RxInv'
<1> DEFINE k == RxData.Count
           n == RxData'.Count
           L == Len(rxfifo)
           F == First
           N == UART_BUF_SIZE
<1>0. arrived' = arrived /\ got' = got
  BY Zenon DEF Round
<1>1. CASE ~RxPending
  <2>1. RxData' = RxData /\ rxfifo' = rxfifo
    BY <1>1, Zenon DEF Round
  <2>2. First' = First
    BY <1>0, <2>1, Zenon DEF First
  <2> QED
    BY <1>0, <2>1, <2>2, Zenon DEF RxInv
<1>2. CASE RxPending
  <2>1. RxData' = enqueue_to_buffer(RxData, rxfifo) /\ rxfifo' = <<>>
    BY <1>2, Zenon DEF Round
  <2>2. /\ rxfifo \in Seq(Nat) /\ arrived \in Nat /\ k \in Nat /\ L \in Nat /\ F \in Nat /\ N \in Nat
        /\ Ring(RxData) /\ Holds(RxData, F) /\ got \in Seq(Nat)
    BY RingTypes DEF TypeInv, TypeOK, RxInv
  <2>3. rxfifo = Run(F + k, L)
    BY Zenon DEF RxInv
  <2>4. F = arrived - k - L /\ First' = arrived' - RxData'.Count - Len(rxfifo')
    BY Zenon DEF First
  <2> HIDE DEF k, L, F, n
  <2>5. Ring(RxData') /\ n = Least(N, k + L) /\ Holds(RxData', F + k + L - n)
    <3>1. RxData' = enqueue_to_buffer(RxData, Run(F + RxData.Count, L))
      BY <2>1, <2>3, Zenon DEF k
    <3>2. /\ Ring(RxData') /\ RxData'.Count = Least(UART_BUF_SIZE, RxData.Count + L)
          /\ Holds(RxData', F + RxData.Count + L - RxData'.Count)
      BY <2>2, <3>1, EnqueuedRun
    <3> QED
      BY <3>2, Zenon DEF k, n
  <2> HIDE DEF N
  <2>6. n \in Nat /\ n <= k + L /\ (k + L <= N => n = k + L)
    BY <2>2, <2>5 DEF Least
  <2>7. Len(rxfifo') = 0
    BY <2>1, Zenon
  <2>8. First' = F + k + L - n
    BY <1>0, <2>2, <2>4, <2>6, <2>7 DEF n
  <2>9. First' \in Nat /\ F <= First'
    BY <2>2, <2>6, <2>8
  <2>10. rxfifo' = Run(First' + n, 0)
    <3>0. \A a, b \in Nat : a + b \in Nat
      OBVIOUS
    <3>1. First' + n \in Nat
      BY <2>6, <2>9, <3>0, Zenon
    <3> QED
      BY <2>1, <3>1, RunFacts, Zenon
  <2>11. InOrder(got, First')
    <3>1. \A i \in 1..Len(got) : got[i] \in Nat
      BY <2>2
    <3>2. InOrder(got, F)
      BY Zenon DEF RxInv, F
    <3> QED
      BY <2>2, <2>9, <3>1, <3>2 DEF InOrder
  <2>12. ASSUME arrived <= N PROVE Len(got) = First'
    <3>1. k + L <= N
      BY <2>2, <2>4, <2>12
    <3>2. First' = F
      BY <2>2, <2>6, <2>8, <3>1
    <3> QED
      BY <2>12, <3>2, Zenon DEF RxInv, F, N
  <2> QED
    BY <1>0, <2>5, <2>7, <2>8, <2>9, <2>10, <2>11, <2>12, Zenon DEF RxInv, n, N
<1> QED
  BY <1>1, <1>2, Zenon

LEMMA ReadRx ==
    ASSUME TypeInv, RxInv, Read
    PROVE  RxInv'
<1>1. PICK len \in ReadSizes : got' = got \o Front(RxData, len) /\ RxData' = dequeue_from_buffer(RxData, len)
  BY Zenon DEF Read
<1>2. len \in Nat
  BY UartConstants, Zenon
<1>3. arrived' = arrived /\ rxfifo' = rxfifo
  BY Zenon DEF Read
<1> DEFINE k == RxData.Count
           n == Least(len, k)
           L == Len(rxfifo)
           F == First
           G == Len(got)
<1>4. /\ arrived \in Nat /\ k \in Nat /\ L \in Nat /\ F \in Nat /\ Ring(RxData) /\ Holds(RxData, F)
      /\ got \in Seq(Nat) /\ G \in Nat
  BY RingTypes DEF TypeInv, TypeOK, RxInv
<1>5. n \in Nat /\ n <= k /\ Ring(RxData') /\ RxData'.Count = k - n /\ Holds(RxData', F + n)
  BY <1>1, <1>2, <1>4, Dequeued, Zenon
<1>6. Front(RxData, len) = Run(F, n)
  BY <1>2, <1>4, FrontFacts, Zenon
<1>7. rxfifo = Run(F + k, L) /\ InOrder(got, F)
  BY Zenon DEF RxInv
<1>8. F = arrived - k - L /\ First' = arrived' - RxData'.Count - Len(rxfifo')
  BY Zenon DEF First
<1>u. arrived <= UART_BUF_SIZE => G = F
  BY Zenon DEF RxInv
<1> HIDE DEF k, n, L, F, G
<1>9. First' = F + n
  BY <1>3, <1>4, <1>5, <1>8 DEF L
<1>10. First' \in Nat /\ First' + RxData'.Count = F + k
  BY <1>4, <1>5, <1>9
<1>11. Run(F, n) \in Seq(Nat) /\ Len(Run(F, n)) = n /\ \A i \in 1..n : Run(F, n)[i] = F + i
  BY <1>4, <1>5, RunFacts, Zenon
<1>12. /\ Len(got') = G + n
       /\ \A i \in 1..(G + n) : got'[i] = IF i <= G THEN got[i] ELSE Run(F, n)[i - G]
  BY <1>1, <1>4, <1>6, <1>11, ConcatProperties DEF G
<1>13. \A i \in 1..G : got'[i] = got[i] /\ got[i] \in Nat /\ got[i] <= F
  BY <1>4, <1>5, <1>7, <1>12 DEF InOrder, G
<1>14. ASSUME NEW i \in 1..(G + n), i > G PROVE got'[i] = F + (i - G)
  <2>1. i - G \in 1..n
    BY <1>4, <1>5, <1>14
  <2> QED
    BY <1>4, <1>11, <1>12, <1>14, <2>1
<1>15. ASSUME NEW i \in 1..(G + n) PROVE got'[i] <= F + n /\ (i > 1 => got'[i - 1] < got'[i])
  <2>1. CASE i <= G
    <3>1. i \in 1..G /\ (i > 1 => i - 1 \in 1..G)
      BY <1>4, <2>1
    <3>2. i > 1 => got[i - 1] < got[i]
      BY <1>7, <3>1, Zenon DEF InOrder, G
    <3> QED
      BY <1>4, <1>5, <1>13, <3>1, <3>2
  <2>2. CASE i > G
    <3>1. got'[i] = F + (i - G) /\ i - G >= 1 /\ i - G <= n
      BY <1>4, <1>5, <1>14, <2>2
    <3>2. CASE i - 1 > G
      <4>1. i - 1 \in 1..(G + n)
        BY <1>4, <1>5, <3>2
      <4>2. got'[i - 1] = F + ((i - 1) - G)
        BY <1>14, <3>2, <4>1, Zenon
      <4> QED
        BY <1>4, <1>5, <3>1, <4>2
    <3>3. CASE ~(i - 1 > G) /\ i > 1
      <4>1. i - 1 \in 1..G
        BY <1>4, <2>2, <3>3
      <4>2. got'[i - 1] \in Nat /\ got'[i - 1] <= F
        BY <1>13, <4>1, Zenon
      <4> QED
        BY <1>4, <1>5, <3>1, <4>2
    <3>4. CASE ~(i > 1)
      BY <1>4, <1>5, <3>1, <3>4
    <3> QED
      BY <3>2, <3>3, <3>4, Zenon
  <2> QED
    BY <1>4, <2>1, <2>2
<1>16. InOrder(got', First')
  BY <1>9, <1>12, <1>15, Zenon DEF InOrder
<1>17. arrived' <= UART_BUF_SIZE => Len(got') = First'
  BY <1>u, <1>3, <1>9, <1>12, Zenon
<1> QED
  BY <1>3, <1>5, <1>7, <1>9, <1>10, <1>16, <1>17, Zenon DEF RxInv, L

LEMMA RxStep ==
    ASSUME TypeInv, RxInv, [Next]_vars
    PROVE  RxInv'
<1>1. CASE UNCHANGED rxVars
  BY <1>1, Zenon DEF rxVars, RxInv, First
<1>2. Shift \/ Enter \/ Write \/ Direct \/ Enable \/ Cache \/ UNCHANGED vars => UNCHANGED rxVars
  BY Zenon DEF Shift, Enter, Write, Direct, Enable, Cache, vars, rxVars
<1> QED
  BY <1>1, <1>2, ArriveRx, RoundRx, ReadRx, Zenon DEF Next, Handler, Thread

\* What waits to be read is the newest that came in, in order and without a gap;
\* the reader has had only older bytes, in order, and all of them as long as no
\* more came in than the ring holds.
THEOREM NewestIsKept == Spec => []RxNewest
<1>1. ASSUME TypeInv, RxInv PROVE RxNewest
  <2> DEFINE k == RxData.Count
             L == Len(rxfifo)
             F == First
             s == Contents(RxData) \o rxfifo
  <2>1. k \in Nat /\ L \in Nat /\ F \in Nat /\ Ring(RxData) /\ Holds(RxData, F) /\ arrived \in Nat
    BY <1>1, RingTypes DEF TypeInv, RxInv
  <2>2. Contents(RxData) = Run(F, k)
    BY <2>1, FrontFacts, Zenon DEF Contents, Least
  <2>3. rxfifo = Run(F + k, L)
    BY <1>1, Zenon DEF RxInv
  <2>7. F = arrived - (k + L)
    BY <2>1 DEF First
  <2> HIDE DEF k, L, F
  <2>4. s = Run(F, k + L)
    <3>1. s = Run(F, k) \o Run(F + k, L)
      BY <2>2, <2>3, Zenon
    <3> QED
      BY <2>1, <3>1, RunConcat, Zenon
  <2>5. k + L \in Nat
    BY <2>1
  <2>6. Len(s) = k + L /\ \A i \in 1..(k + L) : s[i] = F + i
    BY <2>1, <2>4, <2>5, RunFacts
  <2> HIDE DEF s
  <2>8. arrived - Len(s) = F
    BY <2>6, <2>7, Zenon
  <2> QED
    BY <1>1, <2>6, <2>8, Zenon DEF RxNewest, RxInv, InOrder, s, F
<1>2. Init => TypeInv /\ RxInv
  BY TypeInit, RxInit, Zenon
<1>3. TypeInv /\ RxInv /\ [Next]_vars => (TypeInv /\ RxInv)'
  BY TypeStep, RxStep, Zenon
<1> QED
  BY <1>1, <1>2, <1>3, PTL DEF Spec

-----------------------------------------------------------------------------
(* What goes out. *)

\* Who may act: while the thread writes nothing comes in and the handler rests;
\* it writes to the chip only when ring and FIFO are empty.  As long as the ring
\* has bytes, and as long as the FIFO has once the thread is past enabling it,
\* the transmit interrupt is on; with the FIFO empty it is pending.
FlowInv ==
    /\ wpc # "idle" => isr = "off" /\ rxfifo = <<>>
    /\ wpc \in {"direct", "enable"} => TxData.Count = 0
    /\ wpc = "direct" <=> txfifo = <<>> /\ wpc # "idle"
    /\ wpc \in {"direct", "cache"} => buf # <<>>
    /\ wpc = "idle" => buf = <<>>
    /\ "rx" \in ier /\ (thre => txfifo = <<>>)
    /\ rxfifo # <<>> => txfifo = <<>> /\ TxData.Count = 0
    /\ isr = "none" => txfifo = <<>>
    /\ txfifo # <<>> /\ wpc # "enable" => "tx" \in ier
    /\ TxData.Count > 0 => "tx" \in ier /\ (txfifo = <<>> => thre)

\* The first a bytes are out, b more are in the FIFO, then come those of the
\* ring, and the thread has the last w.
Lined(a, b, w) ==
    /\ line = Run(0, a) /\ txfifo = Run(a, b) /\ Holds(TxData, a + b)
    /\ buf = Run(a + b + TxData.Count, w) /\ written = a + b + TxData.Count + w

OrderInv == \E a, b, w \in Nat : Lined(a, b, w)

TxInv == upset = {} => FlowInv /\ OrderInv

Undisturbed == TypeInv /\ FlowInv /\ OrderInv /\ upset' = {}

\* What fits into the empty FIFO is there.
LEMMA FillRun ==
    ASSUME txfifo = <<>>, NEW f \in Nat, NEW n \in Nat, n <= SP_FIFO_SIZE
    PROVE  Fill(Run(f, n)) = Run(f, n)
<1> DEFINE s == Run(f, n)
<1>1. s \in Seq(Nat) /\ Len(s) = n
  BY RunFacts, Zenon
<1>2. <<>> \o s = s
  BY <1>1, ConcatEmptySeq, Zenon
<1>3. Least(n, SP_FIFO_SIZE) = n
  BY UartConstants DEF Least
<1>5. SubSeq(s, 1, n) = s
  <2>1. n <= n
    OBVIOUS
  <2> QED
    BY <2>1, RunCut, Zenon
<1>6. Fill(s) = SubSeq(s, 1, n)
  BY <1>1, <1>2, <1>3, Zenon DEF Fill
<1> QED
  BY <1>5, <1>6, Zenon

LEMMA TxInit == Init => TxInv
<1> SUFFICES ASSUME Init PROVE FlowInv /\ OrderInv
  BY Zenon DEF TxInv
<1>1. TxData.Count = 0
  BY EmptyRing, Zenon DEF Init
<1>2. FlowInv
  BY <1>1 DEF Init, FlowInv
<1>3. Run(0, 0) = <<>>
  BY RunFacts, Zenon
<1>4. Holds(TxData, 0 + 0)
  BY <1>1, HoldsNone, Zenon
<1>5. 0 + 0 + TxData.Count = 0 /\ 0 + 0 + TxData.Count + 0 = 0
  BY <1>1
<1>6. Lined(0, 0, 0)
  BY <1>3, <1>4, <1>5, Zenon DEF Init, Lined
<1> QED
  BY <1>2, <1>6, Zenon DEF OrderInv

LEMMA ShiftTx ==
    ASSUME Undisturbed, Shift
    PROVE  FlowInv' /\ OrderInv'
<1>1. /\ txfifo # <<>> /\ txfifo' = Tail(txfifo) /\ line' = Append(line, Head(txfifo))
      /\ thre' = (Len(txfifo) = 1) /\ wpc = "idle"
      /\ TxData' = TxData /\ rxfifo' = rxfifo
      /\ UNCHANGED <<ier, isr, wpc, buf, written>>
  BY Zenon DEF Shift, Upset, rxVars, Undisturbed
<1>2. PICK a, b, w \in Nat : Lined(a, b, w)
  BY Zenon DEF Undisturbed, OrderInv
<1>3. txfifo = Run(a, b) /\ line = Run(0, a)
  BY <1>2, Zenon DEF Lined
<1>4. b > 0 /\ Len(txfifo) = b
  BY <1>1, <1>3, RunFacts
<1>5. Head(txfifo) = a + 1 /\ txfifo' = Run(a + 1, b - 1)
  BY <1>1, <1>3, <1>4, RunTail, Zenon
<1>6. b - 1 \in Nat /\ a + 1 \in Nat /\ (txfifo' = <<>> <=> thre')
  <2>1. b - 1 \in Nat /\ a + 1 \in Nat
    BY <1>4
  <2>2. txfifo' = <<>> <=> b - 1 = 0
    BY <1>5, <2>1, RunFacts, Zenon
  <2>3. b - 1 = 0 <=> b = 1
    BY <1>4
  <2> QED
    BY <1>1, <1>4, <2>1, <2>2, <2>3, Zenon
<1>7. FlowInv'
  BY <1>1, <1>6, Zenon DEF FlowInv, Undisturbed
<1>8. line' = Run(0, a + 1)
  <2>1. Append(Run(0, a), 0 + a + 1) = Run(0, a + 1)
    BY RunAppend, Zenon
  <2>2. 0 + a + 1 = a + 1
    OBVIOUS
  <2> QED
    BY <1>1, <1>3, <1>5, <2>1, <2>2, Zenon
<1>9. (a + 1) + (b - 1) = a + b
  OBVIOUS
<1>10. Lined(a + 1, b - 1, w)'
  BY <1>1, <1>2, <1>5, <1>8, <1>9, Zenon DEF Lined
<1> QED
  BY <1>6, <1>7, <1>10, Zenon DEF OrderInv

LEMMA ArriveTx ==
    ASSUME Undisturbed, Arrive
    PROVE  FlowInv' /\ OrderInv'
<1>1. /\ wpc = "idle" /\ txfifo = <<>> /\ ~(TxData.Count > 0)
      /\ UNCHANGED <<TxData, txfifo, thre, line, ier, isr, wpc, buf, written>>
  BY Zenon DEF Arrive, Upset, txVars, THOLD, Undisturbed
<1>2. TxData.Count = 0
  BY <1>1, RingTypes DEF Undisturbed, TypeInv
<1>3. FlowInv'
  BY <1>1, <1>2, Zenon DEF FlowInv, Undisturbed
<1>4. OrderInv'
  BY <1>1, Zenon DEF OrderInv, Lined, Undisturbed
<1> QED
  BY <1>3, <1>4, Zenon

LEMMA EnterTx ==
    ASSUME Undisturbed, Enter
    PROVE  FlowInv' /\ OrderInv'
<1>1. /\ wpc = "idle" /\ isr' = "none" /\ (RxPending \/ TxPending)
      /\ UNCHANGED <<TxData, txfifo, thre, line, rxfifo, ier, wpc, buf, written>>
  BY Zenon DEF Enter, Upset, txVars, rxVars, Undisturbed
<1>2. txfifo = <<>>
  BY <1>1, Zenon DEF FlowInv, RxPending, TxPending, Undisturbed
<1>3. FlowInv'
  BY <1>1, <1>2, Zenon DEF FlowInv, Undisturbed
<1>4. OrderInv'
  BY <1>1, Zenon DEF OrderInv, Lined, Undisturbed
<1> QED
  BY <1>3, <1>4, Zenon

LEMMA ReadTx ==
    ASSUME Undisturbed, Read
    PROVE  FlowInv' /\ OrderInv'
<1>1. UNCHANGED <<TxData, txfifo, thre, line, rxfifo, ier, isr, wpc, buf, written>>
  BY Zenon DEF Read, txVars
<1>2. FlowInv'
  BY <1>1, Zenon DEF FlowInv, Undisturbed
<1>3. OrderInv'
  BY <1>1, Zenon DEF OrderInv, Lined, Undisturbed
<1> QED
  BY <1>2, <1>3, Zenon

\* Sending moves bytes from the ring to the empty FIFO.
LEMMA RoundOrder ==
    ASSUME Undisturbed, Round
    PROVE  /\ OrderInv'
           /\ TxData.Count > 0 /\ txfifo = <<>> => txfifo' # <<>>
<1> DEFINE k == TxData.Count
<1>0. UNCHANGED <<line, buf, written>>
  BY Zenon DEF Round
<1>1. CASE ~(k > 0 /\ THOLD)
  <2>1. TxData' = TxData /\ txfifo' = txfifo
    BY <1>1, Zenon DEF Round
  <2>2. OrderInv'
    BY <1>0, <2>1, Zenon DEF OrderInv, Lined, Undisturbed
  <2> QED
    BY <1>1, <2>2, Zenon DEF THOLD
<1>2. CASE k > 0 /\ THOLD
  <2>1. /\ txfifo' = Fill(Front(TxData, SP_FIFO_SIZE))
        /\ TxData' = dequeue_from_buffer(TxData, SP_FIFO_SIZE)
    BY <1>2, Zenon DEF Round
  <2>2. PICK a, b, w \in Nat : Lined(a, b, w)
    BY Zenon DEF Undisturbed, OrderInv
  <2>3. txfifo = <<>> /\ txfifo = Run(a, b)
    BY <1>2, <2>2, Zenon DEF Lined, THOLD
  <2>4. b = 0
    BY <2>3, RunFacts, Zenon
  <2>5. /\ line = Run(0, a) /\ Holds(TxData, a + b)
        /\ buf = Run(a + b + k, w) /\ written = a + b + k + w
    BY <2>2, Zenon DEF Lined
  <2>6. a + b = a
    BY <2>4
  <2> DEFINE n == Least(SP_FIFO_SIZE, k)
  <2>7. Ring(TxData) /\ k \in Nat /\ SP_FIFO_SIZE \in Nat \ {0}
    BY RingTypes, UartConstants, Zenon DEF Undisturbed, TypeInv
  <2>8. /\ n \in Nat /\ n <= k /\ n <= SP_FIFO_SIZE /\ TxData'.Count = k - n
        /\ Holds(TxData', a + n)
    BY <2>1, <2>5, <2>6, <2>7, Dequeued, Zenon
  <2>9. Front(TxData, SP_FIFO_SIZE) = Run(a, n)
    BY <2>5, <2>6, <2>7, FrontFacts, Zenon
  <2>10. n > 0
    BY <1>2, <2>7 DEF Least
  <2> HIDE DEF n, k
  <2>11. PICK m \in Nat : m = n
    BY <2>8, Zenon
  <2>12. txfifo' = Run(a, m)
    BY <2>1, <2>3, <2>8, <2>9, <2>11, FillRun, Zenon
  <2>13. txfifo' # <<>>
    BY <2>10, <2>11, <2>12, RunFacts
  <2>14. a + m + (k - m) = a + k
    BY <2>7
  <2>15. Lined(a, m, w)'
    BY <1>0, <2>5, <2>6, <2>8, <2>11, <2>12, <2>14, Zenon DEF Lined
  <2> QED
    BY <2>13, <2>15, Zenon DEF OrderInv
<1> QED
  BY <1>1, <1>2, Zenon

LEMMA RoundTx ==
    ASSUME Undisturbed, Round
    PROVE  FlowInv' /\ OrderInv'
<1> DEFINE sends == TxData.Count > 0 /\ THOLD
<1>0. FlowInv /\ isr \in {"none", "some"} /\ isr # "off" /\ RxPending = (rxfifo # <<>>)
  BY Zenon DEF Undisturbed, TypeInv, TypeOK, Round, FlowInv, RxPending
<1>1. wpc = "idle" /\ buf = <<>> /\ UNCHANGED <<wpc, buf>>
  BY <1>0, Zenon DEF FlowInv, Round
<1>2. rxfifo' = <<>>
  BY <1>0, Zenon DEF Round
<1>3. OrderInv' /\ (sends => txfifo' # <<>>)
  BY RoundOrder, Zenon DEF THOLD
<1>4. ~sends => TxData' = TxData /\ txfifo' = txfifo
  BY Zenon DEF Round
<1>5. /\ ier' = (IF sends \/ isr = "some" THEN All ELSE AllButTx)
      /\ thre' => txfifo' = <<>>
      /\ isr' = "none" => ~sends /\ isr = "none"
  BY <1>0, Zenon DEF Round, NextMask, NS16550_set_interrupt
<1>6. "rx" \in ier' /\ ((sends \/ isr = "some") => "tx" \in ier')
  BY <1>5, Zenon DEF All, AllButTx
<1>7. isr' = "none" => txfifo' = <<>>
  BY <1>0, <1>4, <1>5, Zenon DEF FlowInv
<1>8. ~sends /\ txfifo # <<>> => isr = "some"
  BY <1>0, Zenon DEF FlowInv
<1>9. txfifo' # <<>> => "tx" \in ier'
  BY <1>4, <1>6, <1>8, Zenon
<1>10. TxData'.Count > 0 => txfifo' # <<>>
  BY <1>3, <1>4, Zenon DEF THOLD
<1>11. FlowInv'
  BY <1>1, <1>2, <1>5, <1>6, <1>7, <1>9, <1>10, Zenon DEF FlowInv
<1> QED
  BY <1>3, <1>11, Zenon

\* With nothing pending, the transmitter is idle only if the ring is empty too.
LEMMA IdleMeansSent ==
    ASSUME Undisturbed, Runs
    PROVE  isr = "off" /\ rxfifo = <<>> /\ (txfifo = <<>> => TxData.Count = 0)
<1>1. isr = "off" /\ rxfifo = <<>> /\ (txfifo = <<>> => ~(TxData.Count > 0))
  BY Zenon DEF Undisturbed, FlowInv, Runs, RxPending, TxPending
<1>2. TxData.Count \in Nat
  BY RingTypes, Zenon DEF Undisturbed, TypeInv
<1> QED
  BY <1>1, <1>2

LEMMA WriteTx ==
    ASSUME Undisturbed, Write
    PROVE  FlowInv' /\ OrderInv'
<1>1. PICK n \in WriteSizes : written' = written + n /\ buf' = [i \in 1..n |-> written + i]
  BY Zenon DEF Write
<1>2. n \in Nat /\ n > 0
  BY UartConstants
<1>3. /\ wpc = "idle" /\ Runs /\ wpc' = (IF txfifo = <<>> THEN "direct" ELSE "cache")
      /\ UNCHANGED <<TxData, txfifo, thre, line, rxfifo, ier, isr>>
  BY Zenon DEF Write, txVars, rxVars, THOLD
<1>4. written \in Nat /\ TxData.Count \in Nat
  BY RingTypes, Zenon DEF Undisturbed, TypeInv
<1>5. buf' = Run(written, n)
  BY <1>1, Zenon DEF Run
<1>6. buf' # <<>>
  BY <1>2, <1>4, <1>5, RunFacts
<1>7. isr = "off" /\ rxfifo = <<>> /\ (txfifo = <<>> => TxData.Count = 0)
  BY <1>3, IdleMeansSent, Zenon
<1>8. FlowInv'
  <2>1. CASE txfifo = <<>>
    BY <1>3, <1>6, <1>7, <2>1, Zenon DEF FlowInv, Undisturbed
  <2>2. CASE txfifo # <<>>
    BY <1>3, <1>6, <1>7, <2>2, Zenon DEF FlowInv, Undisturbed
  <2> QED
    BY <2>1, <2>2, Zenon
<1>9. PICK a, b, w \in Nat : Lined(a, b, w)
  BY Zenon DEF Undisturbed, OrderInv
<1>10. buf = <<>> /\ buf = Run(a + b + TxData.Count, w) /\ written = a + b + TxData.Count + w
  BY <1>3, <1>9, Zenon DEF FlowInv, Undisturbed, Lined
<1>11. a + b + TxData.Count \in Nat
  BY <1>4
<1>12. w = 0
  BY <1>10, <1>11, RunFacts, Zenon
<1>13. written = a + b + TxData.Count
  BY <1>4, <1>10, <1>12
<1>14. Lined(a, b, n)'
  BY <1>1, <1>3, <1>5, <1>9, <1>13, Zenon DEF Lined
<1> QED
  BY <1>2, <1>8, <1>14, Zenon DEF OrderInv

LEMMA DirectTx ==
    ASSUME Undisturbed, Direct
    PROVE  FlowInv' /\ OrderInv'
<1>1. PICK n : n = Least(Len(buf), SP_FIFO_SIZE)
  BY Zenon
<1>2. /\ wpc = "direct" /\ wpc' = "enable" /\ thre' = FALSE
      /\ txfifo' = Fill(SubSeq(buf, 1, n)) /\ buf' = SubSeq(buf, n + 1, Len(buf))
      /\ UNCHANGED <<TxData, line, rxfifo, ier, isr, written>>
  BY <1>1, Zenon DEF Direct, rxVars
<1>3. TxData.Count = 0 /\ txfifo = <<>> /\ buf # <<>>
  BY <1>2, Zenon DEF FlowInv, Undisturbed
<1>4. PICK a, b, w \in Nat : Lined(a, b, w)
  BY Zenon DEF Undisturbed, OrderInv
<1>5. /\ txfifo = Run(a, b) /\ line = Run(0, a)
      /\ buf = Run(a + b + TxData.Count, w) /\ written = a + b + TxData.Count + w
  BY <1>4, Zenon DEF Lined
<1>6. b = 0
  BY <1>3, <1>5, RunFacts, Zenon
<1>7. a + b + TxData.Count = a
  BY <1>3, <1>6
<1>8. buf = Run(a, w) /\ written = a + w
  BY <1>5, <1>7, Zenon
<1>9. Len(buf) = w /\ w > 0
  BY <1>3, <1>8, RunFacts
<1>10. n \in Nat /\ n > 0 /\ n <= w /\ n <= SP_FIFO_SIZE
  BY <1>1, <1>9, UartConstants DEF Least
<1>11. SubSeq(buf, 1, n) = Run(a, n) /\ SubSeq(buf, n + 1, w) = Run(a + n, w - n)
  BY <1>8, <1>10, RunCut, Zenon
<1>12. txfifo' = Run(a, n)
  BY <1>2, <1>3, <1>10, <1>11, FillRun, Zenon
<1>13. txfifo' # <<>>
  BY <1>10, <1>12, RunFacts
<1>14. buf' = Run(a + n, w - n)
  BY <1>2, <1>9, <1>11, Zenon
<1>15. FlowInv'
  BY <1>2, <1>3, <1>13, Zenon DEF FlowInv, Undisturbed
<1>16. Lined(a, n, w - n)'
  <2>1. TxData'.Count = 0 /\ Holds(TxData', a + n)
    BY <1>2, <1>3, HoldsNone, Zenon
  <2>2. a + n + 0 = a + n /\ a + n + 0 + (w - n) = a + w
    BY <1>10
  <2> QED
    BY <1>2, <1>5, <1>8, <1>12, <1>14, <2>1, <2>2, Zenon DEF Lined
<1>17. w - n \in Nat
  BY <1>10
<1> QED
  BY <1>10, <1>15, <1>16, <1>17, Zenon DEF OrderInv

LEMMA EnableTx ==
    ASSUME Undisturbed, Enable
    PROVE  FlowInv' /\ OrderInv'
<1>1. /\ wpc = "enable" /\ wpc' = (IF buf = <<>> THEN "idle" ELSE "cache")
      /\ ier' = All /\ (thre' => txfifo' = <<>>)
      /\ UNCHANGED <<txfifo, TxData, line, rxfifo, isr, buf, written>>
  BY Zenon DEF Enable, NS16550_set_interrupt, rxVars
<1>2. "rx" \in ier' /\ "tx" \in ier'
  BY <1>1, Zenon DEF All
<1>3. TxData.Count = 0 /\ txfifo # <<>> /\ isr = "off" /\ rxfifo = <<>>
  BY <1>1, Zenon DEF FlowInv, Undisturbed
<1>4. FlowInv'
  <2>1. CASE buf = <<>>
    BY <1>1, <1>2, <1>3, <2>1, Zenon DEF FlowInv
  <2>2. CASE buf # <<>>
    BY <1>1, <1>2, <1>3, <2>2, Zenon DEF FlowInv
  <2> QED
    BY <2>1, <2>2, Zenon
<1>5. OrderInv'
  BY <1>1, Zenon DEF OrderInv, Lined, Undisturbed
<1> QED
  BY <1>4, <1>5, Zenon

LEMMA CacheTx ==
    ASSUME Undisturbed, Cache
    PROVE  FlowInv' /\ OrderInv'
<1> DEFINE k == TxData.Count
<1>1. /\ wpc = "cache" /\ wpc' = "idle" /\ buf' = <<>>
      /\ TxData' = enqueue_to_buffer(TxData, buf) /\ ~(k + Len(buf) > UART_BUF_SIZE)
      /\ UNCHANGED <<txfifo, thre, line, rxfifo, ier, isr, written>>
  BY Zenon DEF Cache, Upset, rxVars, Undisturbed
<1>2. txfifo # <<>> /\ "tx" \in ier
  BY <1>1, Zenon DEF FlowInv, Undisturbed
<1>3. FlowInv'
  BY <1>1, <1>2, Zenon DEF FlowInv, Undisturbed
<1>4. PICK a, b, w \in Nat : Lined(a, b, w)
  BY Zenon DEF Undisturbed, OrderInv
<1>5. /\ txfifo = Run(a, b) /\ line = Run(0, a) /\ Holds(TxData, a + b)
      /\ buf = Run(a + b + k, w) /\ written = a + b + k + w
  BY <1>4, Zenon DEF Lined
<1>6. Ring(TxData) /\ k \in Nat /\ UART_BUF_SIZE \in Nat
  BY RingTypes, Zenon DEF Undisturbed, TypeInv
<1>7. a + b \in Nat /\ a + b + k \in Nat
  BY <1>6
<1>8. Len(buf) = w
  BY <1>5, <1>7, RunFacts, Zenon
<1>9. /\ Ring(TxData') /\ TxData'.Count = Least(UART_BUF_SIZE, TxData.Count + w)
      /\ Holds(TxData', a + b + TxData.Count + w - TxData'.Count)
  <2>1. TxData' = enqueue_to_buffer(TxData, Run(a + b + TxData.Count, w))
    BY <1>1, <1>5, Zenon
  <2> QED
    BY <1>5, <1>6, <1>7, <2>1, EnqueuedRun
<1> HIDE DEF k
<1>10. TxData'.Count = k + w
  BY <1>1, <1>6, <1>8, <1>9, Zenon DEF Least, k
<1>11. a + b + k + w - (k + w) = a + b /\ a + b + (k + w) \in Nat /\ a + b + (k + w) + 0 = a + b + k + w
  BY <1>6
<1>12. Holds(TxData', a + b)
  BY <1>9, <1>10, <1>11, Zenon DEF k
<1>13. buf' = Run(a + b + (k + w), 0)
  BY <1>1, <1>11, RunFacts, Zenon
<1>14. Lined(a, b, 0)'
  BY <1>1, <1>5, <1>10, <1>11, <1>12, <1>13, Zenon DEF Lined
<1> QED
  BY <1>3, <1>14, Zenon DEF OrderInv

LEMMA TxStep ==
    ASSUME TypeInv, TxInv, [Next]_vars
    PROVE  TxInv'
<1> SUFFICES ASSUME upset' = {} PROVE FlowInv' /\ OrderInv'
  BY Zenon DEF TxInv
<1>1. upset = {}
  BY Zenon DEF Next, Handler, Thread, Shift, Arrive, Enter, Round, Write, Direct, Enable, Cache, Read, Upset, vars
<1>2. Undisturbed
  BY <1>1, Zenon DEF Undisturbed, TxInv
<1>3. CASE UNCHANGED vars
  <2>1. UNCHANGED <<TxData, txfifo, thre, line, rxfifo, ier, isr, wpc, buf, written>>
    BY <1>3, Zenon DEF vars
  <2> QED
    BY <1>2, <2>1, Zenon DEF FlowInv, OrderInv, Lined, Undisturbed
<1> QED
  BY <1>2, <1>3, ShiftTx, ArriveTx, EnterTx, RoundTx, WriteTx, DirectTx, EnableTx, CacheTx, ReadTx, Zenon
     DEF Next, Handler, Thread

\* Bytes go out in the order in which they were written, and none is lost or
\* doubled on the way through ring and FIFO, as long as the ring never ran over
\* and chip and thread never got into each other's way.
THEOREM SentInOrder == Spec => []TxInOrder
<1>1. ASSUME TypeInv, TxInv PROVE TxInOrder
  <2> SUFFICES ASSUME upset = {}
               PROVE  line \o txfifo \o Contents(TxData) \o buf = [i \in 1..written |-> i]
    BY Zenon DEF TxInOrder
  <2>1. PICK a, b, w \in Nat : Lined(a, b, w)
    BY <1>1, Zenon DEF TxInv, OrderInv
  <2> DEFINE k == TxData.Count
  <2>2. Ring(TxData) /\ k \in Nat
    BY <1>1, RingTypes, Zenon DEF TypeInv
  <2>3. /\ line = Run(0, a) /\ txfifo = Run(a, b) /\ Holds(TxData, a + b)
        /\ buf = Run(a + b + k, w) /\ written = a + b + k + w
    BY <2>1, Zenon DEF Lined
  <2>4. a + b \in Nat /\ a + b + k \in Nat /\ 0 \in Nat
    BY <2>2
  <2>5. Contents(TxData) = Run(a + b, k)
    BY <2>2, <2>3, <2>4, FrontFacts, Zenon DEF Contents, Least
  <2> HIDE DEF k
  <2>z. 0 + a = a /\ 0 + (a + b) = a + b /\ 0 + (a + b + k) = a + b + k
    BY <2>2
  <2>6. line \o txfifo = Run(0, a + b)
    <3>1. Run(0, a) \o Run(0 + a, b) = Run(0, a + b)
      BY <2>4, RunConcat, Zenon
    <3> QED
      BY <2>3, <2>z, <3>1, Zenon
  <2>7. line \o txfifo \o Contents(TxData) = Run(0, a + b + k)
    <3>1. Run(0, a + b) \o Run(0 + (a + b), k) = Run(0, a + b + k)
      BY <2>2, <2>4, RunConcat, Zenon
    <3> QED
      BY <2>5, <2>6, <2>z, <3>1, Zenon
  <2>8. line \o txfifo \o Contents(TxData) \o buf = Run(0, a + b + k + w)
    <3>1. Run(0, a + b + k) \o Run(0 + (a + b + k), w) = Run(0, a + b + k + w)
      BY <2>4, RunConcat, Zenon
    <3> QED
      BY <2>3, <2>7, <2>z, <3>1, Zenon
  <2>9. written \in Nat
    BY <1>1, Zenon DEF TypeInv
  <2>10. Run(0, written) = [i \in 1..written |-> i]
    BY <2>9 DEF Run
  <2> QED
    BY <2>3, <2>8, <2>10, Zenon
<1>2. Init => TypeInv /\ TxInv
  BY TypeInit, TxInit, Zenon
<1>3. TypeInv /\ TxInv /\ [Next]_vars => (TypeInv /\ TxInv)'
  BY TypeStep, TxStep, Zenon
<1> QED
  BY <1>1, <1>2, <1>3, PTL DEF Spec
=============================================================================
