---------------------------- MODULE FileLogProofs ---------------------------
(***************************************************************************)
(* What the log keeps through power failures, for every number of them,    *)
(* every content of uninitialised memory and every capacity of the queues. *)
(***************************************************************************)
EXTENDS FileLog, SequenceTheorems, TLAPS

TotalsOf(p) == [mark |-> 3, total |-> p.total, qualified |-> p.qualified_amount]
InfoMsg(p) == [op |-> 1, date |-> ZeroDate,
               log |-> [mark |-> 1, total |-> p.total, qualified |-> p.qualified_amount]]
DateMsg(p) == [op |-> 2, log |-> ZeroTotals, date |-> p.date]

\* The thread's report on the log, message 2 or 3, is not in main_mq; or it is
\* there once at most, and is still right.
NoReport == \A i \in 1..Len(main_mq) : main_mq[i].op = 5
StillRight(m) ==
    \/ m.op = 5
    \/ m.op = 2 /\ ~Marked
    \/ m.op = 3 /\ (Len(file) = 2 => <<m.log, m.date>> = file)
OneReport ==
    /\ \A i \in 1..Len(main_mq) : StillRight(main_mq[i])
    /\ \A i, j \in 1..Len(main_mq) : main_mq[i].op # 5 /\ main_mq[j].op # 5 => i = j

\* The totals of p are on their way to a log without a mark.
Filling(p) ==
    /\ ~Marked
    /\ \/ fpc = "recv" /\ file_mq \in {<<InfoMsg(p)>>, <<InfoMsg(p), DateMsg(p)>>}
       \/ /\ fpc \in {"openinfo", "writeinfo"}
          /\ file_mq \in {<<>>, <<DateMsg(p)>>} /\ rbuf[1] = TotalsOf(p)

\* Only the date of p is: the totals were written, unless that failed.
Dating(p) ==
    /\ IF Marked THEN file[1] = TotalsOf(p) ELSE "open" \in mishaps
    /\ \/ fpc = "recv" /\ file_mq = <<DateMsg(p)>>
       \/ fpc \in {"opendate", "writedate"} /\ file_mq = <<>> /\ rbuf[2] = p.date

\* In one session the log is reported once, and filled at most once after that.
Stage ==
    \/ fpc \in {"start", "create", "zero", "read", "ended"} /\ file_mq = <<>> /\ NoReport
    \/ fpc = "recv" /\ file_mq = <<>> /\ OneReport
    \/ NoReport /\ \E p \in filled : Filling(p) \/ Dating(p)

\* The log is empty until the directory was made, and its date blank until the
\* first totals are written.
Disk ==
    /\ ~dir => file = <<>> /\ fpc \in {"start", "ended"}
    /\ fpc \in {"create", "zero"} => file = <<>>
    /\ LogIsSnapshot
    /\ "open" \notin mishaps /\ ~Marked /\ Len(file) = 2 => file[2] = ZeroDate

IInv == TypeOK /\ Stage /\ Disk

-----------------------------------------------------------------------------
(* Files and messages.                                                     *)

FileOK(s) == s = <<>> \/ (Len(s) = 1 /\ s \in Seq(Totals)) \/ s \in Totals \X DateType

\* A log file has none to two halves, of these types.
LEMMA FileShape ==
    ASSUME NEW s, FileOK(s)
    PROVE  /\ Len(s) \in 0..2
           /\ (s = <<>>) <=> (Len(s) = 0)
           /\ Len(s) > 0 => s[1] \in Totals
           /\ Len(s) = 2 => s[2] \in DateType /\ s = <<s[1], s[2]>>
           /\ Len(s) = 1 => s = <<s[1]>>
BY DEF FileOK

\* Reading a file into a buffer gives a buffer.
LEMMA ReadType ==
    ASSUME NEW s, FileOK(s), NEW b \in Totals \X DateType
    PROVE  /\ Read(s, b) \in Totals \X DateType
           /\ Len(s) > 0 => Read(s, b)[1] = s[1]
           /\ Len(s) = 2 => Read(s, b) = s
<1>1. Read(s, b) = <<IF 1 <= Len(s) THEN s[1] ELSE b[1], IF 2 <= Len(s) THEN s[2] ELSE b[2]>>
  BY DEF Read
<1>2. b[1] \in Totals /\ b[2] \in DateType
  OBVIOUS
<1> QED  BY <1>1, <1>2, FileShape

\* Writing totals or a date leaves a log file.
LEMMA PutType ==
    ASSUME NEW s, FileOK(s), NEW t \in Totals, NEW d \in DateType
    PROVE  /\ FileOK(PutTotals(s, t)) /\ PutTotals(s, t)[1] = t
           /\ PutTotals(s, t) # <<>>
           /\ Len(PutTotals(s, t)) = 2 => Len(s) = 2 /\ PutTotals(s, t)[2] = s[2]
           /\ FileOK(PutDate(s, d)) /\ Len(PutDate(s, d)) = 2 /\ PutDate(s, d)[2] = d
           /\ PutDate(s, d)[1] = IF s = <<>> THEN ZeroTotals ELSE s[1]
<1>1. ZeroTotals \in Totals
  BY DEF ZeroTotals, Totals
<1>2. FileOK(<<t>>)
  BY DEF FileOK
<1>3. (PutTotals(s, t) = <<t, s[2]>> /\ Len(s) = 2) \/ PutTotals(s, t) = <<t>>
  BY DEF PutTotals
<1>4. PutDate(s, d) = <<IF s = <<>> THEN ZeroTotals ELSE s[1], d>>
  BY DEF PutDate
<1> QED  BY <1>1, <1>2, <1>3, <1>4, FileShape DEF FileOK

\* Sequences of one and of two elements.
LEMMA ShortSeq ==
    ASSUME NEW S, NEW a \in S, NEW b \in S
    PROVE  /\ <<a>> \in Seq(S) /\ Len(<<a>>) = 1 /\ Head(<<a>>) = a /\ Tail(<<a>>) = <<>>
           /\ <<a, b>> \in Seq(S) /\ Len(<<a, b>>) = 2
           /\ Append(<<a>>, b) = <<a, b>> /\ Head(<<a, b>>) = a /\ Tail(<<a, b>>) = <<b>>
<1>1. <<a>> \in Seq(S) /\ Len(<<a>>) = 1 /\ <<b>> \in Seq(S) /\ Len(<<b>>) = 1
  OBVIOUS
<1>2. <<a, b>> \in Seq(S) /\ Len(<<a, b>>) = 2
  OBVIOUS
<1>3. Append(<<a>>, b) = <<a, b>>
  <2>1. Append(<<a>>, b) \in Seq(S) /\ Len(Append(<<a>>, b)) = 2
    BY <1>1
  <2>2. \A i \in 1..2 : Append(<<a>>, b)[i] = <<a, b>>[i]
    BY <1>1
  <2> QED  BY <1>2, <2>1, <2>2, SeqEqual, Zenon
<1>4. Tail(<<a, b>>) = <<b>>
  <2>1. Tail(<<a, b>>) \in Seq(S) /\ Len(Tail(<<a, b>>)) = 1 /\ Tail(<<a, b>>)[1] = b
    BY <1>2
  <2> QED  BY <1>1, <2>1, SeqEqual
<1>5. Tail(<<a>>) = <<>>
  <2>1. Tail(<<a>>) \in Seq(S) /\ Len(Tail(<<a>>)) = 0
    BY <1>1
  <2> QED  BY <2>1
<1> QED  BY <1>1, <1>2, <1>3, <1>4, <1>5

\* The messages that fill the log are messages.
LEMMA MsgTypes ==
    ASSUME NEW p \in InfoType
    PROVE  /\ InfoMsg(p) \in MsgType /\ InfoMsg(p).op = 1
           /\ DateMsg(p) \in MsgType /\ DateMsg(p).op = 2
<1>1. p.total \in Nat /\ p.qualified_amount \in Nat /\ p.date \in DateType
  BY DEF InfoType
<1>2. ZeroTotals \in Totals /\ ZeroDate \in DateType
  BY DEF ZeroTotals, Totals, ZeroDate, DateType
<1>3. [mark |-> 1, total |-> p.total, qualified |-> p.qualified_amount] \in Totals
  BY <1>1 DEF Totals
<1> QED  BY <1>1, <1>2, <1>3 DEF InfoMsg, DateMsg, MsgType

\* The main thread takes the first message.
LEMMA TakeMain ==
    ASSUME TypeOK, main_mq # <<>>, main_mq' = Tail(main_mq), UNCHANGED file
    PROVE  /\ main_mq' \in Seq(MsgType) /\ \A i \in 1..Len(main_mq') : main_mq'[i].op \in {2, 3, 5}
           /\ Head(main_mq) \in MsgType
           /\ NoReport => NoReport' /\ Head(main_mq).op = 5
           /\ OneReport => OneReport'
           /\ OneReport /\ Head(main_mq).op # 5 => NoReport'
           /\ OneReport => StillRight(Head(main_mq))
<1>1. /\ main_mq \in Seq(MsgType) /\ \A i \in 1..Len(main_mq) : main_mq[i].op \in {2, 3, 5}
      /\ Len(main_mq) > 0
  BY DEF TypeOK
<1>2. /\ main_mq' \in Seq(MsgType) /\ Len(main_mq') = Len(main_mq) - 1
      /\ \A i \in 1..Len(main_mq') : i + 1 \in 1..Len(main_mq) /\ main_mq'[i] = main_mq[i + 1]
  BY <1>1
<1>3. Head(main_mq) = main_mq[1] /\ main_mq[1] \in MsgType /\ 1 \in 1..Len(main_mq)
  BY <1>1
<1>4. ASSUME OneReport PROVE OneReport'
  <2>1. \A m : StillRight(m) => StillRight(m)'
    BY DEF StillRight, Marked
  <2> QED  BY <1>2, <1>4, <2>1 DEF OneReport, StillRight, Marked
<1>5. ASSUME OneReport, main_mq[1].op # 5 PROVE NoReport'
  BY <1>1, <1>2, <1>3, <1>5 DEF OneReport, NoReport
<1> QED  BY <1>1, <1>2, <1>3, <1>4, <1>5 DEF NoReport, OneReport

\* Somebody sends a message to the main thread, or it is dropped.
LEMMA SendMain ==
    ASSUME TypeOK, NEW m \in MsgType, m.op \in {2, 3, 5},
           main_mq' = main_mq \/ main_mq' = Append(main_mq, m), UNCHANGED file
    PROVE  /\ main_mq' \in Seq(MsgType) /\ \A i \in 1..Len(main_mq') : main_mq'[i].op \in {2, 3, 5}
           /\ NoReport /\ m.op = 5 => NoReport'
           /\ OneReport /\ m.op = 5 => OneReport'
           /\ NoReport /\ StillRight(m) => OneReport'
<1>1. main_mq \in Seq(MsgType) /\ \A i \in 1..Len(main_mq) : main_mq[i].op \in {2, 3, 5}
  BY DEF TypeOK
<1>2. \A x : StillRight(x) => StillRight(x)'
  BY DEF StillRight, Marked
<1>3. CASE main_mq' = main_mq
  BY <1>1, <1>3 DEF NoReport, OneReport, StillRight, Marked
<1>4. CASE main_mq' = Append(main_mq, m)
  <2>1. /\ main_mq' \in Seq(MsgType) /\ Len(main_mq') = Len(main_mq) + 1
        /\ \A i \in 1..Len(main_mq) : main_mq'[i] = main_mq[i]
        /\ main_mq'[Len(main_mq) + 1] = m /\ Len(main_mq) \in Nat
    BY <1>1, <1>4
  <2>2. \A i \in 1..Len(main_mq') : i = Len(main_mq) + 1 \/ i \in 1..Len(main_mq)
    BY <2>1
  <2>3. \A i \in 1..Len(main_mq') : main_mq'[i].op \in {2, 3, 5}
    BY <1>1, <2>1, <2>2
  <2>4. NoReport /\ m.op = 5 => NoReport'
    BY <2>1, <2>2 DEF NoReport
  <2>5. OneReport /\ m.op = 5 => OneReport'
    BY <2>1, <2>2, SMTT(40) DEF OneReport, StillRight, Marked
  <2>6. NoReport /\ StillRight(m) => OneReport'
    BY <2>1, <2>2, SMTT(40) DEF NoReport, OneReport, StillRight, Marked
  <2> QED  BY <2>1, <2>3, <2>4, <2>5, <2>6
<1> QED  BY <1>3, <1>4

-----------------------------------------------------------------------------
(* The invariant holds at first and through every step.                     *)

\* The file unchanged, what was said about it stays true.
LEMMA SameFile ==
    ASSUME UNCHANGED file, filled \subseteq filled', mishaps \subseteq mishaps'
    PROVE  /\ Marked' = Marked
           /\ LogIsSnapshot => LogIsSnapshot'
           /\ UNCHANGED main_mq => NoReport' = NoReport /\ OneReport' = OneReport
BY DEF Marked, LogIsSnapshot, NoReport, OneReport, StillRight

LEMMA InitInv == Init => IInv
<1> SUFFICES ASSUME Init PROVE IInv
  OBVIOUS
<1>1. Fresh \in InfoType
  BY DEF Fresh, InfoType, DateType
<1>2. TypeOK
  <2>1. rbuf \in Totals \X DateType
    BY LogConstants DEF Init
  <2>2. /\ main_mq \in Seq(MsgType) /\ 1..Len(main_mq) = {}
        /\ file_mq \in Seq(MsgType) /\ 1..Len(file_mq) = {}
    BY DEF Init
  <2>3. fpc = "start" /\ dir = FALSE /\ exists = FALSE /\ crashes \in Nat /\ filled = {} /\ mishaps = {}
    BY DEF Init
  <2>4. file = <<>> /\ info_t \in InfoType
    BY <1>1 DEF Init
  <2> QED  BY <2>1, <2>2, <2>3, <2>4, Zenon DEF TypeOK
<1>3. Stage
  BY DEF Init, Stage, NoReport
<1>4. ~Marked /\ Len(file) = 0
  BY DEF Init, Marked
<1> QED  BY <1>2, <1>3, <1>4 DEF Init, Disk, LogIsSnapshot, IInv

LEMMA MountKeeps == IInv /\ Mount => IInv'
<1> SUFFICES ASSUME IInv, Mount PROVE IInv'
  OBVIOUS
<1>1. /\ UNCHANGED <<exists, file, rbuf, info_t, main_mq, file_mq, crashes, filled>>
      /\ fpc = "start" /\ TypeOK /\ Stage /\ Disk
      /\ mishaps' \in {mishaps, mishaps \cup {"open"}}
  BY DEF Mount, Mishap, IInv
<1>2. TypeOK'
  BY <1>1, Zenon DEF Mount, TypeOK
<1>3. Stage'
  <2>1. file_mq = <<>> /\ NoReport
    BY <1>1 DEF Stage, Filling, Dating
  <2>2. NoReport' /\ OneReport'
    BY <1>1, <2>1 DEF NoReport, OneReport, StillRight
  <2> QED  BY <1>1, <2>1, <2>2 DEF Stage, Mount
<1>4. Disk'
  BY <1>1, SameFile DEF Mount, Disk
<1> QED  BY <1>2, <1>3, <1>4 DEF IInv

LEMMA OpenKeeps == IInv /\ OpenLog => IInv'
<1> SUFFICES ASSUME IInv, OpenLog PROVE IInv'
  OBVIOUS
<1>1. /\ UNCHANGED <<dir, file, rbuf, info_t, main_mq, file_mq, crashes, filled>>
      /\ exists' \in BOOLEAN /\ TypeOK /\ Stage /\ Disk
      /\ mishaps' \in {mishaps, mishaps \cup {"open"}}
  BY Zenon DEF OpenLog, Open, Mishap, IInv, TypeOK
<1>2. \/ fpc = "create" /\ (fpc' = "zero" \/ ("open" \in mishaps' /\ fpc' = "read"))
      \/ fpc = "openinfo" /\ (fpc' = "writeinfo" \/ ("open" \in mishaps' /\ fpc' = "recv"))
      \/ fpc = "opendate" /\ (fpc' = "writedate" \/ ("open" \in mishaps' /\ fpc' = "recv"))
  BY DEF OpenLog, Open, Mishap
<1>3. TypeOK'
  BY <1>1, <1>2 DEF TypeOK
<1>4. Disk'
  BY <1>1, <1>2, SameFile DEF Disk
<1>5. /\ Marked' = Marked /\ NoReport' = NoReport /\ OneReport' = OneReport
  BY <1>1, SameFile
<1>6. NoReport => OneReport
  BY DEF NoReport, OneReport, StillRight
<1> SUFFICES Stage'
  BY <1>3, <1>4 DEF IInv
<1>7. CASE fpc = "create"
  BY <1>1, <1>2, <1>5, <1>7 DEF Stage, Filling, Dating
<1>8. CASE fpc = "openinfo"
  <2>1. NoReport /\ \E p \in filled : Filling(p)
    BY <1>1, <1>8 DEF Stage, Dating
  <2>2. PICK p \in filled : Filling(p)
    BY <2>1
  <2>3. CASE fpc' = "writeinfo"
    BY <1>1, <1>5, <1>8, <2>1, <2>2, <2>3 DEF Stage, Filling
  <2>4. CASE "open" \in mishaps' /\ fpc' = "recv" /\ file_mq = <<>>
    BY <1>1, <1>5, <1>6, <2>1, <2>4 DEF Stage
  <2>5. CASE "open" \in mishaps' /\ fpc' = "recv" /\ file_mq = <<DateMsg(p)>>
    <3>1. Dating(p)'
      BY <1>1, <1>5, <2>2, <2>5 DEF Filling, Dating
    <3> QED  BY <1>1, <1>5, <2>1, <3>1 DEF Stage
  <2> QED  BY <1>2, <1>8, <2>2, <2>3, <2>4, <2>5 DEF Filling
<1>9. CASE fpc = "opendate"
  <2>1. NoReport /\ \E p \in filled : Dating(p)
    BY <1>1, <1>9 DEF Stage, Filling
  <2>2. PICK p \in filled : Dating(p)
    BY <2>1
  <2>3. file_mq = <<>>
    BY <1>9, <2>2 DEF Dating
  <2>4. CASE fpc' = "writedate"
    BY <1>1, <1>5, <1>9, <2>1, <2>2, <2>4 DEF Stage, Dating
  <2>5. CASE fpc' = "recv"
    BY <1>1, <1>5, <1>6, <2>1, <2>3, <2>5 DEF Stage
  <2> QED  BY <1>2, <1>9, <2>4, <2>5
<1> QED  BY <1>2, <1>7, <1>8, <1>9

\* The directory is there, so writing concerns the file alone.
LEMMA WriteTypes ==
    ASSUME IInv, WriteLog
    PROVE  /\ UNCHANGED <<dir, exists, rbuf, info_t, main_mq, file_mq, crashes, filled, mishaps>>
           /\ dir /\ FileOK(file) /\ rbuf[1] \in Totals /\ rbuf[2] \in DateType
           /\ \/ fpc = "zero" /\ fpc' = "read" /\ file' = Zeroes
              \/ fpc = "writeinfo" /\ fpc' = "recv" /\ file' = PutTotals(file, rbuf[1])
              \/ fpc = "writedate" /\ fpc' = "recv" /\ file' = PutDate(file, rbuf[2])
BY DEF IInv, WriteLog, Write, TypeOK, FileOK, Disk

LEMMA WriteKeeps == IInv /\ WriteLog => IInv'
<1> SUFFICES ASSUME IInv, WriteLog PROVE IInv'
  OBVIOUS
<1>1. /\ UNCHANGED <<dir, exists, rbuf, info_t, main_mq, file_mq, crashes, filled, mishaps>>
      /\ dir /\ TypeOK /\ Stage /\ Disk
      /\ FileOK(file) /\ rbuf[1] \in Totals /\ rbuf[2] \in DateType
      /\ NoReport' = NoReport
  BY WriteTypes DEF IInv, NoReport
<1>2. NoReport => OneReport'
  BY <1>1 DEF NoReport, OneReport, StillRight
<1>3. ASSUME FileOK(file)', fpc' \in {"read", "recv"} PROVE TypeOK'
  BY <1>1, <1>3 DEF TypeOK, FileOK
<1>4. CASE fpc = "zero"
  <2>1. fpc' = "read" /\ file' = Zeroes /\ file_mq = <<>> /\ NoReport
    BY <1>1, <1>4, WriteTypes DEF Stage, Filling, Dating
  <2>2. FileOK(file)' /\ ~Marked' /\ file'[2] = ZeroDate
    BY <2>1 DEF FileOK, Zeroes, ZeroTotals, ZeroDate, Totals, DateType, Marked
  <2> QED  BY <1>1, <1>3, <2>1, <2>2 DEF IInv, Stage, Disk, LogIsSnapshot
<1>5. CASE fpc = "writeinfo"
  <2>1. PICK p \in filled : Filling(p)
    BY <1>1, <1>5 DEF Stage, Dating
  <2>2. /\ fpc' = "recv" /\ NoReport /\ rbuf[1] = TotalsOf(p) /\ ~Marked
        /\ file_mq = <<>> \/ file_mq = <<DateMsg(p)>>
    BY <1>1, <1>5, <2>1, WriteTypes DEF Stage, Filling, Dating
  <2>3. /\ FileOK(file)' /\ file' # <<>> /\ file'[1] = TotalsOf(p)
        /\ Len(file') = 2 => Len(file) = 2 /\ file'[2] = file[2]
    BY <1>1, <1>5, <2>2, WriteTypes, PutType
  <2>4. Marked'
    BY <2>3 DEF Marked, TotalsOf
  <2>5. Stage'
    <3>1. CASE file_mq = <<>>
      BY <1>1, <1>2, <2>2, <3>1 DEF Stage
    <3>2. CASE file_mq = <<DateMsg(p)>>
      <4>1. Dating(p)'
        BY <1>1, <2>2, <2>3, <2>4, <3>2 DEF Dating
      <4> QED  BY <1>1, <2>2, <4>1 DEF Stage
    <3> QED  BY <2>2, <3>1, <3>2
  <2>6. LogIsSnapshot'
    BY <1>1, <2>2, <2>3 DEF Disk, LogIsSnapshot, TotalsOf
  <2> QED  BY <1>1, <1>3, <2>2, <2>3, <2>4, <2>5, <2>6 DEF IInv, Disk
<1>6. CASE fpc = "writedate"
  <2>1. PICK p \in filled : Dating(p)
    BY <1>1, <1>6 DEF Stage, Filling
  <2>2. fpc' = "recv" /\ NoReport /\ rbuf[2] = p.date /\ file_mq = <<>>
    BY <1>1, <1>6, <2>1, WriteTypes DEF Stage, Filling, Dating
  <2>3. /\ FileOK(file)' /\ Len(file') = 2 /\ file'[2] = p.date
        /\ file'[1] = IF file = <<>> THEN ZeroTotals ELSE file[1]
    BY <1>1, <1>6, <2>2, WriteTypes, PutType
  <2>4. file' # <<>> /\ (Marked' <=> Marked)
    BY <2>3, FileShape DEF Marked, ZeroTotals
  <2>5. "open" \notin mishaps => Marked' /\ file'[1] = TotalsOf(p)
    BY <2>1, <2>3, <2>4 DEF Dating, Marked
  <2>6. LogIsSnapshot'
    BY <1>1, <2>3, <2>5 DEF LogIsSnapshot, TotalsOf
  <2>7. Stage'
    BY <1>1, <1>2, <2>2 DEF Stage
  <2> QED  BY <1>1, <1>3, <2>2, <2>3, <2>5, <2>6, <2>7, SMTT(40) DEF IInv, Disk
<1> QED  BY <1>4, <1>5, <1>6, WriteTypes

LEMMA ReadKeeps == IInv /\ ReadLog => IInv'
<1> SUFFICES ASSUME IInv, ReadLog PROVE IInv'
  OBVIOUS
<1>1. /\ UNCHANGED <<dir, file, info_t, file_mq, crashes, filled>>
      /\ mishaps' \in {mishaps, mishaps \cup {"open"}, mishaps \cup {"full"}}
      /\ fpc = "read" /\ fpc' = "recv" /\ TypeOK /\ Stage /\ Disk
      /\ file_mq = <<>> /\ NoReport /\ FileOK(file) /\ rbuf \in Totals \X DateType
  BY SMTT(40) DEF IInv, ReadLog, Mishap, Stage, Filling, Dating, TypeOK, FileOK
<1>2. /\ rbuf' \in Totals \X DateType /\ exists' \in BOOLEAN
      /\ main_mq' \in Seq(MsgType) /\ \A i \in 1..Len(main_mq') : main_mq'[i].op \in {2, 3, 5}
      /\ OneReport'
  <2>1. CASE UNCHANGED <<exists, rbuf, main_mq>>
    BY <1>1, <2>1 DEF TypeOK, NoReport, OneReport, StillRight
  <2>2. CASE /\ exists' = TRUE /\ rbuf' = Read(file, rbuf)
             /\ main_mq' = main_mq \/ main_mq' = Append(main_mq, send_file_msg(rbuf'))
    <3>1. /\ rbuf' \in Totals \X DateType
          /\ Len(file) > 0 => rbuf'[1] = file[1]
          /\ Len(file) = 2 => rbuf' = file
      BY <1>1, <2>2, ReadType
    <3> DEFINE m == send_file_msg(rbuf')
    <3>2. rbuf'[1] \in Totals /\ rbuf'[2] \in DateType /\ rbuf' = <<rbuf'[1], rbuf'[2]>>
      BY <3>1
    <3>3. /\ m \in MsgType /\ m.log = rbuf'[1] /\ m.date = rbuf'[2]
          /\ m.op = IF rbuf'[1].mark = 0 THEN 2 ELSE 3
      BY <3>2 DEF send_file_msg, MsgType
    <3>4. StillRight(m)
      <4>1. Len(file) \in 0..2 /\ (file = <<>> <=> Len(file) = 0)
        BY <1>1, FileShape
      <4> QED  BY <3>1, <3>2, <3>3, <4>1 DEF StillRight, Marked
    <3> HIDE DEF m
    <3> QED  BY <1>1, <2>2, <3>1, <3>3, <3>4, SendMain DEF m
  <2> QED  BY <2>1, <2>2, Zenon DEF ReadLog, Send
<1>3. TypeOK'
  BY <1>1, <1>2 DEF TypeOK
<1>4. Disk'
  BY <1>1, SameFile, Zenon DEF Disk
<1> QED  BY <1>1, <1>2, <1>3, <1>4, SMTT(40) DEF IInv, Stage

LEMMA RecvKeeps == IInv /\ Recv => IInv'
<1> SUFFICES ASSUME IInv, Recv PROVE IInv'
  OBVIOUS
<1>1. /\ UNCHANGED <<dir, exists, file, info_t, main_mq, crashes, filled, mishaps>>
      /\ fpc = "recv" /\ file_mq # <<>> /\ file_mq' = Tail(file_mq)
      /\ TypeOK /\ Stage /\ Disk /\ filled \subseteq InfoType
      /\ file_mq \in Seq(MsgType) /\ rbuf \in Totals \X DateType
  BY DEF IInv, Recv, TypeOK
<1>2. /\ Marked' = Marked /\ NoReport' = NoReport
      /\ file_mq' \in Seq(MsgType) /\ \A i \in 1..Len(file_mq') : file_mq'[i].op \in {1, 2}
  <2>1. file_mq' \in Seq(MsgType) /\ Len(file_mq') = Len(file_mq) - 1
    BY <1>1
  <2>2. \A i \in 1..Len(file_mq') : i + 1 \in 1..Len(file_mq) /\ file_mq'[i] = file_mq[i + 1]
    BY <1>1, <2>1
  <2> QED  BY <1>1, <2>1, <2>2, SameFile DEF TypeOK
<1>3. NoReport /\ \E p \in filled : Filling(p) \/ Dating(p)
  BY <1>1 DEF Stage
<1>4. PICK p \in filled : Filling(p) \/ Dating(p)
  BY <1>3
<1>5. p \in InfoType
  BY <1>1, <1>4
<1>6. ASSUME rbuf' \in Totals \X DateType, fpc' \in {"openinfo", "opendate"} PROVE TypeOK' /\ Disk'
  <2>1. TypeOK'
    BY <1>1, <1>2, <1>6 DEF TypeOK
  <2>2. Disk'
    BY <1>1, <1>6, SameFile DEF Disk
  <2> QED  BY <2>1, <2>2
<1>7. CASE Filling(p)
  <2>1. /\ Head(file_mq) = InfoMsg(p) /\ ~Marked
        /\ file_mq' = <<>> \/ file_mq' = <<DateMsg(p)>>
    <3>1. InfoMsg(p) \in MsgType /\ DateMsg(p) \in MsgType
      BY <1>5, MsgTypes
    <3>2. /\ Head(<<InfoMsg(p)>>) = InfoMsg(p) /\ Tail(<<InfoMsg(p)>>) = <<>>
          /\ Head(<<InfoMsg(p), DateMsg(p)>>) = InfoMsg(p)
          /\ Tail(<<InfoMsg(p), DateMsg(p)>>) = <<DateMsg(p)>>
      BY <3>1, ShortSeq
    <3>3. file_mq = <<InfoMsg(p)>> \/ file_mq = <<InfoMsg(p), DateMsg(p)>>
      BY <1>1, <1>7 DEF Filling
    <3>4. ~Marked
      BY <1>7 DEF Filling
    <3> QED  BY <1>1, <3>2, <3>3, <3>4, Zenon
  <2>2. fpc' = "openinfo" /\ rbuf' = [rbuf EXCEPT ![1] = TotalsOf(p)]
    <3>1. InfoMsg(p).op = 1 /\ [InfoMsg(p).log EXCEPT !.mark = 3] = TotalsOf(p)
      BY DEF InfoMsg, TotalsOf
    <3> QED  BY <2>1, <3>1 DEF Recv
  <2>3. TotalsOf(p) \in Totals
    BY <1>5 DEF TotalsOf, Totals, InfoType
  <2>4. rbuf' \in Totals \X DateType /\ rbuf'[1] = TotalsOf(p)
    BY <1>1, <2>2, <2>3
  <2>5. Filling(p)'
    BY <1>2, <2>1, <2>2, <2>4 DEF Filling
  <2> QED  BY <1>1, <1>2, <1>3, <1>6, <2>2, <2>4, <2>5 DEF IInv, Stage
<1>8. CASE Dating(p)
  <2>1. Head(file_mq) = DateMsg(p) /\ file_mq' = <<>>
    BY <1>1, <1>8 DEF Dating
  <2>2. fpc' = "opendate" /\ rbuf' = [rbuf EXCEPT ![2] = p.date]
    BY <2>1 DEF Recv, DateMsg
  <2>3. p.date \in DateType
    BY <1>5 DEF InfoType
  <2>4. rbuf' \in Totals \X DateType /\ rbuf'[2] = p.date
    BY <1>1, <2>2, <2>3
  <2>5. Dating(p)'
    BY <1>1, <1>2, <1>8, <2>1, <2>2, <2>4 DEF Dating
  <2> QED  BY <1>1, <1>2, <1>3, <1>6, <2>2, <2>4, <2>5 DEF IInv, Stage
<1> QED  BY <1>4, <1>7, <1>8

LEMMA FillKeeps == IInv /\ FillLog => IInv'
<1> SUFFICES ASSUME IInv, FillLog PROVE IInv'
  OBVIOUS
<1>1. /\ UNCHANGED <<dir, exists, file, fpc, rbuf, info_t, crashes, mishaps>>
      /\ main_mq # <<>> /\ main_mq' = Tail(main_mq) /\ Head(main_mq).op = 2
      /\ filled' = filled \cup {info_t} /\ TypeOK /\ Stage /\ Disk
  BY DEF IInv, FillLog, Case
<1>2. /\ main_mq' \in Seq(MsgType) /\ \A i \in 1..Len(main_mq') : main_mq'[i].op \in {2, 3, 5}
      /\ ~NoReport
  BY <1>1, TakeMain
<1>3. fpc = "recv" /\ file_mq = <<>> /\ OneReport
  BY <1>1, <1>2 DEF Stage
<1>4. NoReport' /\ ~Marked /\ OneReport'
  BY <1>1, <1>3, TakeMain DEF StillRight
<1>5. /\ InfoMsg(info_t) \in MsgType /\ InfoMsg(info_t).op = 1
      /\ DateMsg(info_t) \in MsgType /\ DateMsg(info_t).op = 2
  BY <1>1, MsgTypes DEF TypeOK
<1>6. /\ \/ file_mq' = <<>>
         \/ file_mq' = <<InfoMsg(info_t)>>
         \/ file_mq' = <<InfoMsg(info_t), DateMsg(info_t)>>
      /\ file_mq' \in Seq(MsgType) /\ \A i \in 1..Len(file_mq') : file_mq'[i].op \in {1, 2}
  <2> DEFINE a == InfoMsg(info_t)
             b == DateMsg(info_t)
  <2>1. file_mq' = Send(Send(<<>>, FileMax, a), FileMax, b)
    BY <1>3 DEF FillLog, send_info_to_file_msg, send_date_to_file_msg, InfoMsg, DateMsg
  <2>2. a \in MsgType /\ a.op = 1 /\ b \in MsgType /\ b.op = 2
    BY <1>5
  <2> HIDE DEF a, b
  <2>3. \/ Send(<<>>, FileMax, a) = <<a>>
        \/ ~(0 < FileMax) /\ Send(<<>>, FileMax, a) = <<>>
    BY DEF Send
  <2>4. Send(<<a>>, FileMax, b) = <<a, b>> \/ Send(<<a>>, FileMax, b) = <<a>>
    BY <2>2, ShortSeq, Zenon DEF Send
  <2>5. ~(0 < FileMax) => Send(<<>>, FileMax, b) = <<>>
    BY DEF Send
  <2>6. file_mq' = <<>> \/ file_mq' = <<a>> \/ file_mq' = <<a, b>>
    BY <2>1, <2>3, <2>4, <2>5
  <2>7. file_mq' \in Seq(MsgType) /\ \A i \in 1..Len(file_mq') : file_mq'[i].op \in {1, 2}
    <3>1. CASE file_mq' = <<>>
      BY <3>1
    <3>2. CASE file_mq' = <<a>>
      BY <2>2, <3>2
    <3>3. CASE file_mq' = <<a, b>>
      BY <2>2, <3>3
    <3> QED  BY <2>6, <3>1, <3>2, <3>3
  <2> QED  BY <2>6, <2>7 DEF a, b
<1>7. TypeOK'
  BY <1>1, <1>2, <1>6 DEF TypeOK
<1>8. Disk'
  BY <1>1, SameFile DEF Disk
<1>9. Stage'
  <2>1. CASE file_mq' = <<>>
    BY <1>1, <1>3, <1>4, <2>1 DEF Stage
  <2>2. CASE file_mq' # <<>>
    <3>1. PICK p \in filled' : p = info_t
      BY <1>1
    <3>2. file_mq' \in {<<InfoMsg(p)>>, <<InfoMsg(p), DateMsg(p)>>}
      BY <1>6, <2>2, <3>1
    <3>3. Filling(p)'
      BY <1>1, <1>3, <1>4, <3>2 DEF Filling, Marked
    <3> QED  BY <1>4, <3>3 DEF Stage
  <2> QED  BY <2>1, <2>2
<1> QED  BY <1>7, <1>8, <1>9 DEF IInv

\* A step that touches neither the disk nor the file thread nor its queue, and
\* leaves main_mq with no more reports than before.
LEMMA OthersKeep ==
    ASSUME IInv, UNCHANGED <<dir, exists, file, fpc, rbuf, file_mq, crashes, filled>>,
           mishaps' \in {mishaps, mishaps \cup {"early"}},
           info_t' \in InfoType, main_mq' \in Seq(MsgType),
           \A i \in 1..Len(main_mq') : main_mq'[i].op \in {2, 3, 5},
           NoReport => NoReport', OneReport => OneReport'
    PROVE  IInv'
<1>1. TypeOK'
  BY DEF IInv, TypeOK
<1>2. Disk'
  BY SameFile DEF IInv, Disk
<1>3. Marked' = Marked
  BY SameFile
<1>4. \A p : (Filling(p) => Filling(p)') /\ (Dating(p) => Dating(p)')
  BY <1>3, SMTT(40) DEF Filling, Dating
<1>5. Stage'
  BY <1>4, SMTT(40) DEF IInv, Stage
<1> QED  BY <1>1, <1>2, <1>5 DEF IInv

LEMMA MainKeeps == IInv /\ (Restore \/ SetDate \/ add_porduct \/ NetDate) => IInv'
<1> SUFFICES ASSUME IInv, Restore \/ SetDate \/ add_porduct \/ NetDate PROVE IInv'
  OBVIOUS
<1>1. /\ UNCHANGED <<dir, exists, file, fpc, rbuf, file_mq, crashes, filled>>
      /\ mishaps' \in {mishaps, mishaps \cup {"early"}}
      /\ TypeOK /\ info_t \in InfoType /\ main_mq \in Seq(MsgType)
      /\ \A i \in 1..Len(main_mq) : main_mq[i].op \in {2, 3, 5}
  BY DEF IInv, TypeOK, Restore, SetDate, add_porduct, NetDate, Mishap
<1>2. info_t.total \in Nat /\ info_t.qualified_amount \in Nat /\ info_t.date \in DateType
  BY <1>1 DEF InfoType
<1>3. CASE Restore
  <2>1. main_mq # <<>> /\ main_mq' = Tail(main_mq)
    BY <1>3 DEF Restore, Case
  <2>2. Head(main_mq).log \in Totals /\ Head(main_mq).date \in DateType
    BY <1>1, <2>1, TakeMain DEF MsgType
  <2>3. PICK d \in Days : info_t' = [total |-> Head(main_mq).log.total,
                                     qualified_amount |-> Head(main_mq).log.qualified,
                                     date |-> <<Head(main_mq).date[1], d>>]
    BY <1>3 DEF Restore
  <2>4. info_t' \in InfoType
    BY <2>2, <2>3, LogConstants DEF InfoType, Totals, DateType
  <2> QED  BY <1>1, <2>1, <2>4, TakeMain, OthersKeep
<1>4. CASE SetDate
  <2>1. main_mq # <<>> /\ main_mq' = Tail(main_mq)
    BY <1>4 DEF SetDate, Case
  <2>2. Head(main_mq).date \in DateType
    BY <1>1, <2>1, TakeMain DEF MsgType
  <2>3. info_t' \in InfoType
    <3>1. info_t' = [info_t EXCEPT !.date = Head(main_mq).date]
      BY <1>4 DEF SetDate
    <3> QED  BY <1>1, <2>2, <3>1 DEF InfoType
  <2> QED  BY <1>1, <2>1, <2>3, TakeMain, OthersKeep
<1>5. CASE add_porduct
  <2>1. UNCHANGED main_mq
    BY <1>5 DEF add_porduct
  <2>2. info_t' \in InfoType
    <3>1. PICK q \in {0, 1} :
             info_t' = [info_t EXCEPT !.total = @ + 1, !.qualified_amount = @ + q]
      BY <1>5, Zenon DEF add_porduct
    <3>2. info_t.total + 1 \in Nat /\ info_t.qualified_amount + q \in Nat
      BY <1>2
    <3> QED  BY <1>1, <3>1, <3>2, Zenon DEF InfoType
  <2> QED  BY <1>1, <2>1, <2>2, SameFile, OthersKeep
<1>6. CASE NetDate
  <2>1. PICK d \in NetDates :
           main_mq' = Send(main_mq, MainMax, [op |-> 5, log |-> ZeroTotals, date |-> d])
    BY <1>6 DEF NetDate
  <2> DEFINE m == [op |-> 5, log |-> ZeroTotals, date |-> d]
  <2>2. m \in MsgType /\ m.op = 5
    BY LogConstants DEF MsgType, ZeroTotals, Totals
  <2>3. main_mq' = main_mq \/ main_mq' = Append(main_mq, m)
    BY <2>1 DEF Send
  <2>4. UNCHANGED info_t
    BY <1>6, SMTT(40) DEF NetDate
  <2> HIDE DEF m
  <2> QED  BY <1>1, <2>2, <2>3, <2>4, SendMain, OthersKeep
<1> QED  BY <1>3, <1>4, <1>5, <1>6

LEMMA PowerKeeps == IInv /\ PowerFails => IInv'
<1> SUFFICES ASSUME IInv, PowerFails PROVE IInv'
  OBVIOUS
<1>1. /\ UNCHANGED <<dir, exists, file, filled, mishaps>> /\ TypeOK /\ Disk
      /\ fpc' = "start" /\ main_mq' = <<>> /\ file_mq' = <<>>
      /\ rbuf' \in Garbage /\ info_t' = Fresh /\ crashes' = crashes + 1
  BY DEF PowerFails, Booted, IInv
<1>2. Fresh \in InfoType
  BY DEF Fresh, InfoType, DateType
<1>3. /\ main_mq' \in Seq(MsgType) /\ 1..Len(main_mq') = {}
      /\ file_mq' \in Seq(MsgType) /\ 1..Len(file_mq') = {}
  BY <1>1
<1>4. rbuf' \in Totals \X DateType
  BY <1>1, LogConstants
<1>5. TypeOK'
  BY <1>1, <1>2, <1>3, <1>4 DEF TypeOK
<1>6. Stage'
  BY <1>1, <1>3 DEF Stage, NoReport
<1>7. Disk'
  BY <1>1, SameFile DEF Disk
<1> QED  BY <1>5, <1>6, <1>7 DEF IInv

\* IInv is an inductive invariant of the log.
THEOREM LogInductive == Spec => []IInv
<1>1. IInv /\ [Next]_vars => IInv'
  <2>1. ASSUME IInv, UNCHANGED vars PROVE IInv'
    <3>1. info_t' \in InfoType /\ NoReport' = NoReport /\ OneReport' = OneReport
      BY <2>1, SMTT(40) DEF vars, IInv, TypeOK, NoReport, OneReport, StillRight, Marked
    <3> QED  BY <2>1, <3>1, OthersKeep, SMTT(40) DEF vars, IInv, TypeOK
  <2> QED  BY <2>1, MountKeeps, OpenKeeps, WriteKeeps, ReadKeeps, RecvKeeps, FillKeeps,
              MainKeeps, PowerKeeps DEF Next, FileThread, MainThread
<1> QED  BY <1>1, InitInv, PTL DEF Spec

\* The log's state is well typed (file_wr_task and the main thread's cases).
THEOREM LogTypes == Spec => []TypeOK
<1>1. IInv => TypeOK
  BY DEF IInv
<1> QED  BY <1>1, LogInductive, PTL

\* As long as opening the file has not failed, a log with a mark is a snapshot of
\* the totals and the date, whatever power failures came in between the two
\* writes of file_wr_task.
THEOREM LogStaysSnapshot == Spec => []LogIsSnapshot
<1>1. IInv => LogIsSnapshot
  BY DEF IInv, Disk
<1> QED  BY <1>1, LogInductive, PTL

\* What file_wr_task reports to the main thread is what the file holds, until
\* the main thread has dealt with it: nothing is written in between.
THEOREM LogRestored == Spec => []RestoresLog
<1>1. IInv => RestoresLog
  <2> SUFFICES ASSUME IInv, NEW i \in 1..Len(main_mq), main_mq[i].op = 3, Len(file) = 2
               PROVE  <<main_mq[i].log, main_mq[i].date>> = file
    BY DEF RestoresLog
  <2>1. OneReport
    BY DEF IInv, Stage, NoReport
  <2> QED  BY <2>1 DEF OneReport, StillRight
<1> QED  BY <1>1, LogInductive, PTL

\* With the two places that main.c gives it, file_write_mq never drops a message.
THEOREM FileQueueNeverFull == ASSUME FileMax >= 2 PROVE Spec => []FileQueueSuffices
<1>1. IInv => FileQueueSuffices
  <2> SUFFICES ASSUME IInv, main_mq # <<>>, Head(main_mq).op = 2
               PROVE  Len(file_mq) + 2 <= FileMax
    BY DEF FileQueueSuffices
  <2>1. main_mq \in Seq(MsgType) /\ FileMax \in Nat
    BY LogConstants DEF IInv, TypeOK
  <2>2. 1 \in 1..Len(main_mq) /\ main_mq[1].op = 2
    BY <2>1
  <2>3. file_mq = <<>>
    BY <2>2 DEF IInv, Stage, NoReport
  <2> QED  BY <2>1, <2>3
<1> QED  BY <1>1, LogInductive, PTL

\* The totals of a log that has a mark are never written again, by no later
\* start either, even where opening the file fails now and then.
THEOREM LogNeverRewritten == Spec => LogWrittenOnce
<1>1. IInv /\ [Next]_vars => [Marked => file' # <<>> /\ file'[1] = file[1]]_vars
  <2> SUFFICES ASSUME IInv, [Next]_vars, Marked PROVE file' # <<>> /\ file'[1] = file[1]
    OBVIOUS
  <2>1. file # <<>>
    BY DEF Marked
  <2>2. CASE WriteLog
    <3>1. fpc # "zero" /\ fpc # "writeinfo"
      BY <2>1 DEF IInv, Disk, Stage, Filling, Dating
    <3>2. file' = PutDate(file, rbuf[2]) /\ FileOK(file) /\ rbuf[2] \in DateType /\ rbuf[1] \in Totals
      BY <2>2, <3>1, WriteTypes
    <3> QED  BY <2>1, <3>2, PutType
  <2>3. CASE UNCHANGED file
    BY <2>1, <2>3
  <2> QED  BY <2>2, <2>3 DEF Next, FileThread, MainThread, Mount, OpenLog, Open, ReadLog, Recv,
                             FillLog, Restore, SetDate, add_porduct, NetDate, PowerFails, vars
<1> QED  BY <1>1, LogInductive, PTL DEF Spec, LogWrittenOnce

\* While it is not decided what the log says, nothing has been counted, or a
\* part came early.
NothingCounted == Undecided /\ "early" \notin mishaps => info_t.total = 0

\* The log's state stays undecided, or becomes so only at a start.
LEMMA CountStep ==
    ASSUME IInv, NothingCounted, [Next]_vars
    PROVE  /\ NothingCounted'
           /\ ~PowerFails /\ "early" \notin mishaps => info_t'.total >= info_t.total
<1>1. /\ TypeOK /\ Stage /\ info_t \in InfoType /\ info_t.total \in Nat
      /\ main_mq \in Seq(MsgType)
  BY DEF IInv, TypeOK, InfoType
<1> DEFINE early == fpc \in {"start", "create", "zero", "read"}
           three == \E i \in 1..Len(main_mq) : main_mq[i].op = 3
<1>2. CASE Mount \/ OpenLog \/ WriteLog \/ Recv \/ UNCHANGED vars
  <2>1. UNCHANGED <<info_t, main_mq>> /\ mishaps \subseteq mishaps'
    BY <1>2 DEF Mount, OpenLog, Open, WriteLog, Write, Recv, Mishap, vars
  <2>2. early' => early
    BY <1>2 DEF Mount, OpenLog, Open, WriteLog, Write, Recv, vars
  <2> QED  BY <1>1, <2>1, <2>2 DEF NothingCounted, Undecided
<1>3. CASE ReadLog
  <2>1. fpc = "read" /\ UNCHANGED info_t /\ mishaps \subseteq mishaps'
    BY <1>3 DEF ReadLog, Mishap
  <2> QED  BY <1>1, <2>1 DEF NothingCounted, Undecided
<1>4. CASE FillLog \/ SetDate
  <2>1. /\ main_mq # <<>> /\ main_mq' = Tail(main_mq) /\ UNCHANGED <<fpc, mishaps>>
        /\ info_t' = info_t \/ info_t' = [info_t EXCEPT !.date = Head(main_mq).date]
    BY <1>4 DEF FillLog, SetDate, Case
  <2>2. info_t'.total = info_t.total
    BY <1>1, <2>1 DEF InfoType
  <2>3. three' => three
    BY <1>1, <2>1
  <2> QED  BY <1>1, <2>1, <2>2, <2>3 DEF NothingCounted, Undecided
<1>5. CASE Restore
  <2>1. /\ main_mq # <<>> /\ main_mq' = Tail(main_mq) /\ Head(main_mq).op = 3
        /\ UNCHANGED <<fpc, mishaps, file>>
        /\ \E d \in Days : info_t' = [total |-> Head(main_mq).log.total,
                                     qualified_amount |-> Head(main_mq).log.qualified,
                                     date |-> <<Head(main_mq).date[1], d>>]
    BY <1>5, SMTT(40) DEF Restore, Case
  <2>2. Head(main_mq).log \in Totals /\ Undecided
    BY <1>1, <2>1, TakeMain DEF MsgType, Undecided
  <2>3. info_t'.total \in Nat
    BY <2>1, <2>2 DEF Totals
  <2>4. ~NoReport
    BY <1>1, <2>1, TakeMain
  <2>5. fpc = "recv" /\ OneReport
    BY <1>1, <2>4 DEF Stage
  <2>6. NoReport'
    BY <1>1, <2>1, <2>5, TakeMain
  <2>7. ~Undecided'
    BY <2>1, <2>5, <2>6 DEF Undecided, NoReport
  <2> QED  BY <2>2, <2>3, <2>7 DEF NothingCounted
<1>6. CASE add_porduct
  <2>1. /\ UNCHANGED <<fpc, main_mq>>
        /\ IF Undecided THEN "early" \in mishaps' ELSE UNCHANGED mishaps
        /\ \E q \in {0, 1} :
             info_t' = [info_t EXCEPT !.total = @ + 1, !.qualified_amount = @ + q]
    BY <1>6, Zenon DEF add_porduct, Mishap
  <2>2. info_t'.total = info_t.total + 1
    BY <1>1, <2>1 DEF InfoType
  <2> QED  BY <1>1, <2>1, <2>2 DEF NothingCounted, Undecided
<1>7. CASE NetDate
  <2>1. PICK d \in NetDates :
           main_mq' = Send(main_mq, MainMax, [op |-> 5, log |-> ZeroTotals, date |-> d])
    BY <1>7, SMTT(40) DEF NetDate
  <2> DEFINE m == [op |-> 5, log |-> ZeroTotals, date |-> d]
  <2>2. m \in MsgType /\ m.op = 5
    BY LogConstants DEF MsgType, ZeroTotals, Totals
  <2>3. main_mq' = main_mq \/ main_mq' = Append(main_mq, m)
    BY <2>1 DEF Send
  <2> HIDE DEF m
  <2>4. three' => three
    BY <1>1, <2>2, <2>3, SMTT(40)
  <2> QED  BY <1>1, <1>7, <2>4, SMTT(40) DEF NetDate, NothingCounted, Undecided
<1>8. CASE PowerFails
  BY <1>8 DEF PowerFails, Booted, Fresh, NothingCounted
<1> QED  BY <1>2, <1>3, <1>4, <1>5, <1>6, <1>7, <1>8 DEF Next, FileThread, MainThread

\* What was counted in a session is not forgotten in it, unless a part came
\* before the main thread's case 3 had restored the log.
THEOREM CountsAreKept == Spec => CountsKept
<1>1. Init => NothingCounted
  BY DEF Init, Fresh, NothingCounted
<1>2. IInv /\ NothingCounted /\ [Next]_vars => NothingCounted'
  BY CountStep
<1>3. IInv /\ NothingCounted /\ [Next]_vars
         => [~PowerFails /\ "early" \notin mishaps => info_t'.total >= info_t.total]_vars
  BY CountStep
<1> QED  BY <1>1, <1>2, <1>3, LogInductive, PTL DEF Spec, CountsKept
=============================================================================
