------------------------------- MODULE FileLog ------------------------------
(***************************************************************************)
(* The log file: the file thread of file_wr.c, the main thread's cases     *)
(* that exchange messages with it, and power failures between any two of   *)
(* their steps.                                                            *)
(*                                                                         *)
(* The file has 24 bytes, and every access is to a half of it or to both:  *)
(* the first half is a mark and the two totals, the second half the date.  *)
(* A date is a pair, <<year and month, day>>.                              *)
(***************************************************************************)
EXTENDS Integers, Sequences

CONSTANTS Garbage,    \* what an uninitialised buffer can hold
          NetDates,   \* dates of the server
          Days,       \* values a day of the month in memory can have
          MainMax, FileMax,   \* places of main_mq and file_write_mq
          MaxTotal,   \* bound: parts counted in one session
          MaxCrashes  \* bound: power failures in a behaviour

Totals == [mark : Nat, total : Nat, qualified : Nat]
DateType == Nat \X Nat

ASSUME LogConstants ==
    /\ Garbage \subseteq Totals \X DateType /\ Garbage # {}
    /\ NetDates \subseteq DateType /\ Days \subseteq Nat
    /\ MainMax \in Nat \ {0} /\ FileMax \in Nat
    /\ MaxTotal \in Nat /\ MaxCrashes \in Nat

VARIABLES dir, exists,   \* on the disk: is there the directory, the file?
          file,          \* its halves, none to two of them
          fpc, rbuf,     \* file thread: next step, buffer
          info_t,        \* main thread: totals and date
          main_mq, file_mq,
          crashes,
          filled,        \* history: every info_t that was sent to the log
          mishaps        \* history: what went wrong so far, see Mishap

diskVars == <<dir, exists, file>>
vars == <<dir, exists, file, fpc, rbuf, info_t, main_mq, file_mq, crashes, filled, mishaps>>

ZeroTotals == [mark |-> 0, total |-> 0, qualified |-> 0]
ZeroDate == <<0, 0>>
Zeroes == <<ZeroTotals, ZeroDate>>

\* init_datastructure; the date is July 13th, 2022.
Fresh == [total |-> 0, qualified_amount |-> 0, date |-> <<202207, 13>>]

\* What every start begins with: the two queues are empty and the file thread
\* has not run.
Booted ==
    /\ fpc' = "start" /\ rbuf' \in Garbage /\ info_t' = Fresh
    /\ main_mq' = <<>> /\ file_mq' = <<>>

Init ==
    /\ dir = FALSE /\ exists = FALSE /\ file = <<>>
    /\ fpc = "start" /\ rbuf \in Garbage /\ info_t = Fresh
    /\ main_mq = <<>> /\ file_mq = <<>>
    /\ crashes = 0 /\ filled = {} /\ mishaps = {}

\* "open": the file system could not be mounted or the file not opened.
\* "full": other senders had filled main_mq.  "early": a part was measured before
\* the log was dealt with.
Mishap(m) == mishaps' = mishaps \cup {m}

\* rt_mq_send drops the message when the queue is full.
Send(q, max, m) == IF Len(q) < max THEN Append(q, m) ELSE q

-----------------------------------------------------------------------------
(* The file thread.                                                        *)

\* What a buffer holds after reading s into it: a short file leaves the rest.
Read(s, buf) == [i \in 1..2 |-> IF i <= Len(s) THEN s[i] ELSE buf[i]]

\* What the file holds after a write of its first half, its second, or both.
\* A gap before the second half reads as zeroes.
PutTotals(s, t) == IF Len(s) = 2 THEN <<t, s[2]>> ELSE <<t>>
PutDate(s, d) == IF s = <<>> THEN <<ZeroTotals, d>> ELSE <<s[1], d>>

\* file_wr_task: the file system runs or the thread ends; opening the
\* directory fails and it is created, or it is there.
Mount ==
    /\ fpc = "start"
    /\ \/ dir /\ fpc' = "read" /\ UNCHANGED <<dir, mishaps>>
       \/ ~dir /\ fpc' = "create" /\ dir' = TRUE /\ UNCHANGED mishaps
       \/ fpc' = "ended" /\ Mishap("open") /\ UNCHANGED dir
    /\ UNCHANGED <<exists, file, rbuf, info_t, main_mq, file_mq, crashes, filled>>

\* file_write: yaffs_open creates a missing file, empty, or fails; write and
\* flush follow as a step of their own.
Open(from, to, failed) ==
    /\ fpc = from
    /\ \/ fpc' = to /\ exists' = TRUE /\ UNCHANGED mishaps
       \/ fpc' = failed /\ Mishap("open") /\ UNCHANGED exists
    /\ UNCHANGED <<dir, file, rbuf, info_t, main_mq, file_mq, crashes, filled>>

Write(from, to, s) ==
    /\ fpc = from /\ fpc' = to /\ file' = s
    /\ UNCHANGED <<dir, exists, rbuf, info_t, main_mq, file_mq, crashes, filled, mishaps>>

OpenLog ==
    \/ Open("create", "zero", "read")
    \/ Open("openinfo", "writeinfo", "recv")
    \/ Open("opendate", "writedate", "recv")

WriteLog ==
    \/ Write("zero", "read", Zeroes)
    \/ Write("writeinfo", "recv", PutTotals(file, rbuf[1]))
    \/ Write("writedate", "recv", PutDate(file, rbuf[2]))

\* Mutant: a log is taken for blank without a look at its mark.
send_file_msg_Unmarked(buf) == [op |-> 2, log |-> buf[1], date |-> buf[2]]

\* send_file_msg: a zero mark is a blank log, message 2, anything else message 3.
send_file_msg(buf) ==
    [op |-> IF buf[1].mark = 0 THEN 2 ELSE 3, log |-> buf[1], date |-> buf[2]]

\* Mutant: the log is read and reported again before each message.
ReadLog_Again ==
    /\ fpc \in {"read", "recv"} /\ fpc' = "recv"
    /\ exists' = TRUE /\ rbuf' = Read(file, rbuf)
    /\ main_mq' = Send(main_mq, MainMax, send_file_msg(rbuf'))
    /\ UNCHANGED <<dir, file, info_t, file_mq, crashes, filled, mishaps>>

\* file_read opens the file like file_write does and does not look at how much
\* yaffs_read delivered.  A failed open leaves the thread without a report.
ReadLog ==
    /\ fpc = "read" /\ fpc' = "recv"
    /\ \/ /\ exists' = TRUE /\ rbuf' = Read(file, rbuf)
          /\ \/ /\ main_mq' = Send(main_mq, MainMax, send_file_msg(rbuf'))
                /\ UNCHANGED mishaps
             \/ Mishap("full") /\ UNCHANGED main_mq
       \/ Mishap("open") /\ UNCHANGED <<exists, rbuf, main_mq>>
    /\ UNCHANGED <<dir, file, info_t, file_mq, crashes, filled>>

\* The loop: message 1 carries totals, which are stored with the mark 3, and
\* message 2 a date.
Recv ==
    /\ fpc = "recv" /\ file_mq # <<>>
    /\ file_mq' = Tail(file_mq)
    /\ LET m == Head(file_mq) IN
         \/ /\ m.op = 1 /\ fpc' = "openinfo"
            /\ rbuf' = [rbuf EXCEPT ![1] = [m.log EXCEPT !.mark = 3]]
         \/ /\ m.op = 2 /\ fpc' = "opendate"
            /\ rbuf' = [rbuf EXCEPT ![2] = m.date]
    /\ UNCHANGED <<dir, exists, file, info_t, main_mq, crashes, filled, mishaps>>

FileThread == Mount \/ OpenLog \/ WriteLog \/ ReadLog \/ Recv

-----------------------------------------------------------------------------
(* The main thread.                                                        *)

Case(op) == main_mq # <<>> /\ Head(main_mq).op = op /\ main_mq' = Tail(main_mq)

send_info_to_file_msg(q, p) ==
    Send(q, FileMax, [op |-> 1, date |-> ZeroDate,
                      log |-> [mark |-> 1, total |-> p.total, qualified |-> p.qualified_amount]])
send_date_to_file_msg(q, p) ==
    Send(q, FileMax, [op |-> 2, log |-> ZeroTotals, date |-> p.date])

\* Mutant: only the date is sent.
FillLog_DateOnly ==
    /\ Case(2)
    /\ file_mq' = send_date_to_file_msg(file_mq, info_t)
    /\ filled' = filled \cup {info_t}
    /\ UNCHANGED <<dir, exists, file, fpc, rbuf, info_t, crashes, mishaps>>

\* case 2: fill a blank log.
FillLog ==
    /\ Case(2)
    /\ file_mq' = send_date_to_file_msg(send_info_to_file_msg(file_mq, info_t), info_t)
    /\ filled' = filled \cup {info_t}
    /\ UNCHANGED <<dir, exists, file, fpc, rbuf, info_t, crashes, mishaps>>

\* case 3: set_product_info.  The buffer has five words and the message six, so
\* the day is whatever follows the buffer in memory.
Restore ==
    /\ Case(3)
    /\ \E d \in Days :
         info_t' = LET m == Head(main_mq)
                   IN  [total |-> m.log.total, qualified_amount |-> m.log.qualified,
                        date |-> <<m.date[1], d>>]
    /\ UNCHANGED <<dir, exists, file, fpc, rbuf, file_mq, crashes, filled, mishaps>>

\* case 5: the date of the server.
SetDate ==
    /\ Case(5)
    /\ info_t' = [info_t EXCEPT !.date = Head(main_mq).date]
    /\ UNCHANGED <<dir, exists, file, fpc, rbuf, file_mq, crashes, filled, mishaps>>

\* The log has not been read yet, or what was read has not been dealt with.
Undecided ==
    \/ fpc \in {"start", "create", "zero", "read"}
    \/ \E i \in 1..Len(main_mq) : main_mq[i].op = 3

\* case 1, as far as the totals go.
add_porduct ==
    /\ info_t.total < MaxTotal
    /\ \E q \in {0, 1} :
         info_t' = [info_t EXCEPT !.total = @ + 1, !.qualified_amount = @ + q]
    /\ IF Undecided THEN Mishap("early") ELSE UNCHANGED mishaps
    /\ UNCHANGED <<dir, exists, file, fpc, rbuf, main_mq, file_mq, crashes, filled>>

MainThread == FillLog \/ Restore \/ SetDate \/ add_porduct

\* The NB-IoT thread got the date from the server.
NetDate ==
    /\ \A i \in 1..Len(main_mq) : main_mq[i].op # 5
    /\ \E d \in NetDates :
         main_mq' = Send(main_mq, MainMax, [op |-> 5, log |-> ZeroTotals, date |-> d])
    /\ UNCHANGED <<dir, exists, file, fpc, rbuf, info_t, file_mq, crashes, filled, mishaps>>

\* The power fails and comes back: the disk stays as it is.
PowerFails ==
    /\ crashes < MaxCrashes /\ crashes' = crashes + 1
    /\ Booted
    /\ UNCHANGED <<dir, exists, file, filled, mishaps>>

Next == FileThread \/ MainThread \/ NetDate \/ PowerFails

Spec == Init /\ [][Next]_vars
FairSpec == Spec /\ WF_vars(FileThread) /\ WF_vars(FillLog \/ Restore \/ SetDate)

-----------------------------------------------------------------------------
(* Properties.                                                             *)

Marked == file # <<>> /\ file[1].mark # 0

InfoType == [total : Nat, qualified_amount : Nat, date : DateType]
MsgType == [op : 1..5, log : Totals, date : DateType]

\* The state is well typed; the file has no second half without a first, and
\* file_write_mq holds only messages 1 and 2.
TypeOK ==
    /\ dir \in BOOLEAN /\ exists \in BOOLEAN
    /\ \/ file = <<>>
       \/ Len(file) = 1 /\ file \in Seq(Totals)
       \/ file \in Totals \X DateType
    /\ fpc \in {"start", "create", "zero", "read", "recv", "openinfo", "writeinfo",
                "opendate", "writedate", "ended"}
    /\ rbuf \in Totals \X DateType /\ info_t \in InfoType
    /\ main_mq \in Seq(MsgType) /\ \A i \in 1..Len(main_mq) : main_mq[i].op \in {2, 3, 5}
    /\ file_mq \in Seq(MsgType) /\ \A i \in 1..Len(file_mq) : file_mq[i].op \in {1, 2}
    /\ crashes \in Nat /\ filled \subseteq InfoType
    /\ mishaps \subseteq {"open", "full", "early"}

\* Unless opening the file failed, a marked log is one snapshot of info_t,
\* whatever power failures came in between: its totals are those of one FillLog,
\* and its date is of the same one or still blank (file_wr.c 72 and 77 write them
\* one after the other).
LogIsSnapshot ==
    Marked /\ "open" \notin mishaps => \E p \in filled :
       /\ file[1] = [mark |-> 3, total |-> p.total, qualified |-> p.qualified_amount]
       /\ Len(file) = 2 => file[2] \in {ZeroDate, p.date}

\* Totals that carry a mark are never written over, by no later start either:
\* the log is filled only in answer to message 2, which is sent for a log
\* without a mark.
LogWrittenOnce == [][Marked => file' # <<>> /\ file'[1] = file[1]]_vars

\* Message 3 tells the main thread what the file holds, if the file has both of
\* its halves.
RestoresLog ==
    \A i \in 1..Len(main_mq) :
       main_mq[i].op = 3 /\ Len(file) = 2 => <<main_mq[i].log, main_mq[i].date>> = file

\* The two places of file_write_mq are enough: nothing that main sends to the
\* file thread is dropped, as FillLog comes once in a session, to an empty queue.
FileQueueSuffices == main_mq # <<>> /\ Head(main_mq).op = 2 => Len(file_mq) + 2 <= FileMax

\* A blank log, with all its 24 bytes there, has totals in the end, once the
\* power stays on: a power failure before they are written only delays them.
\* Only a file that could not be opened or a report that was dropped prevents it.
BlankLogFilled == (Len(file) = 2 /\ ~Marked) ~> (Marked \/ mishaps \cap {"open", "full"} # {})

\* The log holds the totals there are when the power fails.
StatisticsSaved ==
    [][PowerFails /\ Marked => /\ file[1].total = info_t.total
                              /\ file[1].qualified = info_t.qualified_amount]_vars

\* A date that is restored is one that was logged.
DateRestored ==
    \A i \in 1..Len(main_mq) :
       main_mq[i].op = 3 => \E p \in filled : main_mq[i].date = p.date

\* A log that is not complete is reported as blank, not restored from.
InvalidLogFound == \A i \in 1..Len(main_mq) : main_mq[i].op = 3 => Len(file) = 2

\* What was counted in a session is not forgotten in it, as long as no part is
\* measured before case 3 ran: set_product_info overwrites the totals, nothing
\* else lowers them, and it comes at most once, before the first part.
CountsKept ==
    [][~PowerFails /\ "early" \notin mishaps => info_t'.total >= info_t.total]_vars
=============================================================================
