------------------------------- MODULE NbConn -------------------------------
(***************************************************************************)
(* The NB-IoT thread of nb_conn.c, the modem it talks to and the receive   *)
(* buffer between them.  A command is written, a fixed time passes, and    *)
(* what has come in by then is read, up to a fixed number of bytes; what   *)
(* comes later, or does not fit, stays for the next read.                  *)
(*                                                                         *)
(* The receive buffer is a sequence of texts.  Of a text only its length,  *)
(* whether it ends in OK, and what it tells are kept.                      *)
(***************************************************************************)
EXTENDS Integers, Sequences, SequencesExt

CONSTANTS Feed,        \* the samples the main thread sends, in this order
          Quality,     \* signal qualities of the modem: one or two characters
          Date,        \* the date of the server: eight characters
          Noise,       \* what two characters of a stack buffer can be
          MainMax, NbiotMax,   \* places of main_mq and nbiot_mq
          UART_BUF_SIZE,
          MaxFaults,   \* bound: things lost or refused, or read too early
          MaxBehind,   \* bound: commands under way to the modem
          MaxSpoiled   \* samples that may be lost after a read too early

ASSUME NbConstants ==
    /\ \A i \in 1..Len(Feed) : Feed[i] \in Seq(Nat) /\ Len(Feed[i]) = 12
    /\ \A c \in Quality : c \in Seq(Nat) /\ Len(c) \in {1, 2}
    /\ Date \in Seq(Nat) /\ Len(Date) = 8
    /\ \A c \in Noise : c \in Seq(Nat) /\ Len(c) = 2
    /\ {MainMax, NbiotMax, UART_BUF_SIZE} \subseteq Nat \ {0}
    /\ {MaxFaults, MaxBehind, MaxSpoiled} \subseteq Nat

VARIABLES step, sent,  \* the exchange the thread is in; is the command written?
          flag,        \* the connection state, as the thread sees it
          mqbuf,       \* the sample being published
          acked,       \* identifier of the last sample reported as published
          wire, air,   \* commands under way to the modem, texts from it
          rx,          \* the receive buffer
          echo, link,  \* the modem: does it echo, how far is its connection?
          server,      \* what the server received, in this order
          fed,         \* how many samples the main thread has sent
          main_mq, nbiot_mq,
          truth,       \* history: signal quality the modem told last
          claims,      \* history: samples reported as published
          faults,      \* history: faults so far
          fails,       \* history: failed samples since the last fault
          trouble      \* history: "init", a fault during nb_init; "late", a read too early

vars == <<step, sent, flag, mqbuf, acked, wire, air, rx, echo, link, server, fed,
          main_mq, nbiot_mq, truth, claims, faults, fails, trouble>>

NoId == -1

Init ==
    /\ step = "AT" /\ sent = FALSE /\ flag = 0 /\ mqbuf = <<>> /\ acked = NoId
    /\ wire = <<>> /\ air = <<>> /\ rx = <<>>
    /\ echo = TRUE /\ link = "none" /\ server = <<>>
    /\ fed = 0 /\ main_mq = <<>> /\ nbiot_mq = <<>>
    /\ truth = <<>> /\ claims = {} /\ faults = 0 /\ fails = 0
    /\ trouble = {}

\* Mutant: nobody looks whether there is a place left.
Send_Overfill(mq, max, m) == Append(mq, m)

Send(mq, max, m) == IF Len(mq) < max THEN Append(mq, m) ELSE mq

-----------------------------------------------------------------------------
(* Texts and bytes.                                                        *)

\* How many bytes each command has, and how many the read after it takes.
Length == [AT |-> 4, ATE0 |-> 6, CSQ |-> 8, CSOC |-> 15, CSOCON |-> 33, CSOCL |-> 12,
           CMQDISCON |-> 16, CMQNEW |-> 80, CMQALICFG |-> 73, CMQALICON |-> 22,
           CMQPUB |-> 199]
Limit == [AT |-> 16, ATE0 |-> 16, CSQ |-> 20, CSOC |-> 20, CSOCON |-> 50,
          CMQNEW |-> 40, CMQALICFG |-> 40, CMQALICON |-> 40, ping |-> 16, CMQPUB |-> 60]

Text(len, ok, tells) == [len |-> len, ok |-> ok, tells |-> tells]

\* Bytes in the first i texts of s.
Bytes(s, i) == FoldLeft(LAMBDA n, t : n + t.len, 0, SubSeq(s, 1, i))
Total(s) == Bytes(s, Len(s))

\* s without its first n bytes; a text that lost some of its own tells nothing.
Drop(s, n) ==
    LET k == CHOOSE k \in 0..Len(s) :
                Bytes(s, k) <= n /\ (k < Len(s) => Bytes(s, k + 1) > n)
        cut == n - Bytes(s, k)
    IN  IF k = Len(s) THEN <<>>
        ELSE IF cut = 0 THEN SubSeq(s, k + 1, Len(s))
        ELSE <<Text(s[k + 1].len - cut, s[k + 1].ok, <<>>)>> \o SubSeq(s, k + 2, Len(s))

\* The ring of ns16550.c: the oldest bytes are overwritten.
Received(s, t) ==
    LET new == Append(s, t)
    IN  Drop(new, IF Total(new) > UART_BUF_SIZE THEN Total(new) - UART_BUF_SIZE ELSE 0)

\* rt_device_read takes what is there, up to the limit.
Taken(c) == IF Total(rx) < Limit[c] THEN Total(rx) ELSE Limit[c]

\* Mutant: any answer of four bytes or more will do.
parse_ok_Length(l) == l >= 4

\* Are the l bytes read from rx four or more, and do they end in OK?
parse_ok(l) == l >= 4 /\ \E i \in 1..Len(rx) : Bytes(rx, i) = l /\ rx[i].ok

-----------------------------------------------------------------------------
(* The thread.                                                             *)

\* What is written in each exchange.  CMQDISCON goes out right before CMQNEW,
\* and nobody reads its answer.
Commands(c) ==
    CASE c = "CMQNEW" -> <<"CMQDISCON", "CMQNEW">>
      [] c = "ping" -> <<"AT">>
      [] OTHER -> <<c>>

\* set_at_cmd puts identifier, voltage, verdict and threshold into the text of
\* CMQPUB, character by character.
set_at_cmd(r) ==
    [id |-> SubSeq(r, 6, 8), v |-> SubSeq(r, 1, 4), q |-> r[5], th |-> SubSeq(r, 9, 12)]
NoText == "none"
Command(c) == [cmd |-> c, text |-> IF c = "CMQPUB" THEN set_at_cmd(mqbuf) ELSE NoText]

\* rt_device_write, then the delay.
Write ==
    /\ step # "loop" /\ ~sent /\ sent' = TRUE
    /\ Len(wire) + Len(Commands(step)) <= MaxBehind
    /\ wire' = wire \o [i \in 1..Len(Commands(step)) |-> Command(Commands(step)[i])]
    /\ UNCHANGED <<step, flag, mqbuf, acked, air, rx, echo, link, server, fed, main_mq,
                   nbiot_mq, truth, claims, faults, fails, trouble>>

\* A fault starts a new count of fails.
Fault(kinds) ==
    /\ faults < MaxFaults /\ faults' = faults + 1 /\ fails' = 0
    /\ trouble' = trouble \cup kinds \cup IF step \in {"AT", "ATE0"} THEN {"init"} ELSE {}
NoFault == UNCHANGED <<faults, fails, trouble>>

\* The read after the delay, too early if something is still under way.
Late == wire # <<>> \/ air # <<>>
Reads(c, failed) ==
    /\ step = c /\ sent /\ sent' = FALSE
    /\ rx' = Drop(rx, Taken(c))
    /\ IF Late THEN Fault({"late"})
       ELSE /\ fails' = IF failed THEN fails + 1 ELSE fails
            /\ UNCHANGED <<faults, trouble>>
    /\ UNCHANGED <<air, echo, link, server, fed, nbiot_mq, truth>>

\* nb_init: without an answer to AT, ATE0 is not tried.  Its result is ignored.
nb_init ==
    /\ \/ /\ Reads("AT", FALSE)
          /\ step' = IF parse_ok(Taken("AT")) THEN "ATE0" ELSE "CSQ"
       \/ Reads("ATE0", FALSE) /\ step' = "CSQ"
    /\ UNCHANGED <<flag, mqbuf, acked, wire, main_mq, claims>>

\* Bytes 8 and 9 of an answer to CSQ; of anything else they are noise.
comma == 44
QualityRead ==
    IF rx # <<>> /\ Len(rx[1].tells) \in {1, 2} THEN {SubSeq(Append(rx[1].tells, comma), 1, 2)}
    ELSE Noise

nb_get_csq ==
    /\ Reads("CSQ", FALSE) /\ step' = "CSOC"
    /\ \/ /\ parse_ok(Taken("CSQ"))
          /\ \E c \in QualityRead : main_mq' = Send(main_mq, MainMax, [op |-> 4, val |-> c])
       \/ ~parse_ok(Taken("CSQ")) /\ UNCHANGED main_mq
    /\ UNCHANGED <<flag, mqbuf, acked, wire, claims>>

\* Every other byte from 23 on of an answer to CSOCON; noise otherwise.
DateRead ==
    IF rx # <<>> /\ Len(rx[1].tells) = 8 THEN {rx[1].tells}
    ELSE {[i \in 1..8 |-> c[1]] : c \in Noise}

\* nb_get_time: a socket, the date, and the socket is closed.  The answer to the
\* last command is not read.
OpenSocket ==
    /\ Reads("CSOC", FALSE)
    /\ step' = IF parse_ok(Taken("CSOC")) THEN "CSOCON" ELSE "loop"
    /\ UNCHANGED <<flag, mqbuf, acked, wire, main_mq, claims>>

FetchTime ==
    /\ Reads("CSOCON", FALSE) /\ step' = "loop"
    /\ \/ /\ Taken("CSOCON") = 48
          /\ \E d \in DateRead : main_mq' = Send(main_mq, MainMax, [op |-> 5, val |-> d])
          /\ wire' = Append(wire, Command("CSOCL"))
       \/ Taken("CSOCON") # 48 /\ UNCHANGED <<main_mq, wire>>
    /\ UNCHANGED <<flag, mqbuf, acked, claims>>

\* The loop of nb_comm: connect first, unless flag says it is done.
TakeSample ==
    /\ step = "loop" /\ nbiot_mq # <<>>
    /\ mqbuf' = Head(nbiot_mq).val /\ nbiot_mq' = Tail(nbiot_mq)
    /\ step' = IF flag = 0 THEN "CMQNEW" ELSE "ping"
    /\ UNCHANGED <<sent, flag, acked, wire, air, rx, echo, link, server, fed, main_mq,
                   truth, claims, faults, fails, trouble>>

\* Mutant: a sample that fails is tried again.
GiveUp_Retry ==
    /\ step' = "CMQNEW"
    /\ UNCHANGED <<mqbuf, acked, wire, main_mq, claims>>

\* nb_send_v_q returns -1: the sample is dropped.
GiveUp ==
    /\ step' = "loop" /\ mqbuf' = <<>>
    /\ UNCHANGED <<acked, wire, main_mq, claims>>

Connect(c, next) ==
    /\ Reads(c, ~parse_ok(Taken(c))) /\ UNCHANGED flag
    /\ \/ /\ parse_ok(Taken(c)) /\ step' = next
          /\ UNCHANGED <<mqbuf, acked, wire, main_mq, claims>>
       \/ ~parse_ok(Taken(c)) /\ GiveUp

\* Mutant: the main thread is told of the connection as if of a sample.
Connected_Tells ==
    /\ Reads("CMQALICON", ~parse_ok(Taken("CMQALICON")))
    /\ \/ /\ parse_ok(Taken("CMQALICON")) /\ flag' = 1 /\ step' = "ping"
          /\ main_mq' = Send(main_mq, MainMax, [op |-> 8, val |-> <<>>])
          /\ UNCHANGED <<mqbuf, acked, wire, claims>>
       \/ ~parse_ok(Taken("CMQALICON")) /\ UNCHANGED flag /\ GiveUp

Connected ==
    /\ Reads("CMQALICON", ~parse_ok(Taken("CMQALICON")))
    /\ \/ /\ parse_ok(Taken("CMQALICON")) /\ flag' = 1 /\ step' = "ping"
          /\ UNCHANGED <<mqbuf, acked, wire, main_mq, claims>>
       \/ ~parse_ok(Taken("CMQALICON")) /\ UNCHANGED flag /\ GiveUp

\* The answer to this AT is not looked at.
Ping ==
    /\ Reads("ping", FALSE) /\ step' = "CMQPUB"
    /\ UNCHANGED <<flag, mqbuf, acked, wire, main_mq, claims>>

SampleId(r) == (r[6] - 48) * 100 + (r[7] - 48) * 10 + r[8] - 48

\* Mutant: a failure leaves the connection flag set.
Publish_KeepFlag ==
    /\ Reads("CMQPUB", ~parse_ok(Taken("CMQPUB")))
    /\ \/ /\ parse_ok(Taken("CMQPUB")) /\ flag' = 1 /\ step' = "loop" /\ mqbuf' = <<>>
          /\ main_mq' = Send(main_mq, MainMax, [op |-> 8, val |-> <<>>])
          /\ acked' = SampleId(mqbuf) /\ claims' = claims \cup {mqbuf}
          /\ UNCHANGED wire
       \/ ~parse_ok(Taken("CMQPUB")) /\ UNCHANGED flag /\ GiveUp

\* The main thread is told of a success; a failure ends the connection.
Publish ==
    /\ Reads("CMQPUB", ~parse_ok(Taken("CMQPUB")))
    /\ \/ /\ parse_ok(Taken("CMQPUB")) /\ flag' = 1 /\ step' = "loop" /\ mqbuf' = <<>>
          /\ main_mq' = Send(main_mq, MainMax, [op |-> 8, val |-> <<>>])
          /\ acked' = SampleId(mqbuf) /\ claims' = claims \cup {mqbuf}
          /\ UNCHANGED wire
       \/ ~parse_ok(Taken("CMQPUB")) /\ flag' = 0 /\ GiveUp

nb_get_time == OpenSocket \/ FetchTime
nb_send_v_q ==
    \/ Connect("CMQNEW", "CMQALICFG") \/ Connect("CMQALICFG", "CMQALICON")
    \/ Connected \/ Ping \/ Publish
nb_comm == Write \/ nb_init \/ nb_get_csq \/ nb_get_time \/ TakeSample \/ nb_send_v_q

-----------------------------------------------------------------------------
(* The modem and the line to it.                                           *)

Ok == Text(6, TRUE, <<>>)
Error == Text(9, FALSE, <<>>)
threadVars == <<step, sent, flag, mqbuf, acked, claims, main_mq, nbiot_mq, fed>>

\* The modem carries out the next command and answers; with the echo on, the
\* command comes back first.
Answers(t) ==
    LET c == Head(wire).cmd
    IN  /\ wire' = Tail(wire)
        /\ air' = air \o (IF echo THEN <<Text(Length[c], FALSE, <<>>)>> ELSE <<>>) \o <<t>>
        /\ UNCHANGED <<threadVars, rx>>
Gets(c) == wire # <<>> /\ Head(wire).cmd = c

Simple ==
    /\ Gets("AT") \/ Gets("ATE0") \/ Gets("CSOC") \/ Gets("CSOCL")
    /\ Answers(IF Gets("CSOC") THEN Text(18, TRUE, <<>>) ELSE Ok)
    /\ echo' = (echo /\ ~Gets("ATE0"))
    /\ NoFault /\ UNCHANGED <<link, server, truth>>

TellQuality ==
    /\ Gets("CSQ")
    /\ \E q \in Quality : Answers(Text(18 + Len(q), TRUE, q)) /\ truth' = q
    /\ NoFault /\ UNCHANGED <<echo, link, server>>

TellTime ==
    /\ Gets("CSOCON") /\ Answers(Text(48, FALSE, Date))
    /\ NoFault /\ UNCHANGED <<echo, link, server, truth>>

\* The connection is made in three steps and each answers ERROR out of turn.
Order == [CMQNEW |-> <<"none", "new">>, CMQALICFG |-> <<"new", "cfg">>,
          CMQALICON |-> <<"cfg", "con">>]
MqttStep ==
    /\ \E c \in DOMAIN Order :
         /\ Gets(c)
         /\ \/ /\ link = Order[c][1] /\ link' = Order[c][2]
               /\ Answers(IF c = "CMQNEW" THEN Text(20, TRUE, <<>>) ELSE Ok)
            \/ link # Order[c][1] /\ UNCHANGED link /\ Answers(Error)
    /\ NoFault /\ UNCHANGED <<echo, server, truth>>

MqttDisconnect ==
    /\ Gets("CMQDISCON") /\ link' = "none"
    /\ Answers(IF link = "none" THEN Error ELSE Ok)
    /\ NoFault /\ UNCHANGED <<echo, server, truth>>

MqttPublish ==
    /\ Gets("CMQPUB")
    /\ \/ link = "con" /\ server' = Append(server, Head(wire).text) /\ Answers(Ok)
       \/ link # "con" /\ UNCHANGED server /\ Answers(Error)
    /\ NoFault /\ UNCHANGED <<echo, link, truth>>

\* The network refuses what needs it.
Refuse ==
    /\ \E c \in {"CSOCON", "CMQNEW", "CMQALICON", "CMQPUB"} : Gets(c)
    /\ Answers(Error) /\ Fault({}) /\ UNCHANGED <<echo, link, server, truth>>

\* The connection breaks; a command or an answer is lost.
LinkBreaks ==
    /\ link = "con" /\ link' = "none" /\ Fault({})
    /\ UNCHANGED <<threadVars, wire, air, rx, echo, server, truth>>
LoseCommand ==
    /\ wire # <<>> /\ wire' = Tail(wire) /\ Fault({})
    /\ UNCHANGED <<threadVars, air, rx, echo, link, server, truth>>
LoseAnswer ==
    /\ air # <<>> /\ air' = Tail(air) /\ Fault({})
    /\ UNCHANGED <<threadVars, wire, rx, echo, link, server, truth>>

\* A text comes in.
Arrive ==
    /\ air # <<>> /\ air' = Tail(air) /\ rx' = Received(rx, Head(air))
    /\ NoFault /\ UNCHANGED <<threadVars, wire, echo, link, server, truth>>

Modem == Simple \/ TellQuality \/ TellTime \/ MqttStep \/ MqttDisconnect \/ MqttPublish
         \/ Refuse \/ LinkBreaks \/ LoseCommand \/ LoseAnswer \/ Arrive

-----------------------------------------------------------------------------
(* The main thread sends samples and takes messages.                       *)

send_nb_msg ==
    /\ fed < Len(Feed) /\ fed' = fed + 1
    /\ nbiot_mq' = Send(nbiot_mq, NbiotMax, [op |-> 1, val |-> Feed[fed + 1]])
    /\ UNCHANGED <<step, sent, flag, mqbuf, acked, wire, air, rx, echo, link, server,
                   main_mq, truth, claims, faults, fails, trouble>>

MainTakes ==
    /\ main_mq # <<>> /\ main_mq' = Tail(main_mq)
    /\ UNCHANGED <<step, sent, flag, mqbuf, acked, wire, air, rx, echo, link, server, fed,
                   nbiot_mq, truth, claims, faults, fails, trouble>>

MainThread == send_nb_msg \/ MainTakes

Next == nb_comm \/ Modem \/ MainThread
Spec == Init /\ [][Next]_vars

-----------------------------------------------------------------------------
(* Properties.                                                             *)

TextType == [len : Nat, ok : BOOLEAN, tells : Seq(Nat)]
Posted(op) == {main_mq[i].val : i \in {j \in 1..Len(main_mq) : main_mq[j].op = op}}

\* The state is well typed; the receive buffer holds no more than its ring has
\* places, and what is posted to the main thread has the length its case reads.
TypeOK ==
    /\ step \in DOMAIN Limit \cup {"loop"} /\ sent \in BOOLEAN /\ flag \in {0, 1}
    /\ mqbuf \in Seq(Nat) /\ acked \in Nat \cup {NoId}
    /\ \A i \in 1..Len(wire) : wire[i].cmd \in DOMAIN Length
    /\ air \in Seq(TextType) /\ rx \in Seq(TextType) /\ Total(rx) <= UART_BUF_SIZE
    /\ echo \in BOOLEAN /\ link \in {"none", "new", "cfg", "con"}
    /\ fed \in 0..Len(Feed) /\ Len(nbiot_mq) <= NbiotMax /\ Len(main_mq) <= MainMax
    /\ \A c \in Posted(4) : Len(c) = 2
    /\ \A d \in Posted(5) : Len(d) = 8

\* The server gets each sample at most once, in the order of measuring and with
\* the values measured, whatever is lost, late or refused: a sample that failed
\* is dropped (nb_conn.c 228), never sent a second time.
PublishedInOrder ==
    LET at(i) == {j \in 1..Len(Feed) : server[i] = set_at_cmd(Feed[j])}
    IN  \A i \in 1..Len(server) :
          /\ at(i) # {}
          /\ i > 1 => \A j \in at(i - 1), k \in at(i) : j < k

\* As long as no read came too early, "published" (message 8) is told to the main
\* thread only of samples that the server has, whatever is lost or refused.
AckedIsPublished ==
    "late" \notin trouble => \A r \in claims : \E i \in 1..Len(server) : server[i] = set_at_cmd(r)

\* The signal quality posted is the one the modem told, as long as nb_init went
\* well, no read came too early and the quality has two digits.
QualityTold ==
    trouble = {} => \A c \in Posted(4) : truth # <<>> /\ (Len(truth) = 2 => c = truth)

\* The date posted is the server's: no mixture of late and cut texts has just
\* the 48 bytes nb_get_time looks for.
DateTold == Posted(5) \subseteq {Date}

\* If nb_init went well, at most one sample fails after the last fault before the
\* thread and the modem are in step again, or MaxSpoiled samples if a read came
\* too early: old texts in the receive buffer are then taken for answers, but
\* each read removes more than each attempt adds.
SoonInStep ==
    "init" \notin trouble => fails <= IF "late" \in trouble THEN MaxSpoiled ELSE 1

\* The dialogue implements the NB-IoT thread of Services, which the composed
\* model uses: one answer or none to each question, one report or none for each
\* sample, in this order.
Service == INSTANCE Services WITH
    nbpc <- CASE step \in {"AT", "ATE0", "CSQ"} -> "csq"
              [] step \in {"CSOC", "CSOCON"} -> "time"
              [] step = "loop" -> "loop"
              [] OTHER -> "publish",
    sample <- mqbuf, fpc <- "loop", output_mq <- <<>>, file_mq <- <<>>,
    OutputMax <- 1, FileMax <- 1, Online <- TRUE, Saved <- {}, Dates <- {Date},
    Csqs <- Noise \cup {SubSeq(Append(q, comma), 1, 2) : q \in Quality}
ImplementsService ==
    [][\/ Service!nb_get_csq \/ Service!nb_get_time
       \/ Service!TakeSample \/ Service!nb_send_v_q
       \/ MainThread
      ]_<<Service!serviceVars, main_mq, nbiot_mq>>
=============================================================================
