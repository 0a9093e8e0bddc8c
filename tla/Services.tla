------------------------------ MODULE Services ------------------------------
(***************************************************************************)
(* The NB-IoT thread (priority 17) and the file thread (priority 18) as    *)
(* the main thread sees them: which messages they take and which they      *)
(* post.                                                                   *)
(***************************************************************************)
EXTENDS Integers, Queues

CONSTANTS Saved,      \* what a log can hold: total, qualified, year, month, day
          Csqs,       \* signal qualities of the modem, as two characters
          Dates,      \* dates of the server, as eight characters
          Online      \* can samples be published?

ASSUME ServiceConstants ==
    /\ \A m \in Saved : m \in Seq(Nat) /\ Len(m) = 5
    /\ \A c \in Csqs : c \in Seq(Nat) /\ Len(c) = 2
    /\ \A d \in Dates : d \in Seq(Nat) /\ Len(d) = 8
    /\ Online \in BOOLEAN

VARIABLES nbpc,       \* NB-IoT thread: next thing it does
          sample,     \* the sample it is publishing
          acked,      \* identifier of the last sample published
          fpc         \* file thread: start-up or loop

serviceVars == <<nbpc, sample, acked, fpc>>

NoId == -1

ServicesInit == nbpc = "csq" /\ sample = <<>> /\ acked = NoId /\ fpc = "start"

\* The number that characters from..to of a sample spell; 6 to 8 spell its
\* identifier.
Spelled(s, from, to) ==
    LET n[k \in (from - 1)..to] == IF k < from THEN 0 ELSE 10 * n[k - 1] + s[k] - 48
    IN  n[to]
SampleId(s) == Spelled(s, 6, 8)

\* nb_get_csq and nb_get_time post the answer, or nothing when the modem does
\* not give one.  Before them nb_init, whose result is ignored, wakes the modem.
nb_get_csq ==
    /\ nbpc = "csq" /\ nbpc' = "time"
    /\ \/ \E c \in Csqs : main_mq' = rt_mq_send(main_mq, MainMax, Msg(4, c))
       \/ UNCHANGED main_mq
    /\ UNCHANGED <<sample, acked, fpc, nbiot_mq, file_mq>>

nb_get_time ==
    /\ nbpc = "time" /\ nbpc' = "loop"
    /\ \/ \E d \in Dates : main_mq' = rt_mq_send(main_mq, MainMax, Msg(5, d))
       \/ UNCHANGED main_mq
    /\ UNCHANGED <<sample, acked, fpc, nbiot_mq, file_mq>>

\* nb_comm takes a sample; two seconds or more later it is published, and the
\* main thread is told, or the attempt is given up.
TakeSample ==
    /\ nbpc = "loop" /\ nbiot_mq # <<>>
    /\ nbpc' = "publish" /\ sample' = Head(nbiot_mq).val /\ nbiot_mq' = Tail(nbiot_mq)
    /\ UNCHANGED <<acked, fpc, main_mq, file_mq>>

nb_send_v_q ==
    /\ nbpc = "publish" /\ nbpc' = "loop"
    /\ \/ /\ Online
          /\ main_mq' = rt_mq_send(main_mq, MainMax, Msg(8, <<>>))
          /\ acked' = SampleId(sample)
       \/ UNCHANGED <<main_mq, acked>>
    /\ sample' = <<>>
    /\ UNCHANGED <<fpc, nbiot_mq, file_mq>>

\* file_wr_task reads the log once and reports it, blank or not; reading or
\* mounting can fail.  Afterwards it writes what it is sent.
ReadLog ==
    /\ fpc = "start" /\ fpc' = "loop"
    /\ \/ main_mq' = rt_mq_send(main_mq, MainMax, Msg(2, <<>>))
       \/ \E s \in Saved : main_mq' = rt_mq_send(main_mq, MainMax, Msg(3, s))
       \/ UNCHANGED main_mq
    /\ UNCHANGED <<nbpc, sample, acked, nbiot_mq, file_mq>>

WriteLog ==
    /\ fpc = "loop" /\ file_mq # <<>> /\ file_mq' = Tail(file_mq)
    /\ UNCHANGED <<serviceVars, main_mq, nbiot_mq>>
=============================================================================
