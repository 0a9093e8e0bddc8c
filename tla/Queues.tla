------------------------------- MODULE Queues -------------------------------
(***************************************************************************)
(* The four message queues main() creates, seen from their users: bounded  *)
(* FIFO queues.  That the kernel's linked blocks behave as such a queue is *)
(* shown by RtMessageQueue and RtMessageQueueTheorems.                     *)
(*                                                                         *)
(* A message is a record: op is val_arr[0], val the words that follow.     *)
(***************************************************************************)
EXTENDS Naturals, Sequences

CONSTANTS MainMax,     \* capacity of main_mq: 6 in main()
          OutputMax,   \* capacity of output_datas_mq: 4
          NbiotMax,    \* capacity of nbiot_mq: 2
          FileMax      \* capacity of file_write_mq: 2

ASSUME QueueSizes == {MainMax, OutputMax, NbiotMax, FileMax} \subseteq Nat \ {0}

VARIABLES main_mq,     \* interrupts and threads -> main thread
          output_mq,   \* main thread -> flush thread
          nbiot_mq,    \* main thread -> NB-IoT thread
          file_mq      \* main thread -> file thread

queueVars == <<main_mq, output_mq, nbiot_mq, file_mq>>

Msg(op, val) == [op |-> op, val |-> val]

Messages == [op : 1..9, val : Seq(Nat)]

\* What follows val_arr[0] on main_mq: the log, signal quality, date.
MainMessages ==
    {m \in Messages : /\ m.op = 3 => Len(m.val) = 5
                      /\ m.op = 4 => Len(m.val) = 2
                      /\ m.op = 5 => Len(m.val) = 8}

\* rt_mq_send never waits: into a full queue it returns -RT_EFULL, which no
\* caller of the application looks at, so the message is lost.
rt_mq_send(mq, max, msg) == IF Len(mq) < max THEN Append(mq, msg) ELSE mq
=============================================================================
