--------------------------- MODULE RtMessageQueue ---------------------------
(***************************************************************************)
(* The kernel's message queue (ipc.c): a pool of blocks, each free, linked *)
(* into the queue, or held by a thread that copies a message into or out   *)
(* of it with interrupts enabled.                                          *)
(*                                                                         *)
(* What the code does between rt_hw_interrupt_disable and _enable is one   *)
(* step; an interrupt handler that sends is a thread that never waits.   *)
(* All queues of the program are created with RT_IPC_FLAG_FIFO, so waiting *)
(* threads queue up in order.  Object management (create, detach, delete)  *)
(* is left out.                                                            *)
(***************************************************************************)
EXTENDS LinkedLists, FiniteSets

CONSTANTS Threads,
          Handlers,   \* those of them that are interrupt handlers and never wait
          Values,     \* messages
          None,       \* neither a message, nor a request to send one, nor a thread
          MaxMsgs,    \* blocks of the pool
          Timeouts    \* waiting times callers ask for

ASSUME PoolAssumption == MaxMsgs \in Nat \ {0}
ASSUME NoneAssumption ==
    /\ None \notin Values \cup Threads
    /\ \A v \in Values, f, p \in BOOLEAN : None # [val |-> v, front |-> f, placed |-> p]
ASSUME ThreadAssumption == IsFiniteSet(Threads)
ASSUME TimeoutAssumption == Timeouts \subseteq {"none", "ticks", "forever"}

Blocks == 1..MaxMsgs

VARIABLES next, data,           \* per block: link and message
          head, tail, entry,    \* msg_queue_head, msg_queue_tail, entry
          free,                 \* msg_queue_free
          recvq, sendq,         \* suspend_thread, suspend_sender_thread
          pc, msg, val, got,    \* per thread: position, block, argument, result
          error, timeout,       \* per thread: thread->error, remaining time
          resetting             \* the thread in rt_mq_control, interrupts off

\* History variables, read by no guard: the blocks behind head and behind free.
VARIABLES queued, unused

list  == <<head, tail, entry, queued>>
pool  == <<free, unused>>
wait  == <<recvq, sendq>>
call  == <<val, got, timeout, error>>
vars  == <<next, data, list, pool, wait, pc, msg, call, resetting>>

Init ==
    /\ next = [b \in Blocks |-> b - 1] /\ data = [b \in Blocks |-> None]
    /\ head = NULL /\ tail = NULL /\ entry = 0 /\ queued = <<>>
    /\ free = MaxMsgs /\ unused = [i \in Blocks |-> MaxMsgs + 1 - i]
    /\ recvq = <<>> /\ sendq = <<>>
    /\ pc = [t \in Threads |-> "idle"] /\ msg = [t \in Threads |-> NULL]
    /\ val = [t \in Threads |-> None] /\ got = [t \in Threads |-> None]
    /\ error = [t \in Threads |-> "EOK"] /\ timeout = [t \in Threads |-> "none"]
    /\ resetting = None

\* t, at one control point, goes on at another; interrupts are on.
Step(t, from, to) == resetting = None /\ pc[t] = from /\ pc' = [pc EXCEPT ![t] = to]
-----------------------------------------------------------------------------
\* Sending.

\* Mutant: the free pointer is not moved on.
GetFree_NoAdvance(t) ==
    /\ free # NULL
    /\ msg' = [msg EXCEPT ![t] = free]
    /\ UNCHANGED pool

GetFree(t) ==
    /\ free # NULL
    /\ msg' = [msg EXCEPT ![t] = free]
    /\ free' = next[free] /\ unused' = Tail(unused)

\* The calls of rt_mq_send_wait that do not have to wait: there is a free block,
\* or there is none and the caller does not want to wait.
SendNow(t, v) ==
    /\ Step(t, "idle", "copyin") /\ GetFree(t)
    /\ val' = [val EXCEPT ![t] = v]
    /\ UNCHANGED <<next, data, list, wait, got, timeout, error, resetting>>

SendFull(t) ==
    /\ Step(t, "idle", "idle") /\ free = NULL
    /\ UNCHANGED <<next, data, list, pool, wait, msg, call, resetting>>

SuspendSender(t, to) ==
    /\ free = NULL /\ to # "none"
    /\ sendq' = Append(sendq, t)
    /\ error' = [error EXCEPT ![t] = "EOK"] /\ timeout' = [timeout EXCEPT ![t] = to]
    /\ UNCHANGED <<next, data, list, pool, recvq, msg, got, resetting>>

SendWait(t, v, to) ==
    /\ Step(t, "idle", "sendwait") /\ SuspendSender(t, to)
    /\ val' = [val EXCEPT ![t] = v]

\* What is left of a waiting time, when the thread runs again.
Remaining(to) == IF to = "ticks" THEN {"ticks", "none"} ELSE {to}

\* Back from rt_schedule: an error ends the call, else the loop tries again.
SendFails(t) ==
    /\ Step(t, "sendready", "idle")
    /\ \/ error[t] # "EOK" /\ UNCHANGED timeout
       \/ /\ error[t] = "EOK" /\ free = NULL
          /\ "none" \in Remaining(timeout[t])
          /\ timeout' = [timeout EXCEPT ![t] = "none"]
    /\ UNCHANGED <<next, data, list, pool, wait, msg, val, got, error, resetting>>

SendAgain(t) ==
    /\ error[t] = "EOK"
    /\ \/ /\ Step(t, "sendready", "copyin") /\ GetFree(t)
          /\ UNCHANGED <<next, data, list, wait, call, resetting>>
       \/ /\ Step(t, "sendready", "sendwait") /\ UNCHANGED val
          /\ SuspendSender(t, timeout[t])

\* The block belongs to t alone while the message is copied into it.
CopyIn(t) ==
    /\ Step(t, "copyin", "linkin")
    /\ next' = [next EXCEPT ![msg[t]] = NULL]
    /\ data' = [data EXCEPT ![msg[t]] = val[t]]
    /\ UNCHANGED <<list, pool, wait, msg, call, resetting>>

\* Mutant: a receiver is resumed only by the first message of an empty queue.
Linked_First(t, from) ==
    /\ resetting = None /\ pc[t] = from
    /\ entry' = entry + 1
    /\ msg' = [msg EXCEPT ![t] = NULL]
    /\ \/ /\ recvq = <<>> \/ entry > 0
          /\ pc' = [pc EXCEPT ![t] = "idle"] /\ UNCHANGED recvq
       \/ /\ recvq # <<>> /\ entry = 0 /\ recvq' = Tail(recvq)
          /\ pc' = [pc EXCEPT ![t] = "idle", ![Head(recvq)] = "recvready"]
    /\ UNCHANGED <<data, pool, sendq, call, resetting>>

\* After linking, one waiting receiver is resumed.
Linked(t, from) ==
    /\ resetting = None /\ pc[t] = from
    /\ entry' = entry + 1
    /\ msg' = [msg EXCEPT ![t] = NULL]
    /\ \/ /\ recvq = <<>> /\ UNCHANGED recvq
          /\ pc' = [pc EXCEPT ![t] = "idle"]
       \/ /\ recvq # <<>> /\ recvq' = Tail(recvq)
          /\ pc' = [pc EXCEPT ![t] = "idle", ![Head(recvq)] = "recvready"]
    /\ UNCHANGED <<data, pool, sendq, call, resetting>>

\* Mutant: an ordinary message is linked in front of the others.
LinkIn_InFront(t) ==
    /\ Linked(t, "linkin")
    /\ next' = [next EXCEPT ![msg[t]] = head]
    /\ head' = msg[t]
    /\ tail' = IF tail = NULL THEN msg[t] ELSE tail
    /\ queued' = <<msg[t]>> \o queued

LinkIn(t) ==
    /\ Linked(t, "linkin")
    /\ next' = IF tail # NULL THEN [next EXCEPT ![tail] = msg[t]] ELSE next
    /\ tail' = msg[t]
    /\ head' = IF head = NULL THEN msg[t] ELSE head
    /\ queued' = Append(queued, msg[t])

\* rt_mq_urgent never waits and links the message in front.
UrgentNow(t, v) ==
    /\ Step(t, "idle", "copyurgent") /\ GetFree(t)
    /\ val' = [val EXCEPT ![t] = v]
    /\ UNCHANGED <<next, data, list, wait, got, timeout, error, resetting>>

CopyUrgent(t) ==
    /\ Step(t, "copyurgent", "linkurgent")
    /\ data' = [data EXCEPT ![msg[t]] = val[t]]
    /\ UNCHANGED <<next, list, pool, wait, msg, call, resetting>>

LinkUrgent(t) ==
    /\ Linked(t, "linkurgent")
    /\ next' = [next EXCEPT ![msg[t]] = head]
    /\ head' = msg[t]
    /\ tail' = IF tail = NULL THEN msg[t] ELSE tail
    /\ queued' = <<msg[t]>> \o queued
-----------------------------------------------------------------------------
\* Receiving.

\* Mutant: tail keeps pointing to a message that was taken.
Unlink_KeepTail ==
    /\ head' = next[head] /\ tail' = tail
    /\ queued' = Tail(queued)

Unlink ==
    /\ head' = next[head]
    /\ tail' = IF tail = head THEN NULL ELSE tail
    /\ queued' = Tail(queued)

GetHead(t) ==
    /\ entry # 0 /\ entry' = entry - 1
    /\ msg' = [msg EXCEPT ![t] = head]
    /\ Unlink

RecvNow(t) ==
    /\ Step(t, "idle", "copyout") /\ GetHead(t)
    /\ UNCHANGED <<next, data, pool, wait, call, resetting>>

SuspendReceiver(t, to) ==
    /\ entry = 0 /\ to # "none"
    /\ recvq' = Append(recvq, t)
    /\ error' = [error EXCEPT ![t] = "EOK"] /\ timeout' = [timeout EXCEPT ![t] = to]
    /\ UNCHANGED <<next, data, list, pool, sendq, msg, val, got, resetting>>

RecvWait(t, to) == Step(t, "idle", "recvwait") /\ SuspendReceiver(t, to)

RecvFails(t) ==
    /\ Step(t, "recvready", "idle")
    /\ \/ error[t] # "EOK" /\ UNCHANGED <<timeout, error>>
       \/ /\ error[t] = "EOK" /\ entry = 0
          /\ "none" \in Remaining(timeout[t])
          /\ timeout' = [timeout EXCEPT ![t] = "none"]
          /\ error' = [error EXCEPT ![t] = "ETIMEOUT"]
    /\ UNCHANGED <<next, data, list, pool, wait, msg, val, got, resetting>>

RecvAgain(t) ==
    /\ error[t] = "EOK"
    /\ \/ /\ Step(t, "recvready", "copyout") /\ GetHead(t)
          /\ UNCHANGED <<next, data, pool, wait, call, resetting>>
       \/ Step(t, "recvready", "recvwait") /\ SuspendReceiver(t, timeout[t])

CopyOut(t) ==
    /\ Step(t, "copyout", "putfree")
    /\ got' = [got EXCEPT ![t] = data[msg[t]]]
    /\ UNCHANGED <<next, data, list, pool, wait, msg, val, timeout, error, resetting>>

\* The block goes back to the free list and one waiting sender is resumed.
PutFree(t) ==
    /\ resetting = None /\ pc[t] = "putfree"
    /\ next' = [next EXCEPT ![msg[t]] = free]
    /\ free' = msg[t] /\ unused' = <<msg[t]>> \o unused
    /\ msg' = [msg EXCEPT ![t] = NULL]
    /\ \/ /\ sendq = <<>> /\ UNCHANGED sendq
          /\ pc' = [pc EXCEPT ![t] = "idle"]
       \/ /\ sendq # <<>> /\ sendq' = Tail(sendq)
          /\ pc' = [pc EXCEPT ![t] = "idle", ![Head(sendq)] = "sendready"]
    /\ UNCHANGED <<data, list, recvq, call, resetting>>
-----------------------------------------------------------------------------
\* rt_thread_timeout: the timer of a suspended thread takes it off its list.

Ready == [sendwait |-> "sendready", recvwait |-> "recvready"]

Expire(t, from) ==
    /\ Step(t, from, Ready[from]) /\ timeout[t] = "ticks"
    /\ error' = [error EXCEPT ![t] = "ETIMEOUT"]
    /\ UNCHANGED <<next, data, list, pool, msg, val, got, timeout, resetting>>

SenderTimeout(t) ==
    /\ Expire(t, "sendwait") /\ UNCHANGED recvq
    /\ \E i \in 1..Len(sendq) : sendq[i] = t /\ sendq' = Without(sendq, i)

ReceiverTimeout(t) ==
    /\ Expire(t, "recvwait") /\ UNCHANGED sendq
    /\ \E i \in 1..Len(recvq) : recvq[i] = t /\ recvq' = Without(recvq, i)

\* rt_mq_control(RT_IPC_CMD_RESET): resume everybody with an error, then move
\* the messages to the free list one by one, all with interrupts off.
Reset(t) ==
    /\ resetting = None /\ pc[t] = "idle" /\ resetting' = t
    /\ pc' = [u \in Threads |-> IF pc[u] \in DOMAIN Ready THEN Ready[pc[u]] ELSE pc[u]]
    /\ error' = [u \in Threads |-> IF pc[u] \in DOMAIN Ready THEN "ERROR" ELSE error[u]]
    /\ recvq' = <<>> /\ sendq' = <<>>
    /\ UNCHANGED <<next, data, list, pool, msg, val, got, timeout>>

ResetBlock ==
    /\ resetting # None /\ head # NULL
    /\ Unlink
    /\ next' = [next EXCEPT ![head] = free]
    /\ free' = head /\ unused' = <<head>> \o unused
    /\ UNCHANGED <<data, entry, wait, pc, msg, call, resetting>>

ResetDone ==
    /\ resetting # None /\ head = NULL
    /\ entry' = 0 /\ resetting' = None
    /\ UNCHANGED <<next, data, head, tail, queued, pool, wait, pc, msg, call>>
-----------------------------------------------------------------------------
Calls(t) ==
    \/ \E v \in Values : \/ SendNow(t, v) \/ UrgentNow(t, v)
                         \/ \E to \in Timeouts : t \notin Handlers /\ SendWait(t, v, to)
    \/ SendFull(t) \/ RecvNow(t)
    \/ \E to \in Timeouts : t \notin Handlers /\ RecvWait(t, to)
    \/ Reset(t)

Goes(t) ==
    \/ SendFails(t) \/ SendAgain(t) \/ CopyIn(t) \/ LinkIn(t)
    \/ CopyUrgent(t) \/ LinkUrgent(t)
    \/ RecvFails(t) \/ RecvAgain(t) \/ CopyOut(t) \/ PutFree(t)

Next == \/ \E t \in Threads : Calls(t) \/ Goes(t) \/ SenderTimeout(t) \/ ReceiverTimeout(t)
        \/ ResetBlock \/ ResetDone

Spec == Init /\ [][Next]_vars
-----------------------------------------------------------------------------
Points == {"idle", "sendwait", "sendready", "copyin", "linkin", "copyurgent",
           "linkurgent", "recvwait", "recvready", "copyout", "putfree"}
Holding == {"copyin", "linkin", "copyurgent", "linkurgent", "copyout", "putfree"}

PoolType ==
    /\ next \in [Blocks -> 0..MaxMsgs] /\ data \in [Blocks -> Values \cup {None}]
    /\ head \in 0..MaxMsgs /\ tail \in 0..MaxMsgs /\ free \in 0..MaxMsgs
    /\ entry \in Nat /\ queued \in Seq(Blocks) /\ unused \in Seq(Blocks)

ThreadType ==
    /\ recvq \in Seq(Threads) /\ sendq \in Seq(Threads)
    /\ pc \in [Threads -> Points] /\ msg \in [Threads -> 0..MaxMsgs]
    /\ \A t \in Threads : msg[t] # NULL <=> pc[t] \in Holding

CallType ==
    /\ val \in [Threads -> Values \cup {None}] /\ got \in [Threads -> Values \cup {None}]
    /\ error \in [Threads -> {"EOK", "ETIMEOUT", "ERROR"}]
    /\ timeout \in [Threads -> {"none", "ticks", "forever"}]
    /\ resetting \in Threads \cup {None}

\* Links point into the pool, positions and messages are what they may be, and
\* a thread has a block exactly while it copies or links.
TypeOK == PoolType /\ ThreadType /\ CallType

\* Following the links from head and from free gives exactly the messages sent
\* and not yet taken, and the free blocks; tail is the last message, and entry
\* counts them (while a reset runs, it has not been cleared yet).
ListsSound ==
    /\ Chain(next, head, queued) /\ Chain(next, free, unused)
    /\ tail = IF queued = <<>> THEN NULL ELSE queued[Len(queued)]
    /\ Len(queued) <= entry /\ (resetting = None => Len(queued) = entry)

Held(b) == \E t \in Threads : msg[t] = b

\* No block is lost and none is in two places: each is in the queue, in the free
\* list, or in the hands of one thread, which alone may write it.
BlocksConserved ==
    /\ \A b \in Blocks : \/ In(b, queued) /\ ~In(b, unused) /\ ~Held(b)
                         \/ ~In(b, queued) /\ In(b, unused) /\ ~Held(b)
                         \/ ~In(b, queued) /\ ~In(b, unused) /\ Held(b)
    /\ Distinct(queued) /\ Distinct(unused)
    /\ \A t, u \in Threads : msg[t] = msg[u] /\ msg[t] # NULL => t = u

Resumed(point) == {t \in Threads : pc[t] = point /\ error[t] = "EOK"}

\* No wake-up is lost, although a resumed thread may find that another one was
\* faster: while a receiver waits, every message has a resumed receiver coming
\* for it, and while a sender waits, every free block has a resumed sender.
NoLostWakeup ==
    resetting = None =>
        /\ recvq # <<>> => entry <= Cardinality(Resumed("recvready"))
        /\ sendq # <<>> => Len(unused) <= Cardinality(Resumed("sendready"))

\* What a thread is sending, as the abstract queue records it.
Wanted(t) ==
    CASE pc[t] \in {"sendwait", "sendready"} -> [val |-> val[t], front |-> FALSE, placed |-> FALSE]
      [] pc[t] \in {"copyin", "linkin"} -> [val |-> val[t], front |-> FALSE, placed |-> TRUE]
      [] pc[t] \in {"copyurgent", "linkurgent"} -> [val |-> val[t], front |-> TRUE, placed |-> TRUE]
      [] OTHER -> None

\* As its users see it, the pool of blocks is a bounded queue: a receiver gets
\* the message it took from the front, even though it reads the block later.
Queue == INSTANCE BoundedQueue WITH
    Places <- MaxMsgs,
    q <- [i \in 1..Len(queued) |-> data[queued[i]]],
    used <- MaxMsgs - Len(unused),
    want <- [t \in Threads |-> Wanted(t)],
    got <- [t \in Threads |-> IF pc[t] = "copyout" THEN data[msg[t]] ELSE got[t]]

\* Every step of the pool is a step of the bounded queue, or none at all.
IsBoundedQueue == Queue!Spec

Fairness == /\ \A t \in Threads : WF_vars(Goes(t))
            /\ WF_vars(ResetBlock \/ ResetDone)

FairSpec == Spec /\ Fairness

\* With threads that are scheduled again and again, waiting receivers and
\* messages never stay together: the message is taken, or the wait is over.
Served == (recvq # <<>> /\ entry > 0) ~> (recvq = <<>> \/ entry = 0)
=============================================================================
