------------------------------ MODULE RtEvent ------------------------------
(***************************************************************************)
(* Event sets (ipc.c) on the kernel's threads, and the touch panel's event *)
(* at start-up: XPT2046_initialize unmasks the interrupt that sends it     *)
(* before start_touchscreen_task creates it.                               *)
(*                                                                         *)
(* Threads wait for all or for any of some flags, with or without a        *)
(* timeout, and may clear what they receive; threads and interrupts send.  *)
(* rt_event_control and rt_event_delete are not called by the program.     *)
(***************************************************************************)
EXTENDS RtThreads

CONSTANTS event,      \* the event object
          Flags,      \* flags of the event
          Options,    \* what threads ask for: [set, and, clear]
          Receivers,  \* threads that wait for the event
          Senders,    \* threads that send it
          Flag,       \* RT_IPC_FLAG_FIFO or RT_IPC_FLAG_PRIO
          WaitTimes   \* times to wait: 0, a number of ticks, or -1 for ever

ASSUME EventAssumption ==
    /\ IpcObjects = {event} /\ Flag \in {"FIFO", "PRIO"}
    /\ Options \subseteq [set : SUBSET Flags \ {{}}, and : BOOLEAN, clear : BOOLEAN]
    /\ Receivers \cup Senders \subseteq Threads \ {idle}
    /\ WaitTimes \subseteq -1 .. RT_TICK_MAX \div 2 - 1

VARIABLES exists,   \* the pointer to the event is not RT_NULL
          set,      \* the flags that are set
          ask,      \* per thread: event_set and event_info
          halted    \* an assertion has failed: the program hangs

\* History variables: flags a sender has given to a thread in rt_event_recv; threads
\* that have begun to wait after a waiting thread.
VARIABLES granted, later

evars == <<vars, exists, set, ask, halted, granted, later>>
idles == <<exists, set, ask, halted, granted, later>>

Nothing == [set |-> {}, and |-> FALSE, clear |-> FALSE]

EventInit ==
    /\ k = AllReady
    /\ pc = [t \in Threads |-> "run"] /\ clock = FALSE /\ left = [t \in Threads |-> 0]
    /\ exists = FALSE /\ set = {} /\ halted = FALSE
    /\ ask = [t \in Threads |-> Nothing]
    /\ granted = [t \in Threads |-> {}] /\ later = [t \in Threads |-> {}]

\* start_touchscreen_task, by main before it starts the touch thread.
rt_event_create ==
    /\ ~exists /\ exists' = TRUE
    /\ Step(main, "run", "run")
    /\ UNCHANGED <<k, left, set, ask, halted, granted, later>>

Satisfied(o, s) == IF o.and THEN o.set \subseteq s ELSE o.set \cap s # {}

Waiting(t) == t \in ToSet(k.waiting[event])

\* The flags are there, and are returned.
Received(t, o) ==
    /\ Step(t, "run", "run") /\ Satisfied(o, set)
    /\ k' = Reset(k, t)
    /\ set' = IF o.clear THEN set \ o.set ELSE set
    /\ UNCHANGED <<left, exists, ask, halted, granted, later>>

RecvRefused(t, o) ==
    /\ Step(t, "run", "run") /\ ~Satisfied(o, set) /\ 0 \in WaitTimes
    /\ k' = [k EXCEPT !.error[t] = "ETIMEOUT"]
    /\ UNCHANGED <<left, idles>>

RecvWaits(t, o, time) ==
    /\ Step(t, "run", "waits") /\ ~Satisfied(o, set) /\ time # 0
    /\ LET s == rt_ipc_list_suspend(Reset(k, t), event, t, Flag)
       IN  k' = IF time > 0 THEN rt_timer_start(s, t, time) ELSE s
    /\ ask' = [ask EXCEPT ![t] = o]
    /\ later' = [u \in Threads |-> IF Waiting(u) THEN later[u] \cup {t} ELSE {}]
    /\ UNCHANGED <<left, exists, set, halted, granted>>

WaitSchedule(t) ==
    /\ Step(t, "waits", "waited")
    /\ k' = rt_schedule(k)
    /\ UNCHANGED <<left, idles>>

\* After rt_schedule: without an error the call returns what the sender left in event_set.
Waited(t) ==
    /\ Step(t, "waited", "run")
    /\ ask' = [ask EXCEPT ![t] = Nothing] /\ granted' = [granted EXCEPT ![t] = {}]
    /\ UNCHANGED <<k, left, exists, set, halted, later>>

rt_event_recv(t, o) ==
    /\ t \in Receivers /\ exists
    /\ \/ Received(t, o) \/ RecvRefused(t, o)
       \/ \E time \in WaitTimes : RecvWaits(t, o, time)

\* A waiting thread gets the flags it asks for, if they are there.
Offer(s, t) ==
    LET o     == s.ask[t]
        given == IF o.and THEN o.set ELSE o.set \cap s.set
    IN  IF ~Satisfied(o, s.set) THEN s
        ELSE [k       |-> rt_thread_resume(s.k, t),
              set     |-> IF o.clear THEN s.set \ given ELSE s.set,
              ask     |-> [s.ask EXCEPT ![t].set = given],
              granted |-> [s.granted EXCEPT ![t] = o.set \cap s.set]]

\* Mutant: only the first thread is looked at.
SendAll_First(flags) ==
    LET s == [k |-> k, set |-> set \cup flags, ask |-> ask, granted |-> granted]
    IN  IF k.waiting[event] = <<>> THEN s ELSE Offer(s, Head(k.waiting[event]))

\* The event is offered to the threads in the order of the list.
SendAll(flags) ==
    FoldLeft(Offer, [k |-> k, set |-> set \cup flags, ask |-> ask, granted |-> granted],
             k.waiting[event])

\* rt_schedule follows if a thread was resumed: a thread's call enables interrupts
\* before it, and an interrupt switches threads when it ends.
rt_event_send(t, flags) ==
    /\ t \in Senders /\ exists
    /\ LET s == SendAll(flags)
       IN  /\ Step(t, "run", IF s.k = k THEN "run" ELSE "called")
           /\ k' = s.k /\ set' = s.set /\ ask' = s.ask /\ granted' = s.granted
    /\ UNCHANGED <<left, exists, halted, later>>

\* The interrupt: RT_ASSERT fails if the event has not been created.
XPT2046_touch_irq_handler(flags) ==
    /\ ~clock /\ UNCHANGED <<pc, clock, left, exists, later>>
    /\ \/ /\ ~exists /\ halted' = TRUE
          /\ UNCHANGED <<k, set, ask, granted>>
       \/ /\ exists
          /\ LET s == SendAll(flags)
             IN  /\ k' = IF s.k = k THEN k ELSE rt_schedule(s.k)
                 /\ set' = s.set /\ ask' = s.ask /\ granted' = s.granted
          /\ UNCHANGED halted

Thread(t) ==
    \/ \E o \in Options : rt_event_recv(t, o)
    \/ WaitSchedule(t) \/ Waited(t)
    \/ \E f \in Flags : rt_event_send(t, {f})
    \/ /\ (\E n \in Sleeps : rt_thread_sleep(t, n)) \/ Schedule(t) \/ Slept(t)
       /\ exists /\ UNCHANGED idles

EventNext ==
    /\ ~halted
    /\ \/ (Clock_isr \/ rt_timer_check) /\ UNCHANGED idles
       \/ rt_event_create
       \/ \E f \in Flags : XPT2046_touch_irq_handler({f})
       \/ \E t \in Threads : Thread(t)

EventSpec == EventInit /\ [][EventNext]_evars
-----------------------------------------------------------------------------
\* No thread sleeps through an event: whenever one waits, what it asked for is not
\* there, although threads before it in the list may have cleared flags or timed out.
NoneMissed == \A t \in Threads : Waiting(t) => ~Satisfied(ask[t], set)

\* Flags a sender gave to a waiting thread, and perhaps cleared, are exactly what the
\* thread is going to return, with success: its timeout cannot come in between.
GrantKept ==
    \A t \in Threads : granted[t] # {} =>
        /\ k.error[t] = "EOK" /\ ~Waiting(t)
        /\ ask[t].set = granted[t]

\* With RT_IPC_FLAG_FIFO no thread is overtaken: flags are not given to one that began to
\* wait later for the same flags in the same way, unless the earlier one gets them, too.
FirstComeFirstServed ==
    [][Flag = "FIFO" => \A t \in Threads : \A u \in later[t] :
          /\ Waiting(t) /\ Waiting(u) /\ ask[u] = ask[t] /\ granted'[u] # {}
          => granted'[t] # {}]_evars
=============================================================================
