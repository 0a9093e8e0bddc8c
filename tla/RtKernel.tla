------------------------------ MODULE RtKernel ------------------------------
(***************************************************************************)
(* The kernel's threads: the ready lists (scheduler.c), the list of thread *)
(* timers with a tick that wraps round (timer.c, clock.c) and the changes  *)
(* of a thread's state (thread.c).  Each operator is one function of the   *)
(* kernel, applied to the kernel's state k; functions that call each other *)
(* are composed the same way.  All of this runs with interrupts disabled.  *)
(*                                                                         *)
(* The only timers are the threads' own one-shot timers, which are started *)
(* and stopped with interrupts disabled; so a timer is activated exactly   *)
(* when it is in the list, and the list has one row                        *)
(* (RT_TIMER_SKIP_LIST_LEVEL is 1).  Linked lists are sequences.           *)
(***************************************************************************)
EXTENDS Integers, Sequences, SequencesExt

CONSTANTS Threads,
          idle,          \* the thread that is always ready
          main,          \* the thread that runs first and starts the others
          init_priority, \* per thread; 0 is the most urgent
          init_tick,     \* length of a time slice
          IpcObjects,    \* objects with a list of waiting threads
          TickMod        \* number of values of rt_tick_t

ASSUME KernelAssumption ==
    /\ {idle, main} \subseteq Threads
    /\ init_priority \in [Threads -> Nat]
    /\ \A t \in Threads \ {idle} : init_priority[t] < init_priority[idle]
    /\ init_tick \in Nat \ {0} /\ TickMod \in Nat /\ TickMod > 4

RT_TICK_MAX == TickMod - 1
Priorities  == {init_priority[t] : t \in Threads}

\* rt_tick_t arithmetic is unsigned.
Minus(a, b) == (a - b) % TickMod

\* The state after rt_system_scheduler_start: main is running, idle is ready.
Started ==
    [current  |-> main,
     table    |-> [p \in Priorities |-> IF p = init_priority[idle] THEN <<idle>> ELSE <<>>],
     group    |-> {init_priority[idle]},
     stat     |-> [t \in Threads |-> IF t = main THEN "RUNNING" ELSE IF t = idle THEN "READY" ELSE "INIT"],
     yield    |-> [t \in Threads |-> FALSE],
     priority |-> init_priority,
     slice    |-> [t \in Threads |-> init_tick],
     error    |-> [t \in Threads |-> "EOK"],
     waiting  |-> [o \in IpcObjects |-> <<>>],
     tick     |-> 0,
     timers   |-> <<>>,
     nest     |-> 0]

\* All threads have been started; main is the most urgent of them.
AllReady ==
    LET ready == Threads \ {main}
    IN  [Started EXCEPT !.stat  = [t \in Threads |-> IF t = main THEN "RUNNING" ELSE "READY"],
                        !.table = [p \in Priorities |-> SetToSeq({t \in ready : init_priority[t] = p})],
                        !.group = {init_priority[t] : t \in ready}]
-----------------------------------------------------------------------------
\* scheduler.c

\* rt_list_remove of a thread's tlist, which links it into at most one list.
rt_list_remove(k, t) ==
    [k EXCEPT !.table   = [p \in Priorities |-> Remove(@[p], t)],
              !.waiting = [o \in IpcObjects |-> Remove(@[o], t)]]

\* The current thread is in no ready list.
rt_schedule_insert_thread(k, t) ==
    IF t = k.current
    THEN [k EXCEPT !.stat[t] = "RUNNING"]
    ELSE [k EXCEPT !.stat[t] = "READY",
                   !.table[k.priority[t]] = Append(@, t),
                   !.group = @ \cup {k.priority[t]}]

rt_schedule_remove_thread(k, t) ==
    LET l == rt_list_remove(k, t)
    IN  IF l.table[k.priority[t]] = <<>> THEN [l EXCEPT !.group = @ \ {k.priority[t]}] ELSE l

highest_ready_priority(k) == CHOOSE p \in k.group : \A q \in k.group : p <= q

\* Whether rt_schedule leaves a running thread the processor.
Keeps(k) ==
    LET p == k.priority[k.current]
    IN  /\ k.stat[k.current] = "RUNNING"
        /\ \/ p < highest_ready_priority(k)
           \/ p = highest_ready_priority(k) /\ ~k.yield[k.current]

\* The switch to the first thread of the most urgent list; a running thread goes
\* to the end of its list.
Switch(k) ==
    LET from == k.current
        to   == Head(k.table[highest_ready_priority(k)])
        here == IF k.stat[from] = "RUNNING"
                THEN rt_schedule_insert_thread([k EXCEPT !.yield[from] = FALSE, !.current = to], from)
                ELSE [k EXCEPT !.current = to]
    IN  [rt_schedule_remove_thread(here, to) EXCEPT !.stat[to] = "RUNNING"]

rt_schedule(k) ==
    IF k.nest > 0 \/ k.group = {} THEN k
    ELSE IF Keeps(k)
         THEN [rt_schedule_remove_thread(k, k.current) EXCEPT !.stat[k.current] = "RUNNING"]
         ELSE Switch(k)

-----------------------------------------------------------------------------
\* timer.c

rt_timer_stop(k, t) == [k EXCEPT !.timers = SelectSeq(@, LAMBDA e : e.thread # t)]

\* Mutant: times are compared as if the tick never wrapped round.
rt_timer_start_NoWrap(k, t, ticks) ==
    LET list  == rt_timer_stop(k, t).timers
        due   == (k.tick + ticks) % TickMod
        after == {i \in DOMAIN list : list[i].timeout > due}
        place == IF after = {} THEN Len(list) + 1 ELSE CHOOSE i \in after : \A j \in after : i <= j
    IN  [k EXCEPT !.timers = InsertAt(list, place, [thread |-> t, timeout |-> due])]

\* The timer goes behind those that expire before it or with it.
rt_timer_start(k, t, ticks) ==
    LET list  == rt_timer_stop(k, t).timers
        due   == (k.tick + ticks) % TickMod
        after == {i \in DOMAIN list : LET d == Minus(list[i].timeout, due)
                                      IN  d # 0 /\ d < RT_TICK_MAX \div 2}
        place == IF after = {} THEN Len(list) + 1 ELSE CHOOSE i \in after : \A j \in after : i <= j
    IN  [k EXCEPT !.timers = InsertAt(list, place, [thread |-> t, timeout |-> due])]

\* The first timer of the list has expired.
Expired(k) ==
    /\ k.timers # <<>>
    /\ Minus(k.tick, Head(k.timers).timeout) < RT_TICK_MAX \div 2
-----------------------------------------------------------------------------
\* thread.c

rt_thread_suspend(k, t) ==
    IF k.stat[t] \in {"READY", "RUNNING"}
    THEN rt_timer_stop([rt_schedule_remove_thread(k, t) EXCEPT !.stat[t] = "SUSPEND"], t)
    ELSE k

\* Mutant: the timer of a thread that need not wait any longer goes on.
rt_thread_resume_KeepTimer(k, t) ==
    IF k.stat[t] = "SUSPEND" THEN rt_schedule_insert_thread(rt_list_remove(k, t), t) ELSE k

rt_thread_resume(k, t) ==
    IF k.stat[t] = "SUSPEND"
    THEN rt_schedule_insert_thread(rt_timer_stop(rt_list_remove(k, t), t), t)
    ELSE k

\* Mutant: a thread that waits longer is served later.
rt_ipc_list_suspend_Front(k, o, t, flag) ==
    [rt_thread_suspend(k, t) EXCEPT !.waiting[o] = <<t>> \o @]

\* ipc.c: the thread waits at the end of the list of an object, or by its priority.
rt_ipc_list_suspend(k, o, t, flag) ==
    LET after == {i \in DOMAIN k.waiting[o] :
                     flag = "PRIO" /\ k.priority[t] < k.priority[k.waiting[o][i]]}
        place == IF after = {} THEN Len(k.waiting[o]) + 1
                 ELSE CHOOSE i \in after : \A j \in after : i <= j
    IN  [rt_thread_suspend(k, t) EXCEPT !.waiting[o] = InsertAt(@, place, t)]

\* ipc.c: a call that may wait begins without an error.
Reset(k, t) == [k EXCEPT !.error[t] = "EOK"]

\* The function of a thread's timer.
rt_thread_timeout(k, t) ==
    rt_schedule(rt_schedule_insert_thread(rt_list_remove([k EXCEPT !.error[t] = "ETIMEOUT"], t), t))

\* RT_THREAD_CTRL_CHANGE_PRIORITY
ChangePriority(k, t, p) ==
    IF k.stat[t] = "READY"
    THEN rt_schedule_insert_thread([rt_schedule_remove_thread(k, t) EXCEPT !.priority[t] = p], t)
    ELSE [k EXCEPT !.priority[t] = p]

\* One round of rt_timer_check: the first timer leaves the list, then its function runs.
TimerRound(k) == LET t == Head(k.timers).thread IN rt_thread_timeout(rt_timer_stop(k, t), t)

\* Mutant: RT_THREAD_STAT_YIELD is not set when the slice is used up.
rt_tick_increase_NoYield(k) ==
    LET t    == k.current
        next == [k EXCEPT !.tick = (@ + 1) % TickMod]
    IN  IF k.slice[t] > 1
        THEN [next EXCEPT !.slice[t] = @ - 1]
        ELSE rt_schedule([next EXCEPT !.slice[t] = init_tick])

\* rt_tick_increase up to rt_timer_check: the tick, and the current thread's time slice.
rt_tick_increase(k) ==
    LET t    == k.current
        next == [k EXCEPT !.tick = (@ + 1) % TickMod]
    IN  IF k.slice[t] > 1
        THEN [next EXCEPT !.slice[t] = @ - 1]
        ELSE rt_schedule([next EXCEPT !.slice[t] = init_tick, !.yield[t] = TRUE])

\* rt_thread_startup, up to rt_schedule
Startup(k, t) == rt_thread_resume([k EXCEPT !.priority[t] = init_priority[t], !.stat[t] = "SUSPEND"], t)
=============================================================================
