----------------------------- MODULE RtThreads -----------------------------
(***************************************************************************)
(* Threads on the kernel: started by main, sleeping, yielding, locking the *)
(* scheduler and ending, interrupted by the clock.                         *)
(*                                                                         *)
(* The code that runs is the current thread's, or the clock interrupt's.   *)
(* A call that enables interrupts before its rt_schedule has a step of its *)
(* own for the latter, so that the interrupt may come between the two.  A  *)
(* thread does not sleep or end while it holds the scheduler lock.         *)
(***************************************************************************)
EXTENDS RtKernel

CONSTANTS Sleeps,  \* ticks threads sleep
          Busy,    \* threads that only compute: they neither sleep nor end
          MaxNest  \* bound on rt_scheduler_lock_nest

\* rt_timer_start asserts it of the time of every timer.
ASSUME SleepAssumption == Sleeps \subseteq 0 .. RT_TICK_MAX \div 2 - 1

VARIABLES k,      \* the kernel's state
          pc,     \* per thread: where it is in a call ("called", "sleeps" and "waits": before
                  \* the rt_schedule of the call)
          clock   \* the clock interrupt is being served

\* History variable, read by no guard: ticks until a sleeping thread is due.
VARIABLE left

vars == <<k, pc, clock, left>>

Init ==
    /\ k = Started
    /\ pc = [t \in Threads |-> "run"]
    /\ clock = FALSE
    /\ left = [t \in Threads |-> 0]

\* The current thread t goes on from one place to another.
Step(t, from, to) ==
    /\ ~clock /\ t = k.current /\ pc[t] = from
    /\ pc' = [pc EXCEPT ![t] = to]
    /\ UNCHANGED clock

rt_thread_startup(t, u) ==
    /\ t = main /\ k.stat[u] = "INIT"
    /\ Step(t, "run", "called")
    /\ k' = Startup(k, u)
    /\ UNCHANGED left

\* Interrupts are disabled from the suspension to the start of the timer.
rt_thread_sleep(t, ticks) ==
    /\ t \notin Busy \cup {idle} /\ k.nest = 0
    /\ Step(t, "run", "sleeps")
    /\ k' = rt_timer_start(rt_thread_suspend(k, t), t, ticks)
    /\ left' = [left EXCEPT ![t] = IF ticks = 0 THEN 1 ELSE ticks]

\* The rt_schedule at the end of a call, and of rt_thread_sleep.
Schedule(t) ==
    /\ Step(t, "called", "run") \/ Step(t, "sleeps", "slept")
    /\ k' = rt_schedule(k)
    /\ UNCHANGED left

Slept(t) ==
    /\ Step(t, "slept", "run")
    /\ k' = [k EXCEPT !.error[t] = IF @ = "ETIMEOUT" THEN "EOK" ELSE @]
    /\ UNCHANGED left

rt_thread_yield(t) ==
    /\ t # idle /\ Step(t, "run", "yielded")
    /\ k' = rt_schedule(k)
    /\ UNCHANGED left

Yielded(t) == Step(t, "yielded", "run") /\ UNCHANGED <<k, left>>

rt_enter_critical(t) ==
    /\ t # idle /\ k.nest < MaxNest
    /\ Step(t, "run", "run")
    /\ k' = [k EXCEPT !.nest = @ + 1]
    /\ UNCHANGED left

\* Mutant: what became ready under the lock has to wait for the next schedule.
rt_exit_critical_NoSchedule(t) ==
    /\ k.nest > 0 /\ Step(t, "run", "run")
    /\ k' = [k EXCEPT !.nest = @ - 1]
    /\ UNCHANGED left

\* The last unlock is followed by rt_schedule.
rt_exit_critical(t) ==
    /\ k.nest > 0 /\ Step(t, "run", IF k.nest = 1 THEN "called" ELSE "run")
    /\ k' = [k EXCEPT !.nest = @ - 1]
    /\ UNCHANGED left

rt_thread_exit(t) ==
    /\ t \notin Busy \cup {idle} /\ k.nest = 0
    /\ Step(t, "run", "run")
    /\ k' = rt_schedule(rt_timer_stop([rt_schedule_remove_thread(k, t) EXCEPT !.stat[t] = "CLOSE"], t))
    /\ UNCHANGED left

Clock_isr ==
    /\ ~clock /\ clock' = TRUE
    /\ k' = rt_tick_increase(k)
    /\ left' = [t \in Threads |-> IF left[t] > 0 THEN left[t] - 1 ELSE 0]
    /\ UNCHANGED pc

rt_timer_check ==
    /\ clock /\ clock' = Expired(k)
    /\ k' = IF Expired(k) THEN TimerRound(k) ELSE k
    /\ UNCHANGED <<pc, left>>

Call(t) ==
    \/ \E u \in Threads : rt_thread_startup(t, u)
    \/ \E n \in Sleeps : rt_thread_sleep(t, n)
    \/ Schedule(t) \/ Slept(t) \/ rt_thread_yield(t) \/ Yielded(t)
    \/ rt_enter_critical(t) \/ rt_exit_critical(t) \/ rt_thread_exit(t)

Next == Clock_isr \/ rt_timer_check \/ \E t \in Threads : Call(t)

Spec == Init /\ [][Next]_vars

\* The clock goes on ticking, and between its interrupts the thread that runs gets on:
\* it finishes the call it is in, and gives up the scheduler lock.
Fairness ==
    /\ WF_vars(Clock_isr) /\ WF_vars(rt_timer_check)
    /\ SF_vars(\E t \in Threads : Schedule(t) \/ Slept(t) \/ Yielded(t))
    /\ \A n \in 1 .. MaxNest : SF_vars(k.nest = n /\ \E t \in Threads : rt_exit_critical(t))

FairSpec == Spec /\ Fairness
-----------------------------------------------------------------------------
\* Every list of the kernel agrees with the states of the threads: a ready thread is
\* in the list of its priority, once, and no other thread is in any; a bit of
\* rt_thread_ready_priority_group is set exactly if the list is not empty; only
\* suspended threads have a running timer; the current thread is in no list.
ListsSound ==
    /\ \A p \in Priorities :
          /\ IsInjective(k.table[p])
          /\ ToSet(k.table[p]) = {t \in Threads : k.stat[t] = "READY" /\ k.priority[t] = p}
          /\ p \in k.group <=> k.table[p] # <<>>
    /\ \A i, j \in DOMAIN k.timers : k.timers[i].thread = k.timers[j].thread => i = j
    /\ \A e \in ToSet(k.timers) : k.stat[e.thread] = "SUSPEND"
    /\ {t \in Threads : k.stat[t] = "RUNNING"} \subseteq {k.current}

\* The scheduler's promise: outside the kernel, and with the scheduler unlocked, the
\* running thread is one of the most urgent.  The interrupt between a call's change
\* and its rt_schedule, and what becomes ready under the lock, must not break it.
HighestRuns ==
    ~clock /\ k.nest = 0 /\ pc[k.current] \notin {"called", "sleeps", "waits"} =>
        /\ k.stat[k.current] = "RUNNING"
        /\ \A t \in Threads : k.stat[t] = "READY" => k.priority[k.current] <= k.priority[t]

\* rt_thread_sleep takes exactly the ticks it is asked for (one, if asked for none),
\* over the wrap-around of the tick and with several threads asleep: whenever the
\* clock interrupt is done, the suspended threads are those with time left.
SleepsExactly ==
    ~clock => \A t \in Threads : k.stat[t] = "SUSPEND" <=> left[t] > 0

\* Threads of one priority take turns, by time slices and by preemption: if a thread of
\* some priority runs again and again, every ready thread of that priority gets its turn.
RoundRobin ==
    \A t \in Threads :
        []<>(k.priority[k.current] = init_priority[t]) => (k.stat[t] = "READY" ~> k.current = t)
=============================================================================
