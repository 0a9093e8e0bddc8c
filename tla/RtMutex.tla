------------------------------ MODULE RtMutex ------------------------------
(***************************************************************************)
(* Mutexes (ipc.c) on the kernel's threads: ownership that may be taken    *)
(* several times by one thread, waiting threads in a list, with or without *)
(* a timeout, and the owner's priority raised to that of a more urgent     *)
(* thread that waits.                                                      *)
(*                                                                         *)
(* The callers take mutexes in increasing order and release the one taken  *)
(* last first; some also try to release one they do not own.  They sleep,  *)
(* but do not end or lock the scheduler.                                   *)
(***************************************************************************)
EXTENDS RtThreads

CONSTANTS Mutexes,    \* a set of numbers
          Users,      \* threads that take mutexes
          None,       \* no thread, no mutex
          Flag,       \* per mutex: RT_IPC_FLAG_FIFO or RT_IPC_FLAG_PRIO
          WaitTimes,  \* per user, times to wait: 0, a number of ticks, or -1 for ever
          MaxHeld     \* bound on the mutexes a thread holds, each take counted

ASSUME MutexAssumption ==
    /\ Mutexes = IpcObjects /\ Mutexes \subseteq Nat
    /\ Users \subseteq Threads \ {idle} /\ None \notin Threads \cup Mutexes
    /\ Flag \in [Mutexes -> {"FIFO", "PRIO"}]
    /\ WaitTimes \in [Users -> SUBSET (-1 .. RT_TICK_MAX \div 2 - 1)]

VARIABLES mutex,  \* the mutexes
          held,   \* per thread: what it has taken and not released, in this order
          wants   \* per thread: the mutex it waits for in rt_mutex_take

\* History variable: "nested" if a thread has asked for one mutex while it held another,
\* "timeout" if one has waited for a limited time.
VARIABLE strain

mvars == <<vars, mutex, held, wants, strain>>
idles == <<mutex, held, wants, strain>>

rt_mutex_init == [value |-> 1, owner |-> None, original_priority |-> 255, hold |-> 0]

MutexInit ==
    /\ k = AllReady
    /\ pc = [t \in Threads |-> "run"] /\ clock = FALSE /\ left = [t \in Threads |-> 0]
    /\ mutex = [x \in Mutexes |-> rt_mutex_init]
    /\ held = [t \in Threads |-> <<>>] /\ wants = [t \in Threads |-> None]
    /\ strain = {}

May(t, x) ==
    /\ t \in Users /\ Len(held[t]) < MaxHeld
    /\ \A y \in ToSet(held[t]) : y <= x

Strain(t, x, time) ==
    strain' = strain \cup (IF \E y \in ToSet(held[t]) : y # x THEN {"nested"} ELSE {})
                     \cup (IF time > 0 THEN {"timeout"} ELSE {})

\* The thread has the mutex already, or nobody has.
Take(t, x) ==
    /\ May(t, x) /\ Strain(t, x, 0) /\ Step(t, "run", "run")
    /\ \/ /\ mutex[x].owner = t
          /\ mutex' = [mutex EXCEPT ![x].hold = @ + 1]
       \/ /\ mutex[x].owner # t /\ mutex[x].value > 0
          /\ mutex' = [mutex EXCEPT ![x] = [value |-> @.value - 1, owner |-> t,
                          original_priority |-> k.priority[t], hold |-> @.hold + 1]]
    /\ k' = Reset(k, t)
    /\ held' = [held EXCEPT ![t] = Append(@, x)]
    /\ UNCHANGED <<left, wants>>

TakeRefused(t, x) ==
    /\ May(t, x) /\ Strain(t, x, 0) /\ 0 \in WaitTimes[t] /\ Step(t, "run", "run")
    /\ mutex[x].owner # t /\ mutex[x].value = 0
    /\ k' = [k EXCEPT !.error[t] = "ETIMEOUT"]
    /\ UNCHANGED <<left, mutex, held, wants>>

\* Mutant: the owner keeps its own priority.
Boosted_Not(s, t, owner) == s

\* The owner gets at least the priority of a thread about to wait.
Boosted(s, t, owner) ==
    IF s.priority[t] < s.priority[owner] THEN ChangePriority(s, owner, s.priority[t]) ELSE s

\* Another thread has it, and the caller waits.
TakeWaits(t, x, time) ==
    /\ May(t, x) /\ Strain(t, x, time) /\ time # 0 /\ Step(t, "run", "waits")
    /\ mutex[x].owner # t /\ mutex[x].value = 0
    /\ LET s == rt_ipc_list_suspend(Boosted(Reset(k, t), t, mutex[x].owner), x, t, Flag[x])
       IN  k' = IF time > 0 THEN rt_timer_start(s, t, time) ELSE s
    /\ wants' = [wants EXCEPT ![t] = x]
    /\ UNCHANGED <<left, mutex, held>>

WaitSchedule(t) ==
    /\ Step(t, "waits", "waited")
    /\ k' = rt_schedule(k)
    /\ UNCHANGED <<left, idles>>

\* After rt_schedule: without an error the mutex has been handed over.
Waited(t) ==
    /\ Step(t, "waited", "run")
    /\ held' = [held EXCEPT ![t] = IF k.error[t] = "EOK" THEN Append(@, wants[t]) ELSE @]
    /\ wants' = [wants EXCEPT ![t] = None]
    /\ UNCHANGED <<k, left, mutex, strain>>

rt_mutex_take(t, x) ==
    \/ Take(t, x) \/ TakeRefused(t, x)
    \/ \E time \in WaitTimes[t] : TakeWaits(t, x, time)

Held(t, x) == held[t] # <<>> /\ x = Last(held[t])

ReleaseOne(t, x) ==
    /\ Held(t, x) /\ mutex[x].owner = t /\ mutex[x].hold > 1
    /\ Step(t, "run", "run")
    /\ mutex' = [mutex EXCEPT ![x].hold = @ - 1]
    /\ held' = [held EXCEPT ![t] = Front(@)]
    /\ UNCHANGED <<k, left, wants, strain>>

\* Mutant: a raised priority stays.
Restored_Not(t, x) == k

\* The last release gives the owner back the priority it took the mutex with.
Restored(t, x) ==
    IF mutex[x].original_priority # k.priority[t]
    THEN ChangePriority(k, t, mutex[x].original_priority) ELSE k

\* Mutant: need_schedule is not set.
HandOver_NoSchedule(t, x) ==
    /\ k.waiting[x] # <<>> /\ Step(t, "run", "run")
    /\ LET s == Restored(t, x)
           w == Head(k.waiting[x])
       IN  /\ mutex' = [mutex EXCEPT ![x].owner = w, ![x].original_priority = s.priority[w]]
           /\ k' = rt_thread_resume(s, w)

\* The first thread that waits becomes the owner; rt_schedule follows.
HandOver(t, x) ==
    /\ k.waiting[x] # <<>> /\ Step(t, "run", "called")
    /\ LET s == Restored(t, x)
           w == Head(k.waiting[x])
       IN  /\ mutex' = [mutex EXCEPT ![x].owner = w, ![x].original_priority = s.priority[w]]
           /\ k' = rt_thread_resume(s, w)

ReleaseLast(t, x) ==
    /\ Held(t, x) /\ mutex[x].owner = t /\ mutex[x].hold = 1
    /\ \/ HandOver(t, x)
       \/ /\ k.waiting[x] = <<>> /\ Step(t, "run", "run")
          /\ mutex' = [mutex EXCEPT ![x] = [rt_mutex_init EXCEPT !.value = mutex[x].value + 1]]
          /\ k' = Restored(t, x)
    /\ held' = [held EXCEPT ![t] = Front(@)]
    /\ UNCHANGED <<left, wants, strain>>

\* Only the owner may: for any other thread the mutex stays as it is.
ReleaseRefused(t, x) ==
    /\ mutex[x].owner # t /\ Step(t, "run", "run")
    /\ k' = [k EXCEPT !.error[t] = "ERROR"]
    /\ UNCHANGED <<left, idles>>

rt_mutex_release(t, x) == ReleaseOne(t, x) \/ ReleaseLast(t, x) \/ ReleaseRefused(t, x)

Thread(t) ==
    \/ \E x \in Mutexes : t \in Users /\ (rt_mutex_take(t, x) \/ rt_mutex_release(t, x))
    \/ WaitSchedule(t) \/ Waited(t)
    \/ /\ (\E n \in Sleeps : rt_thread_sleep(t, n)) \/ Schedule(t) \/ Slept(t)
       /\ UNCHANGED idles

MutexNext ==
    \/ (Clock_isr \/ rt_timer_check) /\ UNCHANGED idles
    \/ \E t \in Threads : Thread(t)

MutexSpec == MutexInit /\ [][MutexNext]_mvars
-----------------------------------------------------------------------------
\* t was made the owner while it waited in rt_mutex_take, and has not noticed yet.
Granted(t, x) ==
    /\ wants[t] = x /\ t \notin ToSet(k.waiting[x]) /\ k.error[t] = "EOK"

\* Ownership is exclusive and counted: the threads that have come back from
\* rt_mutex_take, or are about to, with success are the owner and nobody else, as often
\* as hold says; threads wait only for a mutex that is owned, so none waits for nothing.
MutexSound ==
    \A x \in Mutexes :
        /\ \A t \in Users :
              Len(SelectSeq(held[t], LAMBDA y : y = x)) + (IF Granted(t, x) THEN 1 ELSE 0)
                = IF mutex[x].owner = t THEN mutex[x].hold ELSE 0
        /\ mutex[x].owner = None <=> mutex[x].hold = 0
        /\ mutex[x].value = IF mutex[x].owner = None THEN 1 ELSE 0
        /\ mutex[x].owner = None => k.waiting[x] = <<>>
        /\ IsInjective(k.waiting[x])
        /\ \A t \in ToSet(k.waiting[x]) : wants[t] = x /\ k.stat[t] = "SUSPEND" /\ mutex[x].owner # t

\* A raised priority does not outlive its reason: a thread that owns no mutex has the
\* priority it was created with, whatever was raised while it held one inside another.
PriorityRestored ==
    \A t \in Threads :
        (\A x \in Mutexes : mutex[x].owner # t) => k.priority[t] = init_priority[t]

\* No thread waits for a less urgent owner, if the waiting threads are in the order of
\* priority (RT_IPC_FLAG_PRIO) and no thread has held one mutex inside another: with
\* RT_IPC_FLAG_FIFO a mutex is handed to a less urgent thread than one left waiting.
OwnerBoosted ==
    "nested" \notin strain => \A x \in Mutexes : Flag[x] = "PRIO" =>
        \A t \in ToSet(k.waiting[x]) : k.priority[mutex[x].owner] <= k.priority[t]

\* The most urgent thread runs, raised and restored priorities included, while no thread
\* has waited for a limited time or held one mutex inside another: a release that takes
\* a priority back and finds nobody waiting does not call rt_schedule.
UrgentRuns == strain = {} => HighestRuns
=============================================================================
