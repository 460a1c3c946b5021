------------------------------ MODULE RtKernel ------------------------------
(***************************************************************************)
(* The scheduling core of RT-Thread (scheduler.c, thread.c, clock.c, the   *)
(* wait lists of ipc.c): one processor, a list of ready threads for each   *)
(* priority, threads that suspend themselves and are resumed by other      *)
(* threads, by the expiry of their timer or by an interrupt.               *)
(*                                                                         *)
(* A stretch of code with the interrupts disabled is one step.  A call     *)
(* that suspends enables the interrupts before it calls rt_schedule, so    *)
(* the tick interrupt may come in between; rt_schedule is a step of its    *)
(* own.  The clock is abstract: a running timer may expire at any tick.    *)
(* The scheduler is not locked (rt_enter_critical), signals are off, and   *)
(* the threads have been started and do not end.                           *)
(***************************************************************************)
EXTENDS Naturals, SequencesExt

CONSTANTS
    Threads,    \* the started threads, the idle thread apart
    Idle,       \* the idle thread
    Objects,    \* the IPC objects, each with a list of suspended threads
    NoObject,
    Lowest,     \* RT_THREAD_PRIORITY_MAX - 1, the priority of the idle thread
    Base,       \* init_priority of every thread; 0 is the most urgent
    Flags       \* the flags the objects may be initialised with

VARIABLES
    ready,      \* rt_thread_priority_table
    cur,        \* rt_current_thread
    stat,       \* thread->stat
    prio,       \* thread->current_priority
    error,      \* thread->error
    timer,      \* the threads whose thread_timer runs
    list,       \* object->parent.suspend_thread
    flag,       \* object->parent.parent.flag: RT_IPC_FLAG_FIFO, RT_IPC_FLAG_PRIO
    pc,         \* where each thread is in the kernel
    want        \* the object it is taking

kernelVars == <<ready, cur, stat, prio, error, timer, list, flag, pc, want>>

All == Threads \cup {Idle}
Prios == 0 .. Lowest

ASSUME KernelAssumption ==
    /\ Idle \notin Threads /\ IsFiniteSet(Threads)
    /\ NoObject \notin Objects
    /\ Lowest \in Nat
    /\ Base \in [Threads -> 0 .. Lowest - 1]
    /\ Flags \subseteq [Objects -> {"fifo", "prio"}]

\* "run": in its own code.  "*_sched": about to call rt_schedule, from
\* rt_mutex_take or rt_sem_take, from rt_thread_sleep, or as the last thing
\* of a call.  "*_check": back from rt_schedule, about to read thread->error.
\* "reset": resuming all threads of an object, with the interrupts disabled.
\* "copy": copying a message, with the interrupts enabled.
SchedPoints == {"take_sched", "sleep_sched", "last_sched"}
Points == SchedPoints \cup {"run", "take_check", "sleep_check", "reset", "copy"}

AfterSchedule == [take_sched |-> "take_check", sleep_sched |-> "sleep_check",
                  last_sched |-> "run"]

-----------------------------------------------------------------------------
(* Lists and the ready table *)

\* rt_list_remove of the node of t.
Unlinked(s, t) ==
    IF t \in ToSet(s)
    THEN RemoveAt(s, CHOOSE i \in DOMAIN s : s[i] = t)
    ELSE s

\* rt_schedule_insert_thread, rt_schedule_remove_thread.
Inserted(table, t, p) == [table EXCEPT ![p] = Append(@, t)]
Removed(table, t, p) == [table EXCEPT ![p] = Unlinked(@, t)]

\* rt_schedule: the first thread of the most urgent list that is not empty.
Elected(table) == Head(table[Min({p \in Prios : table[p] # <<>>})])

\* the priority changes and the lists do not.
Reprioritised_InPlace(table, t, p) == table

\* rt_thread_control(t, RT_THREAD_CTRL_CHANGE_PRIORITY, p): a ready thread
\* goes to the end of its new list.
Reprioritised(table, t, p) ==
    IF stat[t] = "ready"
    THEN Inserted(Removed(table, t, prio[t]), t, p)
    ELSE table

\* rt_ipc_list_suspend: where t goes in the list of o, pr the priorities.
\* First come first served, or before the first thread less urgent than it.
Queued(o, t, pr) ==
    LET later == {i \in DOMAIN list[o] :
                     flag[o] = "prio" /\ pr[t] < pr[list[o][i]]}
    IN  InsertAt(list[o],
                 IF later = {} THEN Len(list[o]) + 1 ELSE Min(later), t)

-----------------------------------------------------------------------------
(* What the calls share *)

\* Thread t is on the processor, in its own code.
Calls(t) == cur = t /\ pc[t] = "run"

GoTo(t, point) == pc' = [pc EXCEPT ![t] = point]

\* rt_ipc_list_suspend of the running thread on o, and the start of its timer
\* if time says that the wait is timed, after the priorities have become pr and the table
\* become table.  rt_thread_suspend stops the timer of an earlier wait.
SuspendOn(t, o, time, table, pr) ==
    /\ ready' = Removed(table, t, pr[t])
    /\ prio' = pr
    /\ stat' = [stat EXCEPT ![t] = "suspend"]
    /\ list' = [list EXCEPT ![o] = Queued(o, t, pr)]
    /\ timer' = IF time THEN timer \cup {t} ELSE timer \ {t}
    /\ want' = [want EXCEPT ![t] = o]
    /\ error' = [error EXCEPT ![t] = "ok"]
    /\ GoTo(t, "take_sched")

\* the timer of the wait goes on.
ResumeFirst_Timed(o, table) ==
    LET u == Head(list[o])
    IN  /\ list' = [list EXCEPT ![o] = Tail(@)]
        /\ stat' = [stat EXCEPT ![u] = "ready"]
        /\ ready' = Inserted(table, u, prio[u])
        /\ UNCHANGED timer

\* rt_ipc_list_resume: rt_thread_resume of the first thread of the list of o.
ResumeFirst(o, table) ==
    LET u == Head(list[o])
    IN  /\ list' = [list EXCEPT ![o] = Tail(@)]
        /\ timer' = timer \ {u}
        /\ stat' = [stat EXCEPT ![u] = "ready"]
        /\ ready' = Inserted(table, u, prio[u])

\* t is back from rt_schedule, having waited in list o.
Back(t, o) == cur = t /\ pc[t] = "take_check" /\ want[t] = o

\* rt_sem_control, rt_mb_control and rt_mq_control with RT_IPC_CMD_RESET: the
\* interrupts are disabled from here to the end of the reset.
ResetBegin(t, b) ==
    /\ Calls(t)
    /\ GoTo(t, "reset")
    /\ want' = [want EXCEPT ![t] = b]
    /\ UNCHANGED <<ready, cur, stat, prio, error, timer, list, flag>>

Resets(t, b) == cur = t /\ pc[t] = "reset" /\ want[t] = b

\* One step of rt_ipc_list_resume_all: a thread that waits in list o of the
\* object b is resumed with the error RT_ERROR.
ResetNext(t, b, o) ==
    /\ Resets(t, b)
    /\ list[o] # <<>>
    /\ error' = [error EXCEPT ![Head(list[o])] = "error"]
    /\ ResumeFirst(o, ready)
    /\ UNCHANGED <<cur, prio, flag, pc, want>>

\* The end of a reset, with nobody waiting any more.
ResetEnd(t, b) ==
    /\ Resets(t, b)
    /\ list[b] = <<>>
    /\ want' = [want EXCEPT ![t] = NoObject]
    /\ GoTo(t, "last_sched")
    /\ UNCHANGED <<ready, cur, stat, prio, error, timer, list, flag>>

\* rt_thread_resume of t, which waits in a list.
Resume(t) ==
    /\ list' = [o \in Objects |-> Unlinked(list[o], t)]
    /\ timer' = timer \ {t}
    /\ stat' = [stat EXCEPT ![t] = "ready"]
    /\ ready' = Inserted(ready, t, prio[t])

-----------------------------------------------------------------------------
(* The calls that need no object *)

\* rt_schedule, with the interrupts enabled around it.
Schedule(t) ==
    /\ cur = t
    /\ pc[t] \in SchedPoints
    /\ cur' = Elected(ready)
    /\ GoTo(t, AfterSchedule[pc[t]])
    /\ UNCHANGED <<ready, stat, prio, error, timer, list, flag, want>>

\* rt_thread_sleep up to its rt_schedule.
Sleep(t) ==
    /\ Calls(t)
    /\ ready' = Removed(ready, t, prio[t])
    /\ stat' = [stat EXCEPT ![t] = "suspend"]
    /\ timer' = timer \cup {t}
    /\ GoTo(t, "sleep_sched")
    /\ UNCHANGED <<cur, prio, error, list, flag, want>>

\* rt_thread_sleep, the end: a timeout is no error of a sleep.
SleepReturn(t) ==
    /\ cur = t
    /\ pc[t] = "sleep_check"
    /\ error' = [error EXCEPT ![t] = IF @ = "timeout" THEN "ok" ELSE @]
    /\ GoTo(t, "run")
    /\ UNCHANGED <<ready, cur, stat, prio, timer, list, flag, want>>

\* rt_thread_yield has something to do: the running thread is ready and not
\* alone in its list.
CanYield(t) == stat[t] = "ready" /\ Len(ready[prio[t]]) > 1

ToTheEnd(t) == Inserted(Removed(ready, t, prio[t]), t, prio[t])

\* rt_thread_yield, called by a thread, up to its rt_schedule.
Yield(t) ==
    /\ Calls(t)
    /\ CanYield(t)
    /\ ready' = ToTheEnd(t)
    /\ GoTo(t, "last_sched")
    /\ UNCHANGED <<cur, stat, prio, error, timer, list, flag, want>>

-----------------------------------------------------------------------------
(* The tick interrupt *)

\* rt_tick_increase: the time slice of the running thread is over.
Slice ==
    /\ CanYield(cur)
    /\ ready' = ToTheEnd(cur)
    /\ cur' = Elected(ready')
    /\ UNCHANGED <<stat, prio, error, timer, list, flag, pc, want>>

\* t stays in the wait list.
Timeout_Listed(t) ==
    /\ t \in timer
    /\ timer' = timer \ {t}
    /\ error' = [error EXCEPT ![t] = "timeout"]
    /\ stat' = [stat EXCEPT ![t] = "ready"]
    /\ ready' = Inserted(ready, t, prio[t])
    /\ cur' = Elected(ready')
    /\ UNCHANGED <<prio, list, flag, pc, want>>

\* the first thread of the wait list is taken for t.
Timeout_First(t) ==
    LET heads == {Head(list[o]) : o \in {p \in Objects : t \in ToSet(list[p])}}
        u == IF heads = {} THEN t ELSE CHOOSE h \in heads : TRUE
    IN  /\ t \in timer
        /\ timer' = timer \ {t, u}
        /\ error' = [error EXCEPT ![u] = "timeout"]
        /\ list' = [o \in Objects |-> Unlinked(list[o], u)]
        /\ stat' = [stat EXCEPT ![u] = "ready"]
        /\ ready' = Inserted(ready, u, prio[u])
        /\ cur' = Elected(ready')
        /\ UNCHANGED <<prio, flag, pc, want>>

\* rt_timer_check: the timer of t expires, and rt_thread_timeout takes t out
\* of whatever list it is suspended in.
Timeout(t) ==
    /\ t \in timer
    /\ Resume(t)
    /\ error' = [error EXCEPT ![t] = "timeout"]
    /\ cur' = Elected(ready')
    /\ UNCHANGED <<prio, flag, pc, want>>

-----------------------------------------------------------------------------

\* Every thread started, none has run yet: rt_system_scheduler_start has
\* switched to the first one.
KernelInit ==
    /\ stat = [t \in All |-> "ready"]
    /\ prio = [t \in All |-> IF t = Idle THEN Lowest ELSE Base[t]]
    /\ ready = [p \in Prios |->
                   SetToSeq({t \in All : prio[t] = p})]
    /\ cur = Elected(ready)
    /\ error = [t \in All |-> "ok"]
    /\ timer = {}
    /\ list = [o \in Objects |-> <<>>]
    /\ flag \in Flags
    /\ pc = [t \in All |-> "run"]
    /\ want = [t \in All |-> NoObject]

KernelCall(t) == Schedule(t) \/ SleepReturn(t) \/ Yield(t)

Tick == Slice \/ \E t \in Threads : Timeout(t)
=============================================================================
