------------------------------- MODULE RtIpc --------------------------------
(***************************************************************************)
(* The mutexes and the semaphores of RT-Thread (ipc.c) over RtKernel: a    *)
(* recursive mutex that lends the priority of a waiting thread to its      *)
(* owner and is handed over to the first waiter, and a counting semaphore  *)
(* that threads and interrupts release.                                    *)
(*                                                                         *)
(* holds and credit are not in the code.  holds is what the calls have     *)
(* returned to each thread: how many times it has been told that it took a *)
(* mutex and has not given it back.  credit is what a semaphore owes: its  *)
(* releases less the takes that have returned successfully.                *)
(***************************************************************************)
EXTENDS RtKernel

CONSTANTS
    Mutexes, Sems,
    NoThread,   \* RT_NULL as an owner
    NoPrio,     \* 0xFF as original_priority
    MaxHold,    \* bound: how deep a thread takes a mutex it owns
    MaxCount    \* bound: how far the value of a semaphore grows

VARIABLES
    mutex,      \* value, owner, original_priority and hold of every mutex
    holds,
    count,      \* sem->value
    credit

ipcVars == <<mutex, holds, count, credit>>

ASSUME IpcAssumption ==
    /\ Mutexes \cup Sems \subseteq Objects
    /\ Mutexes \cap Sems = {}
    /\ NoThread \notin All
    /\ NoPrio \notin Prios
    /\ MaxHold \in Nat \ {0}
    /\ MaxCount \in Nat

FreeMutex == [value |-> 1, owner |-> NoThread,
              original_priority |-> NoPrio, hold |-> 0]

Owns(t, m) == mutex[m].owner = t

-----------------------------------------------------------------------------
(* rt_mutex_take *)

\* The owner takes its mutex again.
TakeOwn(t, m) ==
    /\ Calls(t)
    /\ Owns(t, m)
    /\ mutex[m].hold < MaxHold
    /\ error' = [error EXCEPT ![t] = "ok"]
    /\ mutex' = [mutex EXCEPT ![m].hold = @ + 1]
    /\ holds' = [holds EXCEPT ![t][m] = @ + 1]
    /\ UNCHANGED <<ready, cur, stat, prio, timer, list, flag, pc, want,
                   count, credit>>

\* The mutex is available.
TakeFree(t, m) ==
    /\ Calls(t)
    /\ ~Owns(t, m)
    /\ mutex[m].value > 0
    /\ error' = [error EXCEPT ![t] = "ok"]
    /\ mutex' = [mutex EXCEPT ![m].value = @ - 1,
                              ![m].owner = t,
                              ![m].original_priority = prio[t],
                              ![m].hold = @ + 1]
    /\ holds' = [holds EXCEPT ![t][m] = @ + 1]
    /\ UNCHANGED <<ready, cur, stat, prio, timer, list, flag, pc, want,
                   count, credit>>

Unavailable(t, m) == ~Owns(t, m) /\ mutex[m].value = 0

\* It is not, and the caller does not wait.
TakeBusy(t, m) ==
    /\ Calls(t)
    /\ Unavailable(t, m)
    /\ error' = [error EXCEPT ![t] = "timeout"]
    /\ UNCHANGED <<ready, cur, stat, prio, timer, list, flag, pc, want,
                   ipcVars>>

\* It is not, and the caller waits, for a time or forever: its priority goes
\* to the owner if it is the more urgent, and it suspends itself.
TakeWait(t, m, time) ==
    LET o == mutex[m].owner
    IN  /\ Calls(t)
        /\ Unavailable(t, m)
        /\ \/ /\ prio[t] < prio[o]
              /\ SuspendOn(t, m, time, Reprioritised(ready, o, prio[t]),
                           [prio EXCEPT ![o] = prio[t]])
           \/ /\ prio[t] >= prio[o]
              /\ SuspendOn(t, m, time, ready, prio)
        /\ UNCHANGED <<cur, flag, ipcVars>>

-----------------------------------------------------------------------------
(* rt_mutex_release *)

\* Not by its owner.
ReleaseForeign(t, m) ==
    /\ Calls(t)
    /\ ~Owns(t, m)
    /\ error' = [error EXCEPT ![t] = "error"]
    /\ UNCHANGED <<ready, cur, stat, prio, timer, list, flag, pc, want,
                   ipcVars>>

\* One of several takes.
ReleaseNested(t, m) ==
    /\ Calls(t)
    /\ Owns(t, m)
    /\ mutex[m].hold > 1
    /\ mutex' = [mutex EXCEPT ![m].hold = @ - 1]
    /\ holds' = [holds EXCEPT ![t][m] = @ - 1]
    /\ UNCHANGED <<kernelVars, count, credit>>

\* The last one: the owner gets its own priority back.
LetsGo(t, m) == Calls(t) /\ Owns(t, m) /\ mutex[m].hold = 1

Restored(t, m) ==
    IF mutex[m].original_priority # prio[t]
    THEN Reprioritised(ready, t, mutex[m].original_priority)
    ELSE ready

\* the value goes up on a handover too.
ReleaseHandOver_Frees(t, m) ==
    /\ LetsGo(t, m)
    /\ list[m] # <<>>
    /\ prio' = [prio EXCEPT ![t] = mutex[m].original_priority]
    /\ mutex' = [mutex EXCEPT ![m].value = @ + 1,
                              ![m].owner = Head(list[m]),
                              ![m].original_priority = prio[Head(list[m])]]
    /\ ResumeFirst(m, Restored(t, m))
    /\ holds' = [holds EXCEPT ![t][m] = @ - 1]
    /\ GoTo(t, "last_sched")
    /\ UNCHANGED <<cur, error, flag, want, count, credit>>

\* the old owner keeps the lent priority.
ReleaseHandOver_Boosted(t, m) ==
    /\ LetsGo(t, m)
    /\ list[m] # <<>>
    /\ mutex' = [mutex EXCEPT ![m].owner = Head(list[m]),
                              ![m].original_priority = prio[Head(list[m])]]
    /\ ResumeFirst(m, ready)
    /\ holds' = [holds EXCEPT ![t][m] = @ - 1]
    /\ GoTo(t, "last_sched")
    /\ UNCHANGED <<cur, prio, error, flag, want, count, credit>>

\* Nobody waits.  There is no rt_schedule on this path.
ReleaseFree(t, m) ==
    /\ LetsGo(t, m)
    /\ list[m] = <<>>
    /\ ready' = Restored(t, m)
    /\ prio' = [prio EXCEPT ![t] = mutex[m].original_priority]
    /\ mutex' = [mutex EXCEPT ![m] = [value |-> @.value + 1,
                                      owner |-> NoThread,
                                      original_priority |-> NoPrio,
                                      hold |-> @.hold - 1]]
    /\ holds' = [holds EXCEPT ![t][m] = @ - 1]
    /\ UNCHANGED <<cur, stat, error, timer, list, flag, pc, want, count, credit>>

\* The first waiter becomes the owner and is resumed.
ReleaseHandOver(t, m) ==
    /\ LetsGo(t, m)
    /\ list[m] # <<>>
    /\ prio' = [prio EXCEPT ![t] = mutex[m].original_priority]
    /\ mutex' = [mutex EXCEPT ![m].owner = Head(list[m]),
                              ![m].original_priority = prio[Head(list[m])]]
    /\ ResumeFirst(m, Restored(t, m))
    /\ holds' = [holds EXCEPT ![t][m] = @ - 1]
    /\ GoTo(t, "last_sched")
    /\ UNCHANGED <<cur, error, flag, want, count, credit>>

-----------------------------------------------------------------------------
(* rt_sem_take, rt_sem_trytake, rt_sem_release, rt_sem_control *)

SemTakeFree(t, s) ==
    /\ Calls(t)
    /\ count[s] > 0
    /\ count' = [count EXCEPT ![s] = @ - 1]
    /\ credit' = [credit EXCEPT ![s] = @ - 1]
    /\ UNCHANGED <<kernelVars, mutex, holds>>

\* A semaphore that is not available and not waited for changes nothing.
SemTakeWait(t, s, time) ==
    /\ Calls(t)
    /\ count[s] = 0
    /\ SuspendOn(t, s, time, ready, prio)
    /\ UNCHANGED <<cur, flag, ipcVars>>

\* the value goes up in both cases.
SemPut_Both(s) ==
    /\ credit[s] < MaxCount
    /\ credit' = [credit EXCEPT ![s] = @ + 1]
    /\ count' = [count EXCEPT ![s] = @ + 1]
    /\ \/ /\ list[s] = <<>>
          /\ UNCHANGED <<list, timer, stat, ready>>
       \/ /\ list[s] # <<>>
          /\ ResumeFirst(s, ready)
    /\ UNCHANGED <<prio, error, flag, want, mutex, holds>>

\* The value goes up, or the first waiter is resumed.
SemPut(s) ==
    /\ credit[s] < MaxCount
    /\ credit' = [credit EXCEPT ![s] = @ + 1]
    /\ \/ /\ list[s] = <<>>
          /\ count' = [count EXCEPT ![s] = @ + 1]
          /\ UNCHANGED <<list, timer, stat, ready>>
       \/ /\ list[s] # <<>>
          /\ ResumeFirst(s, ready)
          /\ UNCHANGED count
    /\ UNCHANGED <<prio, error, flag, want, mutex, holds>>

\* need_schedule is not set.
SemRelease_Unscheduled(t, s) ==
    /\ Calls(t)
    /\ SemPut(s)
    /\ UNCHANGED <<cur, pc>>

SemRelease(t, s) ==
    /\ Calls(t)
    /\ SemPut(s)
    /\ GoTo(t, IF list[s] = <<>> THEN "run" ELSE "last_sched")
    /\ UNCHANGED cur

\* The same, from an interrupt: rt_schedule switches when it ends.
SemReleaseIsr(s) ==
    /\ SemPut(s)
    /\ cur' = IF list[s] = <<>> THEN cur ELSE Elected(ready')
    /\ UNCHANGED pc

\* rt_sem_control(RT_IPC_CMD_RESET), after the waiting threads have been
\* resumed: what is owed changes by as much as the value does, and threads on
\* their way with a release from before keep it.
SemResetEnd(t, s, value) ==
    /\ ResetEnd(t, s)
    /\ count' = [count EXCEPT ![s] = value]
    /\ credit' = [credit EXCEPT ![s] = @ - count[s] + value]
    /\ UNCHANGED <<mutex, holds>>

-----------------------------------------------------------------------------
(* rt_mutex_take and rt_sem_take after rt_schedule: thread->error says     *)
(* whether the thread was resumed by a release or by its timer.            *)

TakeReturn(t) ==
    /\ cur = t
    /\ pc[t] = "take_check"
    /\ want[t] \in Mutexes \cup Sems
    /\ \/ /\ error[t] = "ok"
          /\ want[t] \in Mutexes
          /\ holds' = [holds EXCEPT ![t][want[t]] = @ + 1]
          /\ UNCHANGED credit
       \/ /\ error[t] = "ok"
          /\ want[t] \in Sems
          /\ credit' = [credit EXCEPT ![want[t]] = @ - 1]
          /\ UNCHANGED holds
       \/ /\ error[t] # "ok"
          /\ UNCHANGED <<holds, credit>>
    /\ GoTo(t, "run")
    /\ want' = [want EXCEPT ![t] = NoObject]
    /\ UNCHANGED <<ready, cur, stat, prio, error, timer, list, flag, mutex, count>>

-----------------------------------------------------------------------------

\* rt_mutex_init and rt_sem_init (of value 0) of every object.
IpcInit ==
    /\ mutex = [m \in Mutexes |-> FreeMutex]
    /\ holds = [t \in Threads |-> [m \in Mutexes |-> 0]]
    /\ count = [s \in Sems |-> 0]
    /\ credit = [s \in Sems |-> 0]

MutexCall(t, m) ==
    \/ TakeOwn(t, m) \/ TakeFree(t, m) \/ TakeBusy(t, m)
    \/ \E time \in BOOLEAN : TakeWait(t, m, time)
    \/ ReleaseForeign(t, m) \/ ReleaseNested(t, m)
    \/ ReleaseFree(t, m) \/ ReleaseHandOver(t, m)

SemCall(t, s) ==
    \/ SemTakeFree(t, s) \/ SemRelease(t, s)
    \/ \E time \in BOOLEAN : SemTakeWait(t, s, time)
    \/ (ResetBegin(t, s) \/ ResetNext(t, s, s)) /\ UNCHANGED ipcVars
    \/ \E value \in 0 .. MaxCount : SemResetEnd(t, s, value)
=============================================================================
