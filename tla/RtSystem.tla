------------------------------ MODULE RtSystem ------------------------------
(***************************************************************************)
(* Threads that use the mutexes, semaphores, events, mailboxes and message *)
(* queues of RT-Thread together, on one scheduler with one ready table and *)
(* one timer each, with the tick and the interrupts that release and send. *)
(***************************************************************************)
EXTENDS RtIpc, RtMsgQueue, RtEvent, FiniteSets

CONSTANTS
    Programs,   \* what each program uses, and the flags of the objects
    Sleepers    \* pairs of a thread and an object: who sleeps in the programs
                \* that use it

VARIABLE uses       \* what this program uses

vars == <<kernelVars, ipcVars, boxVars, queueVars, eventVars, uses>>

ASSUME SystemAssumption ==
    /\ Boxes \cap (Mutexes \cup Sems) = {}
    /\ Queues \cap (Mutexes \cup Sems \cup Boxes) = {}
    /\ \A o \in Boxes \cup Queues :
          Senders(o) \notin Mutexes \cup Sems \cup Boxes \cup Queues
    /\ Events \cap (Mutexes \cup Sems \cup Boxes \cup Queues) = {}
    /\ \A o \in Boxes \cup Queues : Senders(o) \notin Events
    /\ \A p \in Programs : p[2] \in Flags

RtInit ==
    /\ KernelInit /\ IpcInit /\ BoxInit /\ QueueInit /\ EventInit
    /\ \E p \in Programs : uses = p[1] /\ flag = p[2]

\* Neither a reset nor an rt_event_send is under way.
InterruptsOn == pc[cur] # "reset" /\ sending = NotSending

MaySleep(t) == \E o \in uses : <<t, o>> \in Sleepers

ThreadStep(t) ==
    /\ sending = NotSending
    /\ \/ /\ KernelCall(t) \/ (MaySleep(t) /\ Sleep(t))
          /\ UNCHANGED <<ipcVars, boxVars, queueVars, eventVars>>
       \/ /\ \/ \E m \in Mutexes \cap uses : MutexCall(t, m)
             \/ \E s \in Sems \cap uses : SemCall(t, s)
             \/ TakeReturn(t)
          /\ UNCHANGED <<boxVars, queueVars, eventVars>>
       \/ /\ \E b \in Boxes \cap uses : BoxCall(t, b) \/ BoxReturn(t, b)
          /\ UNCHANGED <<ipcVars, queueVars, eventVars>>
       \/ /\ \E q \in Queues \cap uses : QueueCall(t, q) \/ QueueReturn(t, q)
          /\ UNCHANGED <<ipcVars, eventVars>>
       \/ /\ \E e \in Events \cap uses : EventCall(t, e)
          /\ UNCHANGED <<ipcVars, boxVars, queueVars>>

Interrupt ==
    /\ InterruptsOn
    /\ \/ Tick /\ UNCHANGED <<ipcVars, boxVars, queueVars, eventVars>>
       \/ /\ \E s \in Sems \cap uses : SemReleaseIsr(s)
          /\ UNCHANGED <<boxVars, queueVars, eventVars>>
       \/ /\ \E b \in Boxes \cap uses : MbSendIsr(b)
          /\ UNCHANGED <<ipcVars, queueVars, eventVars>>
       \/ \E q \in Queues \cap uses : MqSendIsr(q) /\ UNCHANGED <<ipcVars, eventVars>>
       \/ /\ \E e \in Events \cap uses, new \in SUBSET Bits \ {{}} : EvSendIsr(e, new)
          /\ UNCHANGED <<ipcVars, boxVars, queueVars>>

RtNext ==
    /\ \/ \E t \in Threads : ThreadStep(t)
       \/ Interrupt
       \/ SendStep /\ UNCHANGED <<ipcVars, boxVars, queueVars>>
    /\ UNCHANGED uses

RtSpec == RtInit /\ [][RtNext]_vars

-----------------------------------------------------------------------------
(* Properties *)

\* A ready thread is in the list of its current priority, once, and in no
\* other list; a suspended one is, once, in the wait list of what it is
\* taking, and in none while it sleeps.  The one node of a thread is moved by
\* its calls, by those of others that boost or resume it and by interrupts.
NodeInOneList ==
    /\ \A p \in Prios :
          /\ IsInjective(ready[p])
          /\ \A t \in All : t \in ToSet(ready[p]) <=> stat[t] = "ready" /\ prio[t] = p
    /\ \A o \in Objects :
          /\ IsInjective(list[o])
          /\ \A t \in Threads : t \in ToSet(list[o]) <=> stat[t] = "suspend" /\ want[t] = o

\* The threads that thread->error says got what they waited for in list o: a
\* release has resumed them and they have not returned yet.
Takes(t, o) == pc[t] \in {"take_sched", "take_check"} /\ want[t] = o

Handed(o) == {t \in Threads : Takes(t, o) /\ stat[t] = "ready" /\ error[t] = "ok"}

\* No two threads have a mutex: whom a take has told that it succeeded is the
\* owner until it gives the mutex back, however handovers, timeouts and
\* interrupts interleave, and the mutex counts exactly its takes and is
\* available just while nobody has it.
Exclusion ==
    \A m \in Mutexes :
        /\ mutex[m].value = 1 <=> mutex[m].owner = NoThread
        /\ mutex[m].owner = NoThread => mutex[m].hold = 0
        /\ \A t \in Threads : holds[t][m] > 0 => Owns(t, m)
        /\ \A t \in Threads : Owns(t, m) =>
              mutex[m].hold = holds[t][m] + (IF t \in Handed(m) THEN 1 ELSE 0)

\* A timeout racing a handover: a thread that comes back from waiting for a
\* mutex owns it if thread->error says it succeeded, and otherwise neither
\* owns it nor is left in its list.
TakeResult ==
    \A t \in Threads :
        cur = t /\ pc[t] = "take_check" /\ want[t] \in Mutexes =>
            /\ error[t] = "ok" <=> Owns(t, want[t])
            /\ t \notin ToSet(list[want[t]])

\* Every release of a semaphore is taken once: what it owes is in its value
\* or on its way to one thread it has resumed.
SemConserved ==
    \A s \in Sems : credit[s] = count[s] + Cardinality(Handed(s))

\* RT_ASSERT of rt_thread_timeout (thread.c:791): the timer of a thread runs
\* only while it is suspended, so an old timer never ends a later wait.
TimerMeansSuspended == \A t \in timer : stat[t] = "suspend"

\* The threads that copy a message of q, and the blocks they copy.
Copying(q) == {t \in Threads : msg[t].queue = q}
InHand(q) == {msg[t].block : t \in Copying(q)}

\* Each block of q is once in a list or in the hands of one thread.
BlocksInOnePlace(q) ==
    LET free == ToSet(mq[q].free)
        queue == ToSet(mq[q].queue)
    IN  /\ IsInjective(mq[q].free) /\ IsInjective(mq[q].queue)
        /\ \A t, u \in Copying(q) : msg[t].block = msg[u].block => t = u
        /\ free \cup queue \cup InHand(q) = Blocks
        /\ free \cap queue = {} /\ (free \cup queue) \cap InHand(q) = {}

\* The blocks in the queue hold what was posted, and those that are copied
\* what is being sent or was received.
TextsKept(q) ==
    /\ Len(mq[q].queue) = mq[q].entry /\ Len(posted[q]) = mq[q].entry
    /\ \A i \in 1 .. mq[q].entry : mq[q].text[mq[q].queue[i]] = posted[q][i]
    /\ \A t \in Copying(q) : mq[q].text[msg[t].block] = msg[t].text

\* A mailbox and a message queue give what they were sent, in order.  The ring
\* of a mailbox holds from out_offset on the mails sent and not received.  The
\* blocks of a message queue, each in one place, are free, in the queue or in
\* the hands of one thread that copies, and what is linked or being read is
\* not written to, while others send, receive, time out and reset.
MailsInOrder ==
    /\ \A b \in Boxes :
          /\ Len(sent[b]) = box[b].entry
          /\ \A i \in 1 .. Len(sent[b]) :
                box[b].msg_pool[(box[b].out_offset + i - 1) % BoxSize] = sent[b][i]
    /\ \A q \in Queues : BlocksInOnePlace(q) /\ TextsKept(q)

\* Nobody waits for what is there: for a mutex nobody owns, for a semaphore
\* above 0, for a mail or message that no receiver is on its way to, or for a
\* place or block that no sender is on its way to, resumed for it, although
\* resumed threads may find that others were faster, wait again or give up;
\* nor, once a send of events is over, for events that are set, although the
\* threads it resumed took some out while it went through the list.
NoStrandedWaiter ==
    /\ \A m \in Mutexes : mutex[m].owner = NoThread => list[m] = <<>>
    /\ \A s \in Sems : list[s] # <<>> => count[s] = 0
    /\ \A b \in Boxes :
        /\ list[b] # <<>> => box[b].entry <= Cardinality(Handed(b))
        /\ list[Senders(b)] # <<>> =>
              BoxSize - box[b].entry <= Cardinality(Handed(Senders(b)))
    /\ \A q \in Queues :
        /\ list[q] # <<>> => mq[q].entry <= Cardinality(Handed(q))
        /\ list[Senders(q)] # <<>> =>
              Len(mq[q].free) <= Cardinality(Handed(Senders(q)))
    /\ \A e \in Events : sending.event # e => Hits(e) = {}

\* A thread runs at its own priority unless it owns a mutex, or has just been
\* handed one: nothing it lost or timed out on leaves it boosted.  One mutex.
PriorityRestored ==
    \A t \in Threads :
        (\A m \in Mutexes : ~Owns(t, m)) => prio[t] = Base[t]

\* Priority inheritance: with RT_IPC_FLAG_PRIO the owner of a mutex is at
\* least as urgent as every thread that waits for it.  One mutex.
Inherits ==
    \A m \in Mutexes : flag[m] = "prio" =>
        \A t \in ToSet(list[m]) : prio[mutex[m].owner] <= prio[t]

\* A priority is lent as long as it is needed, and given back with the mutex.  A
\* waiter that times out leaves its priority with the owner until then.  With two
\* mutexes neither half holds: a release gives the thread the priority it had at
\* that take (rt_mutex_take, rt_mutex_release: ipc.c:704-714, 832-840).
PriorityInheritance == PriorityRestored /\ Inherits

\* No ready thread is more urgent than the running one, unless rt_schedule is
\* about to be called: a call or a reset is on its way to it, or the
\* rt_event_send under way has resumed a thread.
Preemptive ==
    \/ pc[cur] \in SchedPoints \cup {"reset"}
    \/ sending.woke
    \/ \A t \in All : stat[t] = "ready" => prio[cur] <= prio[t]

\* Every step keeps the scheduling preemptive but one: the owner of a mutex
\* that gives a lent priority back when nobody waits any more.
OnlyPlainReleaseDefers ==
    [][Preemptive => \/ Preemptive'
                     \/ \E m \in Mutexes :
                           /\ ReleaseFree(cur, m)
                           /\ mutex[m].original_priority # prio[cur]]_vars

-----------------------------------------------------------------------------
(* A timer that goes on running expires: the tick interrupt comes, and one *)
(* that comes while the interrupts are disabled waits until they are not,  *)
(* which no code puts off for ever.  That the processor runs and that time *)
(* slices end is needed besides where nothing says that the system becomes *)
(* idle.                                                                   *)

TickFairness ==
    \A t \in Threads :
        WF_vars(Timeout(t) /\ UNCHANGED <<ipcVars, boxVars, queueVars, eventVars, uses>>)

RtTickSpec == RtSpec /\ TickFairness

RtFairSpec ==
    /\ RtTickSpec
    /\ WF_vars(\E t \in Threads : ThreadStep(t) /\ UNCHANGED uses)
    /\ WF_vars(SendStep /\ UNCHANGED <<ipcVars, boxVars, queueVars, uses>>)
    /\ WF_vars(/\ InterruptsOn /\ Slice
               /\ UNCHANGED <<ipcVars, boxVars, queueVars, eventVars, uses>>)

\* A timed wait or sleep ends, if the system is idle again and again: a thread
\* whose timer runs comes back from rt_schedule, and does not stay in a wait
\* list or out of the ready table.
TimedWaitEnds ==
    []<>(cur = Idle /\ InterruptsOn) => \A t \in Threads :
        t \in timer ~> (cur = t /\ pc[t] \in {"take_check", "sleep_check"})

\* "The thread shall wait for a specified time" (ipc.c:646): a timed wait of
\* a thread more urgent than all others ends.
UrgentTimedWaitEnds ==
    \A t \in Threads : (\A u \in Threads \ {t} : Base[t] < Base[u]) =>
        (t \in timer ~> (cur = t /\ pc[t] \in {"take_check", "sleep_check"}))
=============================================================================
