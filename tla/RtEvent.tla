------------------------------ MODULE RtEvent -------------------------------
(***************************************************************************)
(* The event objects of RT-Thread (ipc.c) over RtKernel: a set of events   *)
(* that threads and interrupts add to, and threads that wait for some or   *)
(* all of the events they ask for and may take them out of the set.  One   *)
(* rt_event_send goes through all who wait, and whom it resumes decides    *)
(* what is left for the next.                                              *)
(*                                                                         *)
(* rt_event_send keeps the interrupts disabled throughout; here it is a    *)
(* step for each thread it resumes, and no other step comes in between.    *)
(***************************************************************************)
EXTENDS RtKernel

CONSTANTS
    Events,     \* the event objects
    Bits,       \* the events of an object
    Asks        \* what each thread asks for: a set of events, whether they want
                \* all of it or some, and whether they take it out

VARIABLES
    events,     \* event->set
    info,       \* event_set and event_info of every thread
    sending     \* the rt_event_send under way: to which object, whether from
                \* an interrupt, and need_schedule

eventVars == <<events, info, sending>>

Info == [set : SUBSET Bits, and : BOOLEAN, clear : BOOLEAN]

ASSUME EventAssumption ==
    /\ Events \subseteq Objects
    /\ Asks \in [Threads -> SUBSET Info]
    /\ \A t \in Threads : \A a \in Asks[t] : a.set # {}

\* What is left of a wait that is over is never read, and not modelled.
NoInfo == [set |-> {}, and |-> FALSE, clear |-> FALSE]

NotSending == [event |-> NoObject, isr |-> FALSE, woke |-> FALSE]

\* RT_EVENT_FLAG_AND, RT_EVENT_FLAG_OR
Meets(set, a) == IF a.and THEN a.set \subseteq set ELSE a.set \cap set # {}

\* RT_EVENT_FLAG_CLEAR
Left(set, a) == IF a.clear THEN set \ a.set ELSE set

-----------------------------------------------------------------------------
(* rt_event_send *)

\* The places in the list of e of the threads that have what they asked for
Hits(e) == {i \in DOMAIN list[e] : Meets(events[e], info[list[e][i]])}

Sends(e, new, isr) ==
    /\ events' = [events EXCEPT ![e] = @ \cup new]
    /\ sending' = [event |-> e, isr |-> isr, woke |-> FALSE]
    /\ UNCHANGED <<kernelVars, info>>

EvSend(t, e, new) == Calls(t) /\ Sends(e, new, FALSE)

EvSendIsr(e, new) == Sends(e, new, TRUE)

\* The next thread that has what it asked for is resumed: it got those of its
\* events that are in the set, which goes on without them if it takes them.
EvResume(e) ==
    LET u == list[e][Min(Hits(e))]
        got == [info[u] EXCEPT !.set = @ \cap events[e]]
    IN  /\ sending.event = e
        /\ Hits(e) # {}
        /\ info' = [info EXCEPT ![u] = got]
        /\ events' = [events EXCEPT ![e] = Left(@, got)]
        /\ sending' = [sending EXCEPT !.woke = TRUE]
        /\ Resume(u)
        /\ UNCHANGED <<cur, prio, error, flag, pc, want>>

\* None is left: the caller calls rt_schedule if it has resumed a thread.
EvSendEnd(e) ==
    /\ sending.event = e
    /\ Hits(e) = {}
    /\ sending' = NotSending
    /\ \/ /\ sending.isr
          /\ cur' = IF sending.woke THEN Elected(ready) ELSE cur
          /\ UNCHANGED pc
       \/ /\ ~sending.isr
          /\ GoTo(cur, IF sending.woke THEN "last_sched" ELSE "run")
          /\ UNCHANGED cur
    /\ UNCHANGED <<ready, stat, prio, error, timer, list, flag, want, events, info>>

-----------------------------------------------------------------------------
(* rt_event_recv and rt_event_control *)

\* The thread has what it asks for at once.
EvRecv(t, e, a) ==
    /\ Calls(t)
    /\ Meets(events[e], a)
    /\ events' = [events EXCEPT ![e] = Left(@, a)]
    /\ error' = [error EXCEPT ![t] = "ok"]
    /\ UNCHANGED <<ready, cur, stat, prio, timer, list, flag, pc, want, info, sending>>

\* It has not, and does not wait.
EvRecvBusy(t, e, a) ==
    /\ Calls(t)
    /\ ~Meets(events[e], a)
    /\ error' = [error EXCEPT ![t] = "timeout"]
    /\ UNCHANGED <<ready, cur, stat, prio, timer, list, flag, pc, want, eventVars>>

\* It has not, and waits.
EvRecvWait(t, e, a, time) ==
    /\ Calls(t)
    /\ ~Meets(events[e], a)
    /\ info' = [info EXCEPT ![t] = a]
    /\ SuspendOn(t, e, time, ready, prio)
    /\ UNCHANGED <<cur, flag, events, sending>>

\* After rt_schedule: thread->error and event_set are what the call returns.
EvReturn(t, e) ==
    /\ Back(t, e)
    /\ GoTo(t, "run")
    /\ want' = [want EXCEPT ![t] = NoObject]
    /\ info' = [info EXCEPT ![t] = NoInfo]
    /\ UNCHANGED <<ready, cur, stat, prio, error, timer, list, flag, events, sending>>

\* rt_event_control(RT_IPC_CMD_RESET), after the waiting threads have been
\* resumed.
EvResetEnd(t, e) ==
    /\ ResetEnd(t, e)
    /\ events' = [events EXCEPT ![e] = {}]
    /\ UNCHANGED <<info, sending>>

-----------------------------------------------------------------------------

\* rt_event_init of every object.
EventInit ==
    /\ events = [e \in Events |-> {}]
    /\ info = [t \in Threads |-> NoInfo]
    /\ sending = NotSending

EventCall(t, e) ==
    \/ \E new \in SUBSET Bits \ {{}} : EvSend(t, e, new)
    \/ \E a \in Asks[t] : \/ EvRecv(t, e, a) \/ EvRecvBusy(t, e, a)
                       \/ \E time \in BOOLEAN : EvRecvWait(t, e, a, time)
    \/ EvReturn(t, e)
    \/ (ResetBegin(t, e) \/ ResetNext(t, e, e)) /\ UNCHANGED eventVars
    \/ EvResetEnd(t, e)

SendStep == \E e \in Events : EvResume(e) \/ EvSendEnd(e)
=============================================================================
