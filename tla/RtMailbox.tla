----------------------------- MODULE RtMailbox ------------------------------
(***************************************************************************)
(* The mailboxes of RT-Thread (ipc.c) over RtKernel: a ring of mails,      *)
(* senders that wait while it is full and receivers that wait while it is  *)
(* empty, each in a list of their own.  A resumed thread finds the mail    *)
(* or the room it was resumed for only if nobody was faster, and otherwise *)
(* waits again for what is left of its time.                               *)
(*                                                                         *)
(* sent is not in the code: the mails sent and not received, in order.     *)
(***************************************************************************)
EXTENDS RtKernel

CONSTANTS
    Boxes,      \* the mailboxes; a mailbox is also its list of receivers
    ThreadMail, \* what threads send
    IsrMail,    \* what interrupts send
    Consumers,  \* pairs of a thread and an object that it never waits to send to:
                \* with none, all threads may wait for room in one full object
    BoxSize,    \* mb->size
    NoMail

VARIABLES
    box,        \* msg_pool, in_offset, out_offset and entry of every mailbox
    timed,      \* the threads in a mailbox call whose timeout is above 0
    sent

Mails == {ThreadMail, IsrMail}

boxVars == <<box, timed, sent>>

\* mb->suspend_sender_thread.
Senders(b) == <<b, "senders">>

ASSUME BoxAssumption ==
    /\ \A b \in Boxes : {b, Senders(b)} \subseteq Objects
    /\ \A f \in Flags, b \in Boxes : f[Senders(b)] = f[b]
    /\ BoxSize \in Nat \ {0}
    /\ NoMail \notin Mails

EmptyBox == [msg_pool |-> [i \in 0 .. BoxSize - 1 |-> NoMail],
             in_offset |-> 0, out_offset |-> 0, entry |-> 0]

Full(b) == box[b].entry = BoxSize
Empty(b) == box[b].entry = 0

\* ++offset; if (offset >= mb->size) offset = 0.
After(offset) == IF offset + 1 >= BoxSize THEN 0 ELSE offset + 1

-----------------------------------------------------------------------------
(* The two ways through a call *)

\* A thread is resumed from list o if one waits there.
WakeOne(o) ==
    IF list[o] = <<>>
    THEN UNCHANGED <<list, timer, stat, ready>>
    ELSE ResumeFirst(o, ready)

\* A resumed thread makes the caller end with rt_schedule.
LastPoint(o) == IF list[o] = <<>> THEN "run" ELSE "last_sched"

\* the next place is not wrapped to the first
Put_Unwrapped(b, v) ==
    /\ ~Full(b)
    /\ box' = [box EXCEPT ![b].msg_pool[box[b].in_offset] = v,
                          ![b].in_offset = IF @ + 1 > BoxSize - 1 THEN @ ELSE @ + 1,
                          ![b].entry = @ + 1]
    /\ sent' = [sent EXCEPT ![b] = Append(@, v)]
    /\ WakeOne(b)

\* One mail goes into the ring.
Put(b, v) ==
    /\ ~Full(b)
    /\ box' = [box EXCEPT ![b].msg_pool[box[b].in_offset] = v,
                          ![b].in_offset = After(@),
                          ![b].entry = @ + 1]
    /\ sent' = [sent EXCEPT ![b] = Append(@, v)]
    /\ WakeOne(b)

\* no sender is resumed
Get_NoWake(b) ==
    /\ ~Empty(b)
    /\ box' = [box EXCEPT ![b].msg_pool[box[b].out_offset] = NoMail,
                          ![b].out_offset = After(@),
                          ![b].entry = @ - 1]
    /\ sent' = [sent EXCEPT ![b] = Tail(@)]
    /\ UNCHANGED <<list, timer, stat, ready>>

\* One mail comes out of it.  A place that holds no mail is never read, and
\* what is left there is not modelled.
Get(b) ==
    /\ ~Empty(b)
    /\ box' = [box EXCEPT ![b].msg_pool[box[b].out_offset] = NoMail,
                          ![b].out_offset = After(@),
                          ![b].entry = @ - 1]
    /\ sent' = [sent EXCEPT ![b] = Tail(@)]
    /\ WakeOne(Senders(b))

\* The caller suspends itself on o, time saying whether its timeout is above 0.
WaitOn(t, o, time) ==
    /\ SuspendOn(t, o, time, ready, prio)
    /\ timed' = IF time THEN timed \cup {t} ELSE timed \ {t}
    /\ UNCHANGED <<cur, flag, box, sent>>

-----------------------------------------------------------------------------
(* The calls.  One that does not wait and fails changes nothing.           *)

\* rt_mb_send_wait and rt_mb_send into a mailbox with room.
MbSend(t, b) ==
    /\ Calls(t)
    /\ Put(b, ThreadMail)
    /\ GoTo(t, LastPoint(b))
    /\ UNCHANGED <<cur, prio, error, flag, want, timed>>

\* rt_mb_send_wait into a full one.
MbSendWait(t, b, time) ==
    /\ Calls(t)
    /\ Full(b)
    /\ WaitOn(t, Senders(b), time)

\* rt_mb_send from an interrupt.
MbSendIsr(b) ==
    /\ Put(b, IsrMail)
    /\ cur' = IF list[b] = <<>> THEN cur ELSE Elected(ready')
    /\ UNCHANGED <<prio, error, flag, want, pc, timed>>

\* rt_mb_recv from a mailbox with mails.
MbRecv(t, b) ==
    /\ Calls(t)
    /\ Get(b)
    /\ GoTo(t, LastPoint(Senders(b)))
    /\ UNCHANGED <<cur, prio, error, flag, want, timed>>

\* rt_mb_recv from an empty one.
MbRecvWait(t, b, time) ==
    /\ Calls(t)
    /\ Empty(b)
    /\ WaitOn(t, b, time)

\* rt_mb_control(RT_IPC_CMD_RESET): rt_ipc_list_resume_all of the receivers and
\* then of the senders.
ResetOne(t, b) ==
    /\ ResetNext(t, b, IF list[b] # <<>> THEN b ELSE Senders(b))
    /\ UNCHANGED boxVars

MbResetEnd(t, b) ==
    /\ ResetEnd(t, b)
    /\ list[Senders(b)] = <<>>
    /\ box' = [box EXCEPT ![b] = EmptyBox]
    /\ sent' = [sent EXCEPT ![b] = <<>>]
    /\ UNCHANGED timed

-----------------------------------------------------------------------------
(* After rt_schedule: the loops of rt_mb_send_wait and rt_mb_recv.         *)

Leave(t, point) ==
    /\ GoTo(t, point)
    /\ want' = [want EXCEPT ![t] = NoObject]
    /\ timed' = timed \ {t}

\* thread->error is not RT_EOK: the wait timed out or the mailbox was reset.
WaitFails(t, b) ==
    /\ Back(t, b) \/ Back(t, Senders(b))
    /\ error[t] # "ok"
    /\ Leave(t, "run")
    /\ UNCHANGED <<ready, cur, stat, prio, error, timer, list, flag, box, sent>>

\* There is room, or a mail.
MbSendWoken(t, b) ==
    /\ Back(t, Senders(b))
    /\ error[t] = "ok"
    /\ Put(b, ThreadMail)
    /\ Leave(t, LastPoint(b))
    /\ UNCHANGED <<cur, prio, error, flag>>

MbRecvWoken(t, b) ==
    /\ Back(t, b)
    /\ error[t] = "ok"
    /\ Get(b)
    /\ Leave(t, LastPoint(Senders(b)))
    /\ UNCHANGED <<cur, prio, error, flag>>

\* Somebody was faster.
Missed(t, b) ==
    \/ Back(t, b) /\ Empty(b)
    \/ Back(t, Senders(b)) /\ Full(b)

\* Some time is left: wait again.
MbWaitAgain(t, b) ==
    /\ Missed(t, b)
    /\ error[t] = "ok"
    /\ WaitOn(t, want[t], t \in timed)

\* No time is left: the ticks since the wait began have used it up.
GivesUp(t, b) ==
    /\ t \in timed
    /\ error' = [error EXCEPT ![t] = IF want[t] = b THEN "timeout" ELSE "ok"]
    /\ Leave(t, "run")
    /\ UNCHANGED <<ready, cur, stat, prio, timer, list, flag, box, sent>>

MbLate(t, b) ==
    /\ Missed(t, b)
    /\ error[t] = "ok"
    /\ GivesUp(t, b)

-----------------------------------------------------------------------------

\* rt_mb_init of every mailbox.
BoxInit ==
    /\ box = [b \in Boxes |-> EmptyBox]
    /\ timed = {}
    /\ sent = [b \in Boxes |-> <<>>]

BoxCall(t, b) ==
    \/ MbSend(t, b)
    \/ <<t, b>> \notin Consumers /\ \E time \in BOOLEAN : MbSendWait(t, b, time)
    \/ MbRecv(t, b)
    \/ \E time \in BOOLEAN : MbRecvWait(t, b, time)
    \/ ResetBegin(t, b) /\ UNCHANGED boxVars

BoxReturn(t, b) ==
    \/ WaitFails(t, b) \/ MbSendWoken(t, b) \/ MbRecvWoken(t, b)
    \/ MbWaitAgain(t, b) \/ MbLate(t, b)
    \/ ResetOne(t, b) \/ MbResetEnd(t, b)
=============================================================================
