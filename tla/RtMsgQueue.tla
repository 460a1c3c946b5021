----------------------------- MODULE RtMsgQueue -----------------------------
(***************************************************************************)
(* The message queues of RT-Thread (ipc.c) over RtKernel.  The messages    *)
(* are in blocks, which a list of free blocks and the queue are linked     *)
(* from.  The interrupts are enabled while a message is copied into its    *)
(* block or out of it, and the block is then in neither list: other        *)
(* threads and interrupts may send, receive and reset meanwhile.  Waiting  *)
(* is that of the mailboxes, and what is waited for another: a receiver    *)
(* waits for a linked message, a sender for a free block.                  *)
(*                                                                         *)
(* Not in the code are posted, the messages linked and not received, in    *)
(* order, and of a copying receiver the message it has dequeued.           *)
(***************************************************************************)
EXTENDS RtMailbox

CONSTANTS
    Queues,     \* the message queues; a queue is also its list of receivers
    Blocks      \* the blocks of a queue: max_msgs of them

VARIABLES
    mq,         \* msg_queue_free, msg_queue_head and what follows it, entry
                \* and the contents of the blocks of every queue
    msg,        \* of every thread, what it copies: to or from which block of
                \* which queue, for what, and the message
    posted

queueVars == <<mq, msg, posted>>

ASSUME QueueAssumption ==
    /\ \A q \in Queues : {q, Senders(q)} \subseteq Objects
    /\ \A f \in Flags, q \in Queues : f[Senders(q)] = f[q]
    /\ IsFiniteSet(Blocks)

NoMsg == [queue |-> NoObject, block |-> NoObject, for |-> "none", text |-> NoMail]

NoFree(q) == mq[q].free = <<>>
NoPost(q) == mq[q].entry = 0

\* The running thread copies a message of q.
Copies(t, q) == cur = t /\ pc[t] = "copy" /\ msg[t].queue = q

\* t goes on to copy message v to or from block x.
CopyOf(t, q, x, for, v) ==
    /\ msg' = [msg EXCEPT ![t] = [queue |-> q, block |-> x, for |-> for, text |-> v]]
    /\ GoTo(t, "copy")
    /\ want' = [want EXCEPT ![t] = NoObject]
    /\ timed' = timed \ {t}
    /\ UNCHANGED <<ready, cur, stat, prio, error, timer, list, flag, box, sent>>

-----------------------------------------------------------------------------
(* The halves of a send and of a receive *)

\* The first free block is taken, to be written from here on.
Alloc(t, q, for) ==
    LET x == Head(mq[q].free)
    IN  /\ ~NoFree(q)
        /\ mq' = [mq EXCEPT ![q].free = Tail(@), ![q].text[x] = ThreadMail]
        /\ CopyOf(t, q, x, for, ThreadMail)
        /\ UNCHANGED posted

\* the block is free while it is read.
Dequeue_Freed(t, q) ==
    LET x == Head(mq[q].queue)
    IN  /\ ~NoPost(q)
        /\ mq' = [mq EXCEPT ![q].queue = Tail(@), ![q].entry = @ - 1,
                            ![q].free = <<x>> \o @]
        /\ CopyOf(t, q, x, "got", Head(posted[q]))
        /\ posted' = [posted EXCEPT ![q] = Tail(@)]

\* The first message of the queue is dequeued, to be read.
Dequeue(t, q) ==
    /\ ~NoPost(q)
    /\ mq' = [mq EXCEPT ![q].queue = Tail(@), ![q].entry = @ - 1]
    /\ CopyOf(t, q, Head(mq[q].queue), "got", Head(posted[q]))
    /\ posted' = [posted EXCEPT ![q] = Tail(@)]

\* v goes before the first of s if it is urgent, and after the last if not.
Linked(s, v, urgent) == IF urgent THEN <<v>> \o s ELSE Append(s, v)

-----------------------------------------------------------------------------
(* The calls.  One that does not wait and fails changes nothing.           *)

\* rt_mq_send_wait, rt_mq_send and rt_mq_urgent, if there is a free block.
MqAlloc(t, q, for) == Calls(t) /\ Alloc(t, q, for)

\* rt_mq_send_wait, if there is none.
MqSendWait(t, q, time) ==
    /\ Calls(t)
    /\ NoFree(q)
    /\ WaitOn(t, Senders(q), time)
    /\ UNCHANGED queueVars

\* The end of a send: the block is linked.
MqLink(t, q) ==
    LET urgent == msg[t].for = "urge"
    IN  /\ Copies(t, q)
        /\ msg[t].for \in {"put", "urge"}
        /\ mq' = [mq EXCEPT ![q].queue = Linked(@, msg[t].block, urgent),
                            ![q].entry = @ + 1]
        /\ posted' = [posted EXCEPT ![q] = Linked(@, msg[t].text, urgent)]
        /\ msg' = [msg EXCEPT ![t] = NoMsg]
        /\ WakeOne(q)
        /\ GoTo(t, LastPoint(q))
        /\ UNCHANGED <<cur, prio, error, flag, want, boxVars>>

\* rt_mq_send from an interrupt, which no other interrupt nests in.
MqSendIsr(q) ==
    LET x == Head(mq[q].free)
    IN  /\ ~NoFree(q)
        /\ mq' = [mq EXCEPT ![q].free = Tail(@), ![q].text[x] = IsrMail,
                            ![q].queue = Append(@, x), ![q].entry = @ + 1]
        /\ posted' = [posted EXCEPT ![q] = Append(@, IsrMail)]
        /\ WakeOne(q)
        /\ cur' = IF list[q] = <<>> THEN cur ELSE Elected(ready')
        /\ UNCHANGED <<prio, error, flag, want, pc, boxVars, msg>>

\* rt_mq_recv, if there is a message.
MqRecv(t, q) == Calls(t) /\ Dequeue(t, q)

\* rt_mq_recv, if there is none.
MqRecvWait(t, q, time) ==
    /\ Calls(t)
    /\ NoPost(q)
    /\ WaitOn(t, q, time)
    /\ UNCHANGED queueVars

\* The end of a receive: the block becomes the first free one.  What is left
\* in a free block is never read, and not modelled.
MqFree(t, q) ==
    LET x == msg[t].block
    IN  /\ Copies(t, q)
        /\ msg[t].for = "got"
        /\ mq' = [mq EXCEPT ![q].free = <<x>> \o @, ![q].text[x] = NoMail]
        /\ msg' = [msg EXCEPT ![t] = NoMsg]
        /\ WakeOne(Senders(q))
        /\ GoTo(t, LastPoint(Senders(q)))
        /\ UNCHANGED <<cur, prio, error, flag, want, boxVars, posted>>

\* rt_mq_control(RT_IPC_CMD_RESET), after the waiting threads have been
\* resumed: the messages are freed one by one.
MqResetEnd(t, q) ==
    /\ ResetEnd(t, q)
    /\ list[Senders(q)] = <<>>
    /\ mq' = [mq EXCEPT
              ![q] = [free |-> Reverse(@.queue) \o @.free, queue |-> <<>>, entry |-> 0,
                      text |-> [x \in Blocks |->
                          IF x \in ToSet(@.queue) THEN NoMail ELSE @.text[x]]]]
    /\ posted' = [posted EXCEPT ![q] = <<>>]
    /\ UNCHANGED <<boxVars, msg>>

-----------------------------------------------------------------------------
(* After rt_schedule: the loops of rt_mq_send_wait and rt_mq_recv.         *)

\* There is a free block, or a message.
MqSendWoken(t, q) ==
    /\ Back(t, Senders(q))
    /\ error[t] = "ok"
    /\ Alloc(t, q, "put")

MqRecvWoken(t, q) ==
    /\ Back(t, q)
    /\ error[t] = "ok"
    /\ Dequeue(t, q)

\* Somebody was faster.
MqMissed(t, q) ==
    /\ error[t] = "ok"
    /\ \/ Back(t, q) /\ NoPost(q)
       \/ Back(t, Senders(q)) /\ NoFree(q)

MqWaitAgain(t, q) ==
    /\ MqMissed(t, q)
    /\ WaitOn(t, want[t], t \in timed)
    /\ UNCHANGED queueVars

MqLate(t, q) ==
    /\ MqMissed(t, q)
    /\ GivesUp(t, q)
    /\ UNCHANGED queueVars

-----------------------------------------------------------------------------

\* rt_mq_init of every queue: all blocks are free.
QueueInit ==
    /\ mq = [q \in Queues |->
                [free |-> SetToSeq(Blocks), queue |-> <<>>, entry |-> 0,
                 text |-> [x \in Blocks |-> NoMail]]]
    /\ msg = [t \in Threads |-> NoMsg]
    /\ posted = [q \in Queues |-> <<>>]

QueueCall(t, q) ==
    \/ \E for \in {"put", "urge"} : MqAlloc(t, q, for)
    \/ <<t, q>> \notin Consumers /\ \E time \in BOOLEAN : MqSendWait(t, q, time)
    \/ MqRecv(t, q)
    \/ \E time \in BOOLEAN : MqRecvWait(t, q, time)
    \/ ResetBegin(t, q) /\ UNCHANGED <<boxVars, queueVars>>

QueueReturn(t, q) ==
    \/ MqLink(t, q) \/ MqFree(t, q)
    \/ WaitFails(t, q) /\ UNCHANGED queueVars
    \/ MqSendWoken(t, q) \/ MqRecvWoken(t, q)
    \/ MqWaitAgain(t, q) \/ MqLate(t, q)
    \/ ResetOne(t, q) /\ UNCHANGED queueVars
    \/ MqResetEnd(t, q)
=============================================================================
