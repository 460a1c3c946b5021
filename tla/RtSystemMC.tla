----------------------------- MODULE RtSystemMC -----------------------------
(***************************************************************************)
(* Threads of different priorities and programs that use a mutex or a      *)
(* semaphore with either flag, a mailbox or an event object that is first  *)
(* come first served, or a message queue with RT_IPC_FLAG_PRIO.            *)
(***************************************************************************)
EXTENDS RtSystem

CONSTANTS t1, t2, t3, m, s, b, q, e, x1, x2, e1, e2

MCBase == [t \in Threads |-> CASE t = t1 -> 1 [] t = t2 -> 2 [] OTHER -> 3]

MCObjects == {m, s, b, <<b, "senders">>, q, <<q, "senders">>, e}

\* The objects of prio have RT_IPC_FLAG_PRIO.
MCFlag(prios) == [o \in MCObjects |-> IF o \in prios THEN "prio" ELSE "fifo"]

MCPrograms ==
    {<<{m}, MCFlag({})>>, <<{m}, MCFlag({m})>>, <<{s}, MCFlag({})>>, <<{s}, MCFlag({s})>>,
     <<{b}, MCFlag({})>>, <<{q}, MCFlag({q, <<q, "senders">>})>>,
     <<{e}, MCFlag({})>>}

\* t1 waits for both events and t2 for some, which they take out, and t3 for
\* one that it leaves.
MCAsks ==
    [t \in Threads |->
        CASE t = t1 -> {[set |-> {e1, e2}, and |-> TRUE, clear |-> TRUE]}
          [] t = t2 -> {[set |-> {e1, e2}, and |-> FALSE, clear |-> TRUE]}
          [] OTHER -> {[set |-> {e1}, and |-> FALSE, clear |-> FALSE]}]

\* the mutex alone
MCMutex == {p \in MCPrograms : p[1] = {m}}

MCConsumers == {t2} \X {b, q}

MCSleepers == Threads \X {m, s} \cup {t2} \X {b, q, e}

MCFlags == {p[2] : p \in MCPrograms}
=============================================================================
