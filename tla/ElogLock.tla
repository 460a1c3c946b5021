------------------------------ MODULE ElogLock ------------------------------
(***************************************************************************)
(* EasyLogger's output lock (elog.c): elog_output_lock, elog_output_unlock *)
(* and the flags they keep for elog_output_lock_enabled, the switch that   *)
(* ElogLockSwitch adds.                                                    *)
(*                                                                         *)
(* The lock itself is the port's (elog_port_output_lock), modelled as a    *)
(* mutex that does not know its owner: a release frees it whoever holds    *)
(* it.  elog.c keeps two flags beside it, written outside the protection   *)
(* of the port lock, and uses them to decide what to do on re-enabling.    *)
(***************************************************************************)
EXTENDS Naturals

CONSTANTS
    Threads,     \* the contexts that log
    NoThread     \* the port lock is free

VARIABLES
    port,                  \* holder of the port lock, or NoThread
    output_lock_enabled,
    locked_before_enable,  \* elog.output_is_locked_before_enable
    locked_before_disable, \* elog.output_is_locked_before_disable
    lpc                    \* where each thread is in the lock functions

lockVars == <<port, output_lock_enabled, locked_before_enable,
              locked_before_disable, lpc>>

ASSUME LockAssumption == NoThread \notin Threads

\* Program points: "out" and "in" the critical section; "portlock" and
\* "portunlock" about to call the port; "setflag" and "clrflag" about to
\* write the flag.
LockPoints == {"out", "portlock", "setflag", "in", "portunlock", "clrflag"}

\* The points at which a thread owns the port lock when it is never disabled.
HeldPoints == {"setflag", "in", "portunlock"}

At(t, point) == lpc[t] = point
GoTo(t, point) == lpc' = [lpc EXCEPT ![t] = point]

-----------------------------------------------------------------------------

\* After elog_init: the lock is enabled and nobody holds it.
LockInit ==
    /\ port = NoThread
    /\ output_lock_enabled = TRUE
    /\ locked_before_enable = FALSE
    /\ locked_before_disable = FALSE
    /\ lpc = [t \in Threads |-> "out"]

\* elog_output_lock: test of output_lock_enabled, and the disabled branch.
LockTest(t) ==
    /\ At(t, "out")
    /\ \/ /\ output_lock_enabled
          /\ GoTo(t, "portlock")
          /\ UNCHANGED locked_before_enable
       \/ /\ ~output_lock_enabled
          /\ locked_before_enable' = TRUE
          /\ GoTo(t, "in")
    /\ UNCHANGED <<port, output_lock_enabled, locked_before_disable>>

\* A port lock that does not wait for its holder.
PortLock_NoWait(t) ==
    /\ At(t, "portlock")
    /\ port' = t
    /\ GoTo(t, "setflag")
    /\ UNCHANGED <<output_lock_enabled, locked_before_enable, locked_before_disable>>

\* elog_port_output_lock(): waits for the mutex.
PortLock(t) ==
    /\ At(t, "portlock")
    /\ port = NoThread
    /\ port' = t
    /\ GoTo(t, "setflag")
    /\ UNCHANGED <<output_lock_enabled, locked_before_enable, locked_before_disable>>

SetFlag(t) ==
    /\ At(t, "setflag")
    /\ locked_before_disable' = TRUE
    /\ GoTo(t, "in")
    /\ UNCHANGED <<port, output_lock_enabled, locked_before_enable>>

\* elog_output_unlock: test of output_lock_enabled, and the disabled branch.
UnlockTest(t) ==
    /\ At(t, "in")
    /\ \/ /\ output_lock_enabled
          /\ GoTo(t, "portunlock")
          /\ UNCHANGED locked_before_enable
       \/ /\ ~output_lock_enabled
          /\ locked_before_enable' = FALSE
          /\ GoTo(t, "out")
    /\ UNCHANGED <<port, output_lock_enabled, locked_before_disable>>

\* elog_port_output_unlock(), before the flag is cleared.
PortUnlock(t) ==
    /\ At(t, "portunlock")
    /\ port' = NoThread
    /\ GoTo(t, "clrflag")
    /\ UNCHANGED <<output_lock_enabled, locked_before_enable, locked_before_disable>>

ClrFlag(t) ==
    /\ At(t, "clrflag")
    /\ locked_before_disable' = FALSE
    /\ GoTo(t, "out")
    /\ UNCHANGED <<port, output_lock_enabled, locked_before_enable>>

\* The steps of a thread inside the two lock functions, once entered.
LockStep(t) == PortLock(t) \/ SetFlag(t) \/ PortUnlock(t) \/ ClrFlag(t)

-----------------------------------------------------------------------------

\* Threads lock and unlock; the lock stays enabled.
LockNext == \E t \in Threads : LockTest(t) \/ UnlockTest(t) \/ LockStep(t)

LockSpec == LockInit /\ [][LockNext]_lockVars
-----------------------------------------------------------------------------

LockTypeOK ==
    /\ port \in Threads \cup {NoThread}
    /\ output_lock_enabled \in BOOLEAN
    /\ locked_before_enable \in BOOLEAN
    /\ locked_before_disable \in BOOLEAN
    /\ lpc \in [Threads -> LockPoints]

\* While the lock is left enabled, the port's owner is exactly the thread
\* between elog_port_output_lock and elog_port_output_unlock.
OwnerExact == \A t \in Threads : port = t <=> lpc[t] \in HeldPoints

\* The lock stays enabled and the owner is exact: the inductive invariant that
\* mutual exclusion rests on.
LockIInv == LockTypeOK /\ output_lock_enabled /\ OwnerExact

\* Two threads never format into the shared line buffer at once.
MutualExclusion ==
    \A s, t \in Threads : At(s, "in") /\ At(t, "in") => s = t
=============================================================================
