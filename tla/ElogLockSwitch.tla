--------------------------- MODULE ElogLockSwitch ---------------------------
(***************************************************************************)
(* elog_output_lock_enabled (elog.c): the switch that turns the output     *)
(* lock off, so that a system exception can log, and on again.  On         *)
(* enabling, two flags written by elog_output_lock and elog_output_unlock  *)
(* decide whether the port lock has to be taken or released to match what  *)
(* was done while it was off.                                              *)
(*                                                                         *)
(* The function checks nothing: any context may call it with either value, *)
(* outside the logger or inside a log call of its own, whatever the others *)
(* are in the middle of, and an exception is one more context.  What a     *)
(* property has to assume about the call is kept in history variables.     *)
(***************************************************************************)
EXTENDS ElogLock

VARIABLES
    spc,      \* where each context is in elog_output_lock_enabled
    alone,    \* history: the context that turned the lock off, as long as no
              \* other one has run since, or NoThread
    clean,    \* history: what the lock and its flags said was true then
    crossed   \* history: alone has locked or unlocked since

switchVars == <<spc, alone, clean, crossed>>
allVars == <<lockVars, switchVars>>

\* Points of elog_output_lock_enabled: the test of the switch, the two flags
\* that are tested before the lock is taken, the same two before it is
\* released, and the two calls of the port.
SwitchPoints == {"none", "test", "relock_disable", "relock_enable",
                 "reunlock_disable", "reunlock_enable", "relock", "reunlock"}
PortCalls == {"relock", "reunlock"}

-----------------------------------------------------------------------------

SwitchInit ==
    /\ LockInit
    /\ spc = [t \in Threads |-> "none"]
    /\ alone = NoThread
    /\ clean = TRUE /\ crossed = FALSE

\* t is inside the critical section exactly if it holds the port lock.
PortMatches(t) == At(t, "in") <=> port = t

\* The port lock and both flags tell whether t is inside.
FlagsTrue(t) ==
    /\ PortMatches(t)
    /\ ~locked_before_enable
    /\ locked_before_disable <=> At(t, "in")

\* t, alone since it turned the lock off, is turning it on again.
Enabling(t) == alone = t /\ output_lock_enabled /\ spc[t] # "none"

\* A step of t leaves alone as it is, unless it ends the enabling call or t is
\* another context than alone.  That one may log, and do nothing else, while
\* alone is at its call of the port.
StillAlone(t, logs) ==
    alone' = IF \/ alone = t /\ ~(Enabling(t) /\ spc'[t] = "none")
                \/ alone # NoThread /\ logs /\ spc[alone] \in PortCalls
             THEN alone ELSE NoThread

\* The lock and unlock steps of ElogLock.
LockUse(t) ==
    /\ spc[t] = "none"
    /\ LockTest(t) \/ UnlockTest(t) \/ LockStep(t)
    /\ UNCHANGED <<spc, clean>>
    /\ StillAlone(t, TRUE)
    /\ crossed' = (crossed \/ alone = t)

\* elog_output_lock_enabled(enabled), outside or inside a log call of t.
Switch(t, enabled) ==
    /\ spc[t] = "none" /\ lpc[t] \in {"out", "in"}
    /\ output_lock_enabled' = enabled
    /\ spc' = [spc EXCEPT ![t] = "test"]
    /\ \/ /\ enabled
          /\ alone' = IF alone = t THEN t ELSE NoThread
          /\ UNCHANGED <<clean, crossed>>
       \/ /\ ~enabled
          /\ alone' = t
          /\ clean' = (FlagsTrue(t) /\ OwnerExact)
          /\ crossed' = FALSE
    /\ UNCHANGED <<port, locked_before_enable, locked_before_disable, lpc>>

\* One test of the call: what it reads, and where it goes on.
Tested(t, point, value, yes, no) ==
    /\ spc[t] = point
    /\ spc' = [spc EXCEPT ![t] = IF value THEN yes ELSE no]

\* The two flags are swapped in the first test of the enabling call.
FlagTest_Swapped(t) ==
    /\ \/ Tested(t, "test", output_lock_enabled, "relock_disable", "none")
       \/ Tested(t, "relock_disable", locked_before_enable, "reunlock_disable", "relock_enable")
       \/ Tested(t, "relock_enable", locked_before_disable, "relock", "reunlock_disable")
       \/ Tested(t, "reunlock_disable", locked_before_disable, "reunlock_enable", "none")
       \/ Tested(t, "reunlock_enable", locked_before_enable, "none", "reunlock")
    /\ StillAlone(t, FALSE)
    /\ UNCHANGED <<lockVars, clean, crossed>>

\* The tests of the call: of the switch itself, and of the two flags.
FlagTest(t) ==
    /\ \/ Tested(t, "test", output_lock_enabled, "relock_disable", "none")
       \/ Tested(t, "relock_disable", locked_before_disable, "reunlock_disable", "relock_enable")
       \/ Tested(t, "relock_enable", locked_before_enable, "relock", "reunlock_disable")
       \/ Tested(t, "reunlock_disable", locked_before_disable, "reunlock_enable", "none")
       \/ Tested(t, "reunlock_enable", locked_before_enable, "none", "reunlock")
    /\ StillAlone(t, FALSE)
    /\ UNCHANGED <<lockVars, clean, crossed>>

\* elog_port_output_lock() on enabling: waits for the mutex.
Relock(t) ==
    /\ spc[t] = "relock"
    /\ port = NoThread
    /\ port' = t
    /\ spc' = [spc EXCEPT ![t] = "none"]
    /\ StillAlone(t, FALSE)
    /\ UNCHANGED <<output_lock_enabled, locked_before_enable,
                   locked_before_disable, lpc, clean, crossed>>

\* elog_port_output_unlock() on enabling, whoever holds the mutex.
Reunlock(t) ==
    /\ spc[t] = "reunlock"
    /\ port' = NoThread
    /\ spc' = [spc EXCEPT ![t] = "none"]
    /\ StillAlone(t, FALSE)
    /\ UNCHANGED <<output_lock_enabled, locked_before_enable,
                   locked_before_disable, lpc, clean, crossed>>

SwitchNext ==
    \E t \in Threads :
        \/ LockUse(t) \/ FlagTest(t) \/ Relock(t) \/ Reunlock(t)
        \/ \E enabled \in BOOLEAN : Switch(t, enabled)

SwitchSpec == SwitchInit /\ [][SwitchNext]_allVars

-----------------------------------------------------------------------------

\* The switch keeps the port lock in step, wherever in the logger the other
\* contexts were interrupted.  If the flags told the truth when t turned the
\* lock off, t locked or unlocked at least once while it was off, and nobody
\* else ran until t had tested the flags, then enabling never takes a lock
\* that t holds, which would wait for ever, and leaves the port lock with
\* exactly the context that is inside (elog.c:765-777).
CleanSwitchSyncs ==
    [][\A t \in Threads : Enabling(t) /\ clean /\ crossed =>
           /\ spc[t] = "relock" => port # t
           /\ spc'[t] = "none" => OwnerExact']_allVars

\* elog.c:767 "it will re-lock or re-unlock before output lock enable": after
\* the enabling call the port lock is held exactly if the context is inside.
EnableSyncs ==
    [][\A t \in Threads : Enabling(t) /\ spc'[t] = "none" => PortMatches(t)']_allVars
=============================================================================
