------------------------ MODULE ElogLockSwitchProofs ------------------------
(***************************************************************************)
(* For any set of contexts, switching the output lock off and on again     *)
(* leaves the port lock with exactly the context that is inside, wherever  *)
(* the others were interrupted, when the two flags told the truth at first *)
(* and were used in between.                                               *)
(*                                                                         *)
(* The property looks at the enabling call only.  The invariant follows    *)
(* the flags through everything that can happen before: as long as nobody  *)
(* else runs, locked_before_disable still says whether the port is held,   *)
(* and locked_before_enable says where the context is once it has locked   *)
(* or unlocked; each test of the call adds what it read.  While the call   *)
(* waits for the port the others take and release it as they always do.    *)
(***************************************************************************)
EXTENDS ElogLockSwitch, TLAPS

SwitchTypeOK ==
    /\ port \in Threads \cup {NoThread}
    /\ output_lock_enabled \in BOOLEAN
    /\ locked_before_enable \in BOOLEAN /\ locked_before_disable \in BOOLEAN
    /\ lpc \in [Threads -> LockPoints]
    /\ spc \in [Threads -> SwitchPoints]
    /\ alone \in Threads \cup {NoThread}
    /\ clean \in BOOLEAN /\ crossed \in BOOLEAN

\* While t is alone it is outside or inside, and the lock is off but for the
\* tests and the call of the port of the enabling call.
AloneAt(t) ==
    /\ lpc[t] \in {"out", "in"}
    /\ output_lock_enabled => spc[t] # "none"
    /\ ~output_lock_enabled => spc[t] \in {"none", "test"}

\* The port is held by the context that is inside, t left out of it.
OthersExact(t) == \A s \in Threads \ {t} : port = s <=> lpc[s] \in HeldPoints

\* What the flags say before the call of the port, and what the tests read.
FlagsOK(t) ==
    /\ spc[t] \notin PortCalls =>
          /\ locked_before_disable <=> port = t
          /\ crossed => (locked_before_enable <=> At(t, "in"))
    /\ spc[t] = "relock_enable" => ~locked_before_disable
    /\ spc[t] = "reunlock_disable" => locked_before_disable \/ ~locked_before_enable
    /\ spc[t] = "reunlock_enable" => locked_before_disable
    /\ crossed =>
          /\ spc[t] = "relock" => At(t, "in") /\ port # t
          /\ spc[t] = "reunlock" => At(t, "out") /\ port = t

\* What holds of the context that turned the lock off, as long as it is alone.
Window(t) == AloneAt(t) /\ (clean => OthersExact(t) /\ FlagsOK(t))

SwitchIInv == SwitchTypeOK /\ \A t \in Threads : alone = t => Window(t)

-----------------------------------------------------------------------------

LEMMA SwitchInitIInv == SwitchInit => SwitchIInv
BY LockAssumption
   DEF SwitchInit, LockInit, SwitchIInv, SwitchTypeOK, LockPoints, SwitchPoints

\* The lock and unlock functions keep the types, and move only their caller.
LEMMA LockUseMoves ==
  ASSUME SwitchTypeOK, NEW t \in Threads, LockUse(t)
  PROVE  /\ SwitchTypeOK'
         /\ \A s \in Threads \ {t} : lpc'[s] = lpc[s]
         /\ alone' \in {alone, NoThread}
<1> USE LockAssumption DEF SwitchTypeOK, LockPoints, At, GoTo
<1>1. UNCHANGED <<spc, clean>> /\ alone' \in {alone, NoThread} /\ crossed' \in BOOLEAN
  BY DEF LockUse, StillAlone
<1>2. ASSUME LockTest(t) \/ UnlockTest(t)
      PROVE  SwitchTypeOK' /\ \A s \in Threads \ {t} : lpc'[s] = lpc[s]
  BY <1>1, <1>2 DEF LockTest, UnlockTest
<1>3. ASSUME LockStep(t)
      PROVE  SwitchTypeOK' /\ \A s \in Threads \ {t} : lpc'[s] = lpc[s]
  BY <1>1, <1>3 DEF LockStep, PortLock, SetFlag, PortUnlock, ClrFlag
<1> QED
  BY <1>1, <1>2, <1>3 DEF LockUse

\* The calls that only the switching context makes keep the types.
LEMMA SwitchMoves ==
  ASSUME SwitchTypeOK, NEW t \in Threads,
         \/ \E enabled \in BOOLEAN : Switch(t, enabled)
         \/ FlagTest(t) \/ Relock(t) \/ Reunlock(t)
  PROVE  SwitchTypeOK' /\ alone' \in {alone, t, NoThread} /\ UNCHANGED lpc
<1> USE LockAssumption DEF SwitchTypeOK, SwitchPoints
<1>1. ASSUME NEW enabled \in BOOLEAN, Switch(t, enabled)
      PROVE  SwitchTypeOK' /\ alone' \in {alone, t, NoThread} /\ UNCHANGED lpc
  <2>1. FlagsTrue(t) \in BOOLEAN /\ OwnerExact \in BOOLEAN
    BY DEF FlagsTrue, OwnerExact
  <2> QED
    BY <1>1, <2>1 DEF Switch
<1>2. ASSUME FlagTest(t)
      PROVE  SwitchTypeOK' /\ alone' \in {alone, t, NoThread} /\ UNCHANGED lpc
  BY <1>2 DEF FlagTest, Tested, StillAlone, lockVars
<1>3. ASSUME Relock(t) \/ Reunlock(t)
      PROVE  SwitchTypeOK' /\ alone' \in {alone, t, NoThread} /\ UNCHANGED lpc
  BY <1>3 DEF Relock, Reunlock, StillAlone
<1> QED
  BY <1>1, <1>2, <1>3

-----------------------------------------------------------------------------

\* The context that is alone locks or unlocks: it goes in or out by the flag.
LEMMA CrossesAlone ==
  ASSUME SwitchIInv, NEW t \in Threads, alone = t, LockUse(t)
  PROVE  Window(t)'
<1> USE LockAssumption DEF SwitchTypeOK, At, GoTo
<1>1. /\ SwitchTypeOK /\ AloneAt(t) /\ (clean => OthersExact(t) /\ FlagsOK(t))
  BY DEF SwitchIInv, Window
<1>2. spc[t] = "none" /\ ~output_lock_enabled /\ lpc[t] \in {"out", "in"}
  BY <1>1 DEF LockUse, AloneAt
<1>3. LockTest(t) \/ UnlockTest(t)
  BY <1>2 DEF LockUse, LockStep, PortLock, SetFlag, PortUnlock, ClrFlag
<1>4. /\ UNCHANGED <<spc, clean, port, output_lock_enabled, locked_before_disable>>
      /\ lpc'[t] \in {"out", "in"} /\ (locked_before_enable' <=> lpc'[t] = "in")
      /\ \A s \in Threads \ {t} : lpc'[s] = lpc[s]
  BY <1>1, <1>2, <1>3 DEF LockUse, LockTest, UnlockTest
<1>5. AloneAt(t)'
  BY <1>2, <1>4 DEF AloneAt
<1>6. clean => OthersExact(t)'
  BY <1>1, <1>4 DEF OthersExact
<1>7. clean => FlagsOK(t)'
  BY <1>1, <1>2, <1>4 DEF FlagsOK, PortCalls
<1> QED
  BY <1>4, <1>5, <1>6, <1>7 DEF Window

\* Another context logs while the enabling call is at the port.
LEMMA OthersLog ==
  ASSUME SwitchIInv, NEW t \in Threads, NEW s \in Threads \ {t},
         alone = t, alone' = t, LockUse(s)
  PROVE  Window(t)'
<1> USE LockAssumption DEF SwitchTypeOK, At, GoTo
<1>1. /\ SwitchTypeOK /\ AloneAt(t) /\ (clean => OthersExact(t) /\ FlagsOK(t))
  BY DEF SwitchIInv, Window
<1>2. spc[t] \in PortCalls /\ output_lock_enabled
  BY <1>1 DEF LockUse, StillAlone, AloneAt, PortCalls
<1>3. /\ UNCHANGED <<spc, clean, output_lock_enabled>> /\ crossed' = crossed
      /\ \A r \in Threads \ {s} : lpc'[r] = lpc[r]
  <2>1. \A r \in Threads \ {s} : lpc'[r] = lpc[r]
    BY <1>1, LockUseMoves
  <2> QED
    BY <1>1, <1>2, <2>1
       DEF LockUse, LockTest, UnlockTest, LockStep, PortLock, SetFlag, PortUnlock, ClrFlag
<1>4. lpc'[t] = lpc[t] /\ AloneAt(t)'
  BY <1>1, <1>3 DEF AloneAt
<1>5. CASE LockTest(s) \/ UnlockTest(s)
  <2>1. port' = port /\ (lpc'[s] \in HeldPoints <=> lpc[s] \in HeldPoints)
    BY <1>1, <1>2, <1>5 DEF LockTest, UnlockTest, HeldPoints
  <2>2. clean => OthersExact(t)' /\ FlagsOK(t)'
    BY <1>1, <1>2, <1>3, <1>4, <2>1 DEF OthersExact, FlagsOK, PortCalls
  <2> QED
    BY <1>3, <1>4, <2>2 DEF Window
<1>6. CASE PortLock(s)
  <2>1. port = NoThread /\ port' = s /\ lpc'[s] \in HeldPoints
    BY <1>1, <1>6 DEF PortLock, HeldPoints
  <2>2. clean => OthersExact(t)' /\ FlagsOK(t)'
    BY <1>1, <1>2, <1>3, <1>4, <2>1 DEF OthersExact, FlagsOK, PortCalls
  <2> QED
    BY <1>3, <1>4, <2>2 DEF Window
<1>7. CASE PortUnlock(s)
  <2>1. /\ lpc[s] \in HeldPoints /\ port' = NoThread /\ lpc'[s] \notin HeldPoints
    BY <1>1, <1>7 DEF PortUnlock, HeldPoints
  <2>2. clean => OthersExact(t)' /\ FlagsOK(t)'
    BY <1>1, <1>2, <1>3, <1>4, <2>1 DEF OthersExact, FlagsOK, PortCalls
  <2> QED
    BY <1>3, <1>4, <2>2 DEF Window
<1>8. CASE SetFlag(s) \/ ClrFlag(s)
  <2>1. port' = port /\ (lpc'[s] \in HeldPoints <=> lpc[s] \in HeldPoints)
    BY <1>1, <1>8 DEF SetFlag, ClrFlag, HeldPoints
  <2>2. clean => OthersExact(t)' /\ FlagsOK(t)'
    BY <1>1, <1>2, <1>3, <1>4, <2>1 DEF OthersExact, FlagsOK, PortCalls
  <2> QED
    BY <1>3, <1>4, <2>2 DEF Window
<1> QED
  BY <1>5, <1>6, <1>7, <1>8 DEF LockUse, LockStep

\* Turning the lock off opens the window, whoever else is where.
LEMMA SwitchOpens ==
  ASSUME SwitchTypeOK, NEW t \in Threads, Switch(t, FALSE)
  PROVE  Window(t)'
<1>1. /\ output_lock_enabled' = FALSE /\ crossed' = FALSE /\ spc'[t] = "test"
      /\ lpc[t] \in {"out", "in"}
      /\ clean' => FlagsTrue(t) /\ OwnerExact
      /\ UNCHANGED <<port, locked_before_enable, locked_before_disable, lpc>>
  BY DEF Switch, SwitchTypeOK
<1>2. AloneAt(t)'
  BY <1>1 DEF AloneAt
<1>3. clean' => OthersExact(t)'
  BY <1>1 DEF OthersExact, OwnerExact
<1>4. clean' => FlagsOK(t)'
  BY <1>1 DEF FlagsOK, FlagsTrue, PortMatches, At
<1> QED
  BY <1>2, <1>3, <1>4 DEF Window

\* Turning it on goes to the tests with what the flags say.
LEMMA SwitchGoesOn ==
  ASSUME SwitchIInv, NEW t \in Threads, alone = t, Switch(t, TRUE)
  PROVE  Window(t)'
<1>1. /\ SwitchTypeOK /\ AloneAt(t) /\ (clean => OthersExact(t) /\ FlagsOK(t))
  BY DEF SwitchIInv, Window
<1>2. /\ output_lock_enabled' = TRUE /\ spc[t] = "none" /\ spc'[t] = "test"
      /\ UNCHANGED <<port, locked_before_enable, locked_before_disable, lpc, clean, crossed>>
  BY <1>1 DEF Switch, SwitchTypeOK
<1>3. AloneAt(t)'
  BY <1>1, <1>2 DEF AloneAt
<1>4. clean => OthersExact(t)' /\ FlagsOK(t)'
  BY <1>1, <1>2 DEF OthersExact, FlagsOK, PortCalls, At
<1> QED
  BY <1>2, <1>3, <1>4 DEF Window

\* Each test adds what it read.
LEMMA TestsAdd ==
  ASSUME SwitchIInv, NEW t \in Threads, alone = t, alone' = t, FlagTest(t)
  PROVE  Window(t)'
<1>1. /\ SwitchTypeOK /\ AloneAt(t) /\ (clean => OthersExact(t) /\ FlagsOK(t))
  BY DEF SwitchIInv, Window
<1>2. /\ UNCHANGED <<port, output_lock_enabled, locked_before_enable, locked_before_disable>>
      /\ UNCHANGED <<lpc, clean, crossed>>
  BY DEF FlagTest, lockVars
<1>3. output_lock_enabled => spc[t] # "none" /\ spc'[t] # "none"
  BY <1>1, LockAssumption DEF AloneAt, FlagTest, StillAlone, Enabling
<1>4. ~output_lock_enabled => spc[t] = "test" /\ spc'[t] = "none"
  BY <1>1 DEF AloneAt, FlagTest, Tested, SwitchTypeOK
<1>5. AloneAt(t)'
  BY <1>1, <1>2, <1>3, <1>4 DEF AloneAt
<1>6. clean => OthersExact(t)'
  BY <1>1, <1>2 DEF OthersExact
<1>7. clean => FlagsOK(t)'
  BY <1>1, <1>2, <1>3, <1>4 DEF FlagsOK, FlagTest, Tested, PortCalls, At, AloneAt, SwitchTypeOK
<1> QED
  BY <1>2, <1>5, <1>6, <1>7 DEF Window

-----------------------------------------------------------------------------

LEMMA SwitchStepIInv == SwitchIInv /\ [SwitchNext]_allVars => SwitchIInv'
<1> SUFFICES ASSUME SwitchIInv, [SwitchNext]_allVars PROVE SwitchIInv'
  OBVIOUS
<1>1. SwitchTypeOK
  BY DEF SwitchIInv
<1>2. ASSUME NEW s \in Threads, LockUse(s) PROVE SwitchIInv'
  <2>1. SwitchTypeOK' /\ alone' \in {alone, NoThread}
    BY <1>1, <1>2, LockUseMoves
  <2>2. ASSUME NEW t \in Threads, alone' = t PROVE Window(t)'
    <3>1. alone = t
      BY <2>1, <2>2, LockAssumption
    <3>2. CASE s = t
      BY <1>2, <3>1, <3>2, CrossesAlone
    <3>3. CASE s # t
      BY <1>2, <2>2, <3>1, <3>3, OthersLog
    <3> QED
      BY <3>2, <3>3
  <2> QED
    BY <2>1, <2>2 DEF SwitchIInv
<1>3. ASSUME NEW s \in Threads, NEW enabled \in BOOLEAN, Switch(s, enabled)
      PROVE  SwitchIInv'
  <2>1. SwitchTypeOK'
    BY <1>1, <1>3, SwitchMoves
  <2>2. ASSUME NEW t \in Threads, alone' = t PROVE Window(t)'
    <3>1. t = s /\ (enabled => alone = t)
      BY <1>3, <2>2, LockAssumption DEF Switch
    <3>2. CASE enabled = TRUE
      BY <1>3, <3>1, <3>2, SwitchGoesOn
    <3>3. CASE enabled = FALSE
      BY <1>1, <1>3, <3>1, <3>3, SwitchOpens
    <3> QED
      BY <3>2, <3>3
  <2> QED
    BY <2>1, <2>2 DEF SwitchIInv
<1>4. ASSUME NEW s \in Threads, FlagTest(s) PROVE SwitchIInv'
  <2>1. SwitchTypeOK'
    BY <1>1, <1>4, SwitchMoves
  <2>2. ASSUME NEW t \in Threads, alone' = t PROVE Window(t)'
    <3>1. alone = t /\ s = t
      BY <1>4, <2>2, LockAssumption DEF FlagTest, StillAlone
    <3> QED
      BY <1>4, <2>2, <3>1, TestsAdd
  <2> QED
    BY <2>1, <2>2 DEF SwitchIInv
<1>5. ASSUME NEW s \in Threads, Relock(s) \/ Reunlock(s) PROVE SwitchIInv'
  <2>1. SwitchTypeOK'
    BY <1>1, <1>5, SwitchMoves
  <2>2. spc[s] \in {"relock", "reunlock"} /\ spc'[s] = "none"
    BY <1>1, <1>5 DEF Relock, Reunlock, SwitchTypeOK
  <2>3. alone = s => output_lock_enabled
    BY <2>2 DEF SwitchIInv, Window, AloneAt
  <2>4. alone' = NoThread
    BY <1>5, <2>2, <2>3 DEF Relock, Reunlock, StillAlone, Enabling
  <2> QED
    BY <2>1, <2>4, LockAssumption DEF SwitchIInv
<1>6. CASE UNCHANGED allVars
  BY <1>6 DEF allVars, lockVars, switchVars, SwitchIInv, SwitchTypeOK, Window, AloneAt,
              OthersExact, FlagsOK, At
<1> QED
  BY <1>2, <1>3, <1>4, <1>5, <1>6 DEF SwitchNext

\* The invariant holds in every reachable state.
THEOREM SwitchInvariance == SwitchSpec => []SwitchIInv
BY SwitchInitIInv, SwitchStepIInv, PTL DEF SwitchSpec

\* Enabling after a clean, crossed window never takes a lock its caller holds,
\* and leaves the port lock with exactly the context that is inside, for any
\* number of contexts interrupted anywhere (elog.c:765-777).
THEOREM CleanSwitchInStep == SwitchSpec => CleanSwitchSyncs
<1>1. SwitchIInv /\ [SwitchNext]_allVars =>
         [\A t \in Threads : Enabling(t) /\ clean /\ crossed =>
             /\ spc[t] = "relock" => port # t
             /\ spc'[t] = "none" => OwnerExact']_allVars
  <2> SUFFICES ASSUME SwitchIInv, SwitchNext, NEW t \in Threads,
                      Enabling(t), clean, crossed
               PROVE  /\ spc[t] = "relock" => port # t
                      /\ spc'[t] = "none" => OwnerExact'
    OBVIOUS
  <2>1. SwitchTypeOK /\ AloneAt(t) /\ OthersExact(t) /\ FlagsOK(t) /\ output_lock_enabled
    BY DEF SwitchIInv, Window, Enabling
  <2>2. spc[t] = "relock" => port # t
    BY <2>1 DEF FlagsOK
  <2>3. ASSUME spc'[t] = "none" PROVE OwnerExact'
    <3>1. spc[t] # "none"
      BY DEF Enabling
    <3>2. FlagTest(t) \/ Relock(t) \/ Reunlock(t)
      <4>1. PICK s \in Threads : \/ LockUse(s) \/ FlagTest(s) \/ Relock(s) \/ Reunlock(s)
                                \/ \E enabled \in BOOLEAN : Switch(s, enabled)
        BY DEF SwitchNext
      <4>2. CASE LockUse(s)
        BY <2>3, <3>1, <4>2 DEF LockUse
      <4>3. CASE \E enabled \in BOOLEAN : Switch(s, enabled)
        BY <2>1, <2>3, <3>1, <4>3 DEF Switch, SwitchTypeOK
      <4>4. CASE FlagTest(s) \/ Relock(s) \/ Reunlock(s)
        BY <2>1, <2>3, <3>1, <4>4 DEF FlagTest, Tested, Relock, Reunlock, SwitchTypeOK
      <4> QED
        BY <4>1, <4>2, <4>3, <4>4
    <3>3. lpc' = lpc /\ lpc[t] \in {"out", "in"}
      BY <2>1, <3>2, SwitchMoves DEF AloneAt
    <3>4. (port' = t <=> lpc[t] = "in") /\ OthersExact(t)'
      <4>1. CASE FlagTest(t)
        <5>1. port' = port /\ spc[t] \notin PortCalls /\ (port = t <=> lpc[t] = "in")
          BY <2>1, <2>3, <4>1 DEF FlagTest, Tested, FlagsOK, PortCalls, At, SwitchTypeOK, lockVars
        <5> QED
          BY <2>1, <3>3, <5>1 DEF OthersExact
      <4>2. CASE Relock(t)
        BY <2>1, <3>3, <4>2, LockAssumption DEF Relock, FlagsOK, OthersExact, At
      <4>3. CASE Reunlock(t)
        BY <2>1, <3>3, <4>3, LockAssumption DEF Reunlock, FlagsOK, OthersExact, At
      <4> QED
        BY <3>2, <4>1, <4>2, <4>3
    <3> QED
      BY <3>3, <3>4 DEF OwnerExact, OthersExact, HeldPoints
  <2> QED
    BY <2>2, <2>3
<1> QED
  BY <1>1, SwitchInvariance, PTL DEF SwitchSpec, CleanSwitchSyncs
=============================================================================
