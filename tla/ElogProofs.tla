----------------------------- MODULE ElogProofs -----------------------------
(***************************************************************************)
(* Proofs about the output lock and the output path, for any set of        *)
(* threads, any buffer and line sizes, and any number of calls.            *)
(***************************************************************************)
EXTENDS Elog, SequenceTheorems, TLAPS

(***************************************************************************)
(* The lock.  Mutual exclusion is not inductive: nothing in it says that a *)
(* thread in the critical section owns the port.  OwnerExact does, and is  *)
(* inductive once the lock is known to be enabled: a thread that finds it  *)
(* disabled would enter without the port.                                  *)
(***************************************************************************)

\* The lock starts free, with every thread outside.
LEMMA LockInitIInv == LockInit => LockIInv
BY LockAssumption
   DEF LockInit, LockIInv, LockTypeOK, OwnerExact, LockPoints, HeldPoints

\* Every step of every thread preserves the invariant.
LEMMA LockStepIInv == LockIInv /\ [LockNext]_lockVars => LockIInv'
<1> SUFFICES ASSUME LockIInv, [LockNext]_lockVars
             PROVE  LockIInv'
  OBVIOUS
<1> USE LockAssumption DEF LockIInv, LockTypeOK, OwnerExact, LockPoints,
                           HeldPoints, At, GoTo
<1>1. ASSUME NEW t \in Threads, LockTest(t)
      PROVE  LockIInv'
  BY <1>1 DEF LockTest
<1>2. ASSUME NEW t \in Threads, PortLock(t)
      PROVE  LockIInv'
  BY <1>2 DEF PortLock
<1>3. ASSUME NEW t \in Threads, SetFlag(t)
      PROVE  LockIInv'
  BY <1>3 DEF SetFlag
<1>4. ASSUME NEW t \in Threads, UnlockTest(t)
      PROVE  LockIInv'
  BY <1>4 DEF UnlockTest
<1>5. ASSUME NEW t \in Threads, PortUnlock(t)
      PROVE  LockIInv'
  BY <1>5 DEF PortUnlock
<1>6. ASSUME NEW t \in Threads, ClrFlag(t)
      PROVE  LockIInv'
  BY <1>6 DEF ClrFlag
<1>7. CASE UNCHANGED lockVars
  BY <1>7 DEF lockVars
<1> QED
  BY <1>1, <1>2, <1>3, <1>4, <1>5, <1>6, <1>7 DEF LockNext, LockStep

\* The invariant holds in every reachable state.
THEOREM LockInvariance == LockSpec => []LockIInv
BY LockInitIInv, LockStepIInv, PTL DEF LockSpec

\* Type correctness of the lock's state.
THEOREM LockTypeCorrect == LockSpec => []LockTypeOK
<1>1. LockIInv => LockTypeOK
  BY DEF LockIInv
<1> QED
  BY <1>1, LockInvariance, PTL

\* The port's owner is always the one thread between its lock and unlock.
THEOREM PortOwnerExact == LockSpec => []OwnerExact
<1>1. LockIInv => OwnerExact
  BY DEF LockIInv
<1> QED
  BY <1>1, LockInvariance, PTL

\* Two threads are never inside the critical section together: the shared
\* line buffer of elog.c has one writer at a time.
THEOREM LockExcludes == LockSpec => []MutualExclusion
<1>1. LockIInv => MutualExclusion
  BY DEF LockIInv, OwnerExact, MutualExclusion, HeldPoints, At
<1> QED
  BY <1>1, LockInvariance, PTL

-----------------------------------------------------------------------------

\* The cells a line can consist of.
Cells == UNION {CellsIn(l) : l \in Lines}

\* A thread in a call has counted it: the lines it formats are lines of the
\* calls that the bound admits.
CallsCounted == \A t \in Threads : pc[t] # "idle" => calls[t] >= 1

\* A thread at a point inside the lock has it.
Coupled == \A t \in Threads : pc[t] \in InsidePoints => At(t, "in")

\* How much of the line a thread has copied while it does so.
IndexOK ==
    \A t \in Threads :
        /\ pc[t] = "put" => write_index[t] = 0
        /\ pc[t] \in {"copy", "reset"} => write_index[t] <= Len(line)

\* What holds however elog_start and elog_stop switch the output.
ElogIInv ==
    /\ ElogTypeOK
    /\ LockIInv
    /\ CallsCounted
    /\ Coupled
    /\ IndexOK

\* The buffer is used in buffered mode only: true as long as nothing switches.
BufferedOK ==
    /\ \A t \in Threads : pc[t] \in {"copy", "reset"} => is_enabled
    /\ ~is_enabled => buf = <<>>

\* A line of the model is a sequence of cells.
LEMMA LineIsSeq == \A l \in Lines \cup {<<>>} : l \in Seq(Cells)
<1>1. <<>> \in Seq(Cells)
  BY EmptySeq
<1>2. ASSUME NEW l \in Lines
      PROVE  l \in Seq(Cells)
  <2>1. PICK t \in Threads, c \in 1 .. MaxCalls, r \in 1 .. MaxRows, n \in LineLens :
             l = LineOf(t, c, r, n)
    BY <1>2 DEF Lines
  <2>2. n \in Nat
    BY ElogAssumption
  <2>3. l = [i \in 1 .. n |-> Cell(t, c, r, n, i)]
    BY <2>1 DEF LineOf
  <2>4. l \in Seq({Cell(t, c, r, n, i) : i \in 1 .. n})
    BY <2>2, <2>3
  <2>5. Len(l) = n
    BY <2>2, <2>3
  <2>6. \A i \in 1 .. n : l[i] \in Cells
    BY <2>5 DEF Cells, CellsIn
  <2> QED
    BY <2>2, <2>3, <2>6
<1> QED
  BY <1>1, <1>2

\* The cells of a sequence are among those it is built from.
LEMMA CellsInSeq == \A s \in Seq(Cells) : CellsIn(s) \subseteq Cells
BY ElementOfSeq DEF CellsIn

\* What is left of the line after any number of cells is a sequence of cells.
LEMMA RestIsSeq ==
  ASSUME NEW l \in Seq(Cells), NEW k \in Nat
  PROVE  /\ SubSeq(l, k + 1, Len(l)) \in Seq(Cells)
         /\ Len(SubSeq(l, k + 1, Len(l))) = IF k < Len(l) THEN Len(l) - k ELSE 0
<1>1. Len(l) \in Nat
  BY LenProperties
<1>2. \A i \in k + 1 .. Len(l) : l[i] \in Cells
  BY <1>1, ElementOfSeq
<1> QED
  BY <1>1, <1>2, SubSeqProperties

\* What fits into the buffer of a line that is longer than the room left there
\* (elog_buf.c:62-69): as many cells as there is room, short of the line's end.
LEMMA ChunkFits ==
  ASSUME NEW l \in Seq(Cells), NEW k \in Nat, NEW size \in Nat,
         Len(SubSeq(l, k + 1, Len(l))) > size
  PROVE  /\ k + size < Len(l)
         /\ SubSeq(l, k + 1, k + size) \in Seq(Cells)
         /\ Len(SubSeq(l, k + 1, k + size)) = size
<1>1. Len(l) \in Nat
  BY LenProperties
<1>2. k + size < Len(l)
  BY <1>1, RestIsSeq
<1>3. \A i \in k + 1 .. k + size : l[i] \in Cells
  BY <1>1, <1>2, ElementOfSeq
<1> QED
  BY <1>2, <1>3, SubSeqProperties

-----------------------------------------------------------------------------
(* The invariant. *)

\* The invariant holds after elog_init, with output on or off.
LEMMA ElogInitIInv ==
  ASSUME NEW output \in BOOLEAN, NEW buffered \in BOOLEAN, ElogInit(output, buffered)
  PROVE  ElogIInv /\ BufferedOK
<1>1. LockIInv
  BY LockInitIInv DEF ElogInit
<1>2. ElogTypeOK
  <2>1. <<>> \in Seq(Cells) /\ Len(<<>>) = 0
    BY EmptySeq
  <2> QED
    BY <1>1, <2>1, ElogAssumption
       DEF ElogInit, ElogTypeOK, LockIInv, Points, Kinds, OutputKinds, Cells
<1> QED
  BY <1>1, <1>2
     DEF ElogIInv, ElogInit, CallsCounted, Coupled, IndexOK, BufferedOK, InsidePoints

\* Every step uses the lock as ElogLock says, or not at all.
LEMMA StepsUseLock == [SwitchNext]_elogVars => [LockNext]_lockVars
BY DEF SwitchNext, SteadyNext, NewCall, RunStep, LockUse, LogCall, FlushCall,
       CheckEnabled, TagLevel, Format, Put, CopyTail, CopyChunk, CopyReset, Leave,
       FlushTest, FlushOutput, FlushReset, SwitchOutput, SwitchBuffered, LockNext,
       elogVars, lockVars

\* One thread at a time is inside.
LEMMA InsideAlone ==
  ASSUME LockIInv, NEW s \in Threads, NEW t \in Threads, At(s, "in"), At(t, "in")
  PROVE  s = t
BY DEF LockIInv, OwnerExact, HeldPoints, At

\* All the state that holds cells consists of sequences of cells.
LEMMA PartsAreSeqs ==
  ElogIInv => /\ line \in Seq(Cells) /\ buf \in Seq(Cells) /\ device \in Seq(Cells)
              /\ Len(line) \in Nat
              /\ \A t \in Threads : write_index[t] \in Nat /\ RestOf(t) \in Seq(Cells)
<1> SUFFICES ASSUME ElogIInv
             PROVE  /\ line \in Seq(Cells) /\ buf \in Seq(Cells) /\ device \in Seq(Cells)
                    /\ Len(line) \in Nat
                    /\ \A t \in Threads :
                          write_index[t] \in Nat /\ RestOf(t) \in Seq(Cells)
  OBVIOUS
<1>1. line \in Seq(Cells) /\ buf \in Seq(Cells) /\ device \in Seq(Cells)
  BY LineIsSeq DEF ElogIInv, ElogTypeOK, Cells
<1>2. Len(line) \in Nat
  BY <1>1, LenProperties
<1>3. \A t \in Threads : write_index[t] \in Nat
  BY DEF ElogIInv, ElogTypeOK
<1> QED
  BY <1>1, <1>2, <1>3, RestIsSeq DEF RestOf

\* What is copied of a line that does not fit is a part of it.
LEMMA ChunkOfLine ==
  ASSUME ElogIInv, NEW t \in Threads, CopyChunk(t)
  PROVE  LET size == BufSize - Len(buf)
             from == write_index[t]
         IN  /\ size \in Nat /\ from \in Nat /\ from + size <= Len(line)
             /\ SubSeq(line, from + 1, from + size) \in Seq(Cells)
             /\ Len(SubSeq(line, from + 1, from + size)) = size
<1> DEFINE size == BufSize - Len(buf)
           from == write_index[t]
<1>1. /\ line \in Seq(Cells) /\ buf \in Seq(Cells) /\ RestOf(t) \in Seq(Cells)
      /\ from \in Nat
  BY PartsAreSeqs
<1>2. size \in Nat
  BY <1>1, LenProperties, ElogAssumption DEF ElogIInv, ElogTypeOK
<1>3. Len(SubSeq(line, from + 1, Len(line))) > size
  <2>1. Len(RestOf(t)) \in Nat /\ Len(buf) \in Nat
    BY <1>1, LenProperties
  <2>2. Len(RestOf(t)) > size
    BY <2>1, ElogAssumption DEF CopyChunk
  <2> QED
    BY <2>2 DEF RestOf
<1>4. /\ from + size < Len(line)
      /\ SubSeq(line, from + 1, from + size) \in Seq(Cells)
      /\ Len(SubSeq(line, from + 1, from + size)) = size
  BY <1>1, <1>2, <1>3, ChunkFits
<1>5. from + size \in Nat /\ Len(line) \in Nat
  BY <1>1, <1>2, LenProperties
<1>6. from + size <= Len(line)
  <2> HIDE DEF from, size
  <2> QED
    BY <1>1, <1>2, <1>4, <1>5
<1> QED
  BY <1>1, <1>2, <1>4, <1>6, Zenon

\* Every step of every thread preserves the invariant.
LEMMA ElogStepIInv == ElogIInv /\ [SwitchNext]_elogVars => ElogIInv'
<1> SUFFICES ASSUME ElogIInv, [SwitchNext]_elogVars
             PROVE  ElogIInv'
  OBVIOUS
<1> USE DEF ElogIInv, CallsCounted, Coupled, IndexOK
<1>0. lpc \in [Threads -> LockPoints]
  BY DEF LockIInv, LockTypeOK
<1>1. LockIInv' /\ LockTypeOK'
  BY StepsUseLock, LockStepIInv DEF LockIInv
<1>2. BufSize \in Nat /\ \A n \in LineLens : n \in Nat
  BY ElogAssumption
<1>3. /\ line \in Seq(Cells) /\ buf \in Seq(Cells) /\ device \in Seq(Cells)
      /\ Len(line) \in Nat /\ Len(buf) \in 0 .. BufSize
  BY PartsAreSeqs, LenProperties, <1>2 DEF ElogTypeOK
<1>4. ASSUME NEW t \in Threads, NEW k \in {"output", "raw", "dump"},
             NEW r \in 0 .. MaxRows, LogCall(t, k, r)
      PROVE  ElogIInv'
  <2>1. /\ calls' \in [Threads -> 0 .. MaxCalls] /\ pc' \in [Threads -> Points]
        /\ kind' \in [Threads -> Kinds] /\ rows' \in [Threads -> 0 .. MaxRows]
    BY <1>4, ElogAssumption
       DEF LogCall, MayCall, Goto, ElogTypeOK, Points, Kinds, OutputKinds
  <2>2. ElogTypeOK'
    BY <1>1, <1>4, <2>1 DEF LogCall, ElogTypeOK
  <2>3. CallsCounted'
    BY <1>4, ElogAssumption DEF LogCall, MayCall, Goto, ElogTypeOK
  <2>4. Coupled' /\ IndexOK'
    BY <1>4 DEF LogCall, Goto, ElogTypeOK, InsidePoints, lockVars, At
  <2> QED
    BY <1>1, <2>2, <2>3, <2>4
<1>5. ASSUME NEW t \in Threads, FlushCall(t)
      PROVE  ElogIInv'
  <2>1. CellsIn(buf) \subseteq Cells
    BY <1>3, CellsInSeq
  <2>2. /\ calls' \in [Threads -> 0 .. MaxCalls] /\ pc' \in [Threads -> Points]
        /\ goal' \in [Threads -> SUBSET Cells]
    BY <1>5, <2>1, ElogAssumption DEF FlushCall, MayCall, Goto, ElogTypeOK, Points, Cells
  <2>3. ElogTypeOK'
    BY <1>1, <1>5, <2>2 DEF FlushCall, ElogTypeOK, Cells
  <2>4. CallsCounted'
    BY <1>5, ElogAssumption DEF FlushCall, MayCall, Goto, ElogTypeOK
  <2>5. Coupled' /\ IndexOK'
    BY <1>5 DEF FlushCall, Goto, ElogTypeOK, InsidePoints, lockVars, At
  <2> QED
    BY <1>1, <2>3, <2>4, <2>5
<1>6. ASSUME NEW t \in Threads, CheckEnabled(t)
      PROVE  ElogIInv'
  BY <1>1, <1>6 DEF CheckEnabled, Goto, ElogTypeOK, Points, InsidePoints, lockVars, At
<1>7. ASSUME NEW t \in Threads, TagLevel(t)
      PROVE  ElogIInv'
  BY <1>0, <1>1, <1>7
     DEF TagLevel, UnlockTest, Goto, GoTo, ElogTypeOK, Points, InsidePoints, At
<1>8. ASSUME NEW t \in Threads, Format(t)
      PROVE  ElogIInv'
  <2>1. At(t, "in") /\ lpc' = lpc
    BY <1>8 DEF Format, lockVars
  <2>2. \A s \in Threads \ {t} : pc[s] \notin InsidePoints /\ pc'[s] = pc[s]
    BY <1>8, <2>1, InsideAlone DEF Format, Goto, ElogTypeOK
  <2>3. line' \in Lines \cup {<<>>}
    <3>1. CASE line' = line
      BY <3>1 DEF ElogTypeOK
    <3>2. CASE \E n \in LineLens : rows[t] > 0 /\ line' = LineOf(t, calls[t], rows[t], n)
      <4>1. calls[t] \in 1 .. MaxCalls
        BY <1>8, ElogAssumption DEF Format, ElogTypeOK
      <4>2. rows[t] \in 1 .. MaxRows
        BY <3>2, ElogAssumption DEF ElogTypeOK
      <4> QED
        BY <3>2, <4>1, <4>2 DEF Lines
    <3> QED
      BY <1>8, <3>1, <3>2 DEF Format
  <2>4. ElogTypeOK'
    <3>1. pc' \in [Threads -> Points]
      BY <1>8 DEF Format, Goto, ElogTypeOK, Points
    <3>2. rows' \in [Threads -> 0 .. MaxRows] /\ write_index' \in [Threads -> Nat]
      <4>1. rows \in [Threads -> 0 .. MaxRows] /\ write_index \in [Threads -> Nat]
        BY DEF ElogTypeOK
      <4>2. CASE UNCHANGED <<rows, write_index>>
        BY <4>1, <4>2
      <4>3. CASE /\ rows[t] > 0 /\ rows' = [rows EXCEPT ![t] = @ - 1]
                 /\ write_index' = [write_index EXCEPT ![t] = 0]
        <5>1. rows[t] - 1 \in 0 .. MaxRows
          BY <4>1, <4>3, ElogAssumption
        <5> QED
          BY <4>1, <4>3, <5>1
      <4> QED
        BY <1>8, <4>2, <4>3 DEF Format
    <3> QED
      BY <1>1, <1>8, <2>3, <3>1, <3>2 DEF Format, ElogTypeOK
  <2> QED
    BY <1>1, <1>8, <2>1, <2>2, <2>4 DEF Format, Goto, ElogTypeOK, InsidePoints, At
<1>9. ASSUME NEW t \in Threads, Put(t)
      PROVE  ElogIInv'
  <2>1. device' \in Seq(Cells)
    <3>1. device \o line \in Seq(Cells)
      BY <1>3, ConcatProperties
    <3> QED
      BY <1>3, <1>9, <3>1 DEF Put
  <2>2. ElogTypeOK'
    BY <1>1, <1>9, <2>1 DEF Put, Goto, AfterPut, ElogTypeOK, Points, Cells
  <2>3. pc[t] = "put" /\ pc'[t] \in {"copy", "log", "leave"}
    BY <1>9 DEF Put, Goto, AfterPut, ElogTypeOK
  <2>4. /\ \A s \in Threads \ {t} : pc'[s] = pc[s]
        /\ UNCHANGED <<lpc, line, write_index, calls>>
    BY <1>9 DEF Put, Goto, ElogTypeOK, lockVars
  <2> QED
    BY <1>1, <1>3, <2>2, <2>3, <2>4 DEF InsidePoints, At
<1>10. ASSUME NEW t \in Threads, CopyTail(t)
       PROVE  ElogIInv'
  <2>1. RestOf(t) \in Seq(Cells) /\ Len(RestOf(t)) \in Nat
    BY <1>3, RestIsSeq, LenProperties DEF RestOf, ElogTypeOK
  <2>2. buf' \in Seq(Cells) /\ Len(buf') <= BufSize
    BY <1>3, <1>10, <2>1, ConcatProperties DEF CopyTail
  <2> QED
    BY <1>1, <1>10, <2>2
       DEF CopyTail, Goto, AfterPut, ElogTypeOK, Points, InsidePoints, lockVars, At, Cells
<1>11. ASSUME NEW t \in Threads, CopyChunk(t)
       PROVE  ElogIInv'
  <2> DEFINE size == BufSize - Len(buf)
             chunk == SubSeq(line, write_index[t] + 1, write_index[t] + size)
  <2>1. /\ chunk \in Seq(Cells) /\ Len(chunk) = size
        /\ size \in Nat /\ write_index[t] \in Nat
        /\ write_index[t] + size <= Len(line)
    BY <1>11, ChunkOfLine
  <2>2. /\ buf' \in Seq(Cells) /\ Len(buf') <= BufSize
        /\ device' \in Seq(Cells)
    <3>1. buf' = buf \o chunk /\ device' = device \o buf \o chunk
      BY <1>11 DEF CopyChunk
    <3> HIDE DEF chunk
    <3>2. /\ buf \o chunk \in Seq(Cells) /\ device \o buf \in Seq(Cells)
          /\ Len(buf \o chunk) = Len(buf) + Len(chunk)
      <4>1. buf \in Seq(Cells) /\ device \in Seq(Cells) /\ chunk \in Seq(Cells)
        BY <1>3, <2>1
      <4> QED
        BY <4>1, ConcatProperties
    <3>3. device \o buf \o chunk \in Seq(Cells)
      BY <2>1, <3>2, ConcatProperties
    <3> QED
      BY <1>2, <1>3, <2>1, <3>1, <3>2, <3>3
  <2> HIDE DEF chunk
  <2>3. write_index' = [write_index EXCEPT ![t] = @ + size]
    BY <1>11 DEF CopyChunk
  <2>4. ElogTypeOK'
    <3>1. write_index' \in [Threads -> Nat]
      BY <2>1, <2>3 DEF ElogTypeOK
    <3>2. pc' \in [Threads -> Points]
      BY <1>11 DEF CopyChunk, Goto, ElogTypeOK, Points
    <3>3. UNCHANGED <<output_enabled, is_enabled, line, kind, rows, calls, goal>>
      BY <1>11 DEF CopyChunk
    <3> QED
      BY <1>1, <2>2, <3>1, <3>2, <3>3 DEF ElogTypeOK, Cells
  <2>5. /\ pc[t] = "copy" /\ pc'[t] = "reset"
        /\ \A s \in Threads \ {t} : pc'[s] = pc[s] /\ write_index'[s] = write_index[s]
        /\ write_index'[t] = write_index[t] + size
        /\ UNCHANGED <<lpc, line, calls>>
    BY <1>11, <2>3 DEF CopyChunk, Goto, ElogTypeOK, lockVars
  <2>6. IndexOK'
    BY <1>3, <2>1, <2>5
  <2>7. CallsCounted' /\ Coupled'
    BY <2>5 DEF InsidePoints, At
  <2> QED
    BY <1>1, <2>4, <2>6, <2>7
<1>12. ASSUME NEW t \in Threads, CopyReset(t)
       PROVE  ElogIInv'
  BY <1>1, <1>12, EmptySeq, ElogAssumption
     DEF CopyReset, Goto, ElogTypeOK, Points, InsidePoints, lockVars, At
<1>13. ASSUME NEW t \in Threads, Leave(t)
       PROVE  ElogIInv'
  BY <1>0, <1>1, <1>13
     DEF Leave, UnlockTest, Goto, GoTo, ElogTypeOK, Points, InsidePoints, At
<1>14. ASSUME NEW t \in Threads, FlushTest(t)
       PROVE  ElogIInv'
  BY <1>1, <1>14 DEF FlushTest, Goto, ElogTypeOK, Points, InsidePoints, lockVars, At
<1>15. ASSUME NEW t \in Threads, FlushOutput(t)
       PROVE  ElogIInv'
  BY <1>1, <1>3, <1>15, ConcatProperties
     DEF FlushOutput, Goto, ElogTypeOK, Points, InsidePoints, lockVars, At, Cells
<1>16. ASSUME NEW t \in Threads, FlushReset(t)
       PROVE  ElogIInv'
  BY <1>1, <1>16, EmptySeq, ElogAssumption
     DEF FlushReset, Goto, ElogTypeOK, Points, InsidePoints, lockVars, At
<1>17. ASSUME NEW t \in Threads, LockUse(t)
       PROVE  ElogIInv'
  BY <1>0, <1>1, <1>17
     DEF LockUse, LockTest, LockStep, PortLock, SetFlag, PortUnlock, ClrFlag, GoTo,
         outVars, ElogTypeOK, InsidePoints, LockingPoints, At
<1>18. ASSUME NEW t \in Threads, NEW on \in BOOLEAN, SwitchOutput(t, on)
       PROVE  ElogIInv'
  <2>1. calls' \in [Threads -> 0 .. MaxCalls] /\ pc' \in [Threads -> Points]
    BY <1>18, ElogAssumption DEF SwitchOutput, MayCall, Goto, ElogTypeOK, Points
  <2>2. ElogTypeOK'
    BY <1>1, <1>18, <2>1 DEF SwitchOutput, ElogTypeOK
  <2>3. CallsCounted'
    BY <1>18, ElogAssumption DEF SwitchOutput, MayCall, Goto, ElogTypeOK
  <2>4. Coupled' /\ IndexOK'
    BY <1>18 DEF SwitchOutput, Goto, ElogTypeOK, InsidePoints, lockVars, At
  <2> QED
    BY <1>1, <2>2, <2>3, <2>4
<1>19. ASSUME NEW t \in Threads, NEW on \in BOOLEAN, SwitchBuffered(t, on)
       PROVE  ElogIInv'
  <2>1. /\ kind' \in [Threads -> Kinds] /\ pc' \in [Threads -> Points]
        /\ rows' \in [Threads -> 0 .. MaxRows]
    BY <1>19, ElogAssumption
       DEF SwitchBuffered, Goto, ElogTypeOK, Points, Kinds, OutputKinds
  <2>2. ElogTypeOK'
    BY <1>1, <1>19, <2>1 DEF SwitchBuffered, ElogTypeOK
  <2>3. CallsCounted' /\ Coupled' /\ IndexOK'
    BY <1>19 DEF SwitchBuffered, Goto, ElogTypeOK, InsidePoints, lockVars, At
  <2> QED
    BY <1>1, <2>2, <2>3
<1>20. CASE UNCHANGED elogVars
  BY <1>1, <1>20 DEF elogVars, outVars, lockVars, ElogTypeOK, At
<1> QED
  BY <1>4, <1>5, <1>6, <1>7, <1>8, <1>9, <1>10, <1>11, <1>12, <1>13, <1>14,
     <1>15, <1>16, <1>17, <1>18, <1>19, <1>20 DEF SwitchNext, SteadyNext, NewCall, RunStep

\* With the mode left alone, the buffer is used in buffered mode only.
LEMMA BufferedStep == ElogIInv /\ BufferedOK /\ [SteadyNext]_elogVars => BufferedOK'
<1> SUFFICES ASSUME ElogIInv, BufferedOK, [SteadyNext]_elogVars
             PROVE  BufferedOK'
  OBVIOUS
<1>1. pc \in [Threads -> Points]
  BY DEF ElogIInv, ElogTypeOK
<1>2. CASE UNCHANGED elogVars
  BY <1>2 DEF elogVars, outVars, BufferedOK
<1>3. ASSUME NEW t \in Threads,
             \/ NewCall(t) \/ CheckEnabled(t) \/ TagLevel(t) \/ Format(t) \/ Leave(t)
             \/ FlushTest(t) \/ FlushOutput(t) \/ FlushReset(t) \/ LockUse(t)
      PROVE  BufferedOK'
  <2>1. is_enabled' = is_enabled /\ (buf' = buf \/ buf' = <<>>)
    BY <1>3 DEF NewCall, LogCall, FlushCall, CheckEnabled, TagLevel, Format, Leave,
                FlushTest, FlushOutput, FlushReset, LockUse, outVars
  <2>2. \A s \in Threads : pc'[s] \in {"copy", "reset"} => pc[s] \in {"copy", "reset"}
    BY <1>1, <1>3 DEF NewCall, LogCall, FlushCall, CheckEnabled, TagLevel, Format, Leave,
                      FlushTest, FlushOutput, FlushReset, LockUse, outVars, Goto
  <2> QED
    BY <2>1, <2>2 DEF BufferedOK
<1>4. ASSUME NEW t \in Threads, Put(t) \/ CopyTail(t) \/ CopyChunk(t) \/ CopyReset(t)
      PROVE  BufferedOK'
  <2>1. is_enabled' = is_enabled /\ (is_enabled \/ buf' = buf)
    BY <1>4 DEF Put, CopyTail, CopyChunk, CopyReset, BufferedOK
  <2>2. \A s \in Threads :
           pc'[s] \in {"copy", "reset"} => is_enabled \/ pc[s] \in {"copy", "reset"}
    BY <1>1, <1>4 DEF Put, CopyTail, CopyChunk, CopyReset, AfterPut, Goto
  <2> QED
    BY <2>1, <2>2 DEF BufferedOK
<1> QED
  BY <1>2, <1>3, <1>4 DEF SteadyNext, RunStep

\* The invariant holds in every reachable state, whatever switches the output.
THEOREM ElogSwitchInvariance == SwitchSpec => []ElogIInv
<1>1. SwitchSpec => ElogIInv
  BY ElogInitIInv DEF SwitchSpec
<1> QED
  BY <1>1, ElogStepIInv, PTL DEF SwitchSpec

\* And with the mode left alone, where the buffer is used in its mode only.
THEOREM ElogInvariance == SteadySpec => []ElogIInv /\ []BufferedOK
<1>1. SteadySpec => ElogIInv /\ BufferedOK
  BY ElogInitIInv DEF SteadySpec
<1>2. [SteadyNext]_elogVars => [SwitchNext]_elogVars
  BY DEF SwitchNext
<1> QED
  BY <1>1, <1>2, ElogStepIInv, BufferedStep, PTL DEF SteadySpec

\* Type correctness of the output path, and with it that the output buffer is
\* never filled beyond its size, for any sizes of buffer and lines.
THEOREM ElogTypeCorrect == SteadySpec => []ElogTypeOK
<1>1. ElogIInv => ElogTypeOK
  BY DEF ElogIInv
<1> QED
  BY <1>1, ElogInvariance, PTL

\* No two of any number of threads are ever inside the lock together, the
\* second taking of the lock for the tag's level included.
THEOREM ElogExcludes == SteadySpec => []MutualExclusion
<1>1. ElogIInv => MutualExclusion
  BY InsideAlone DEF ElogIInv, MutualExclusion
<1> QED
  BY <1>1, ElogInvariance, PTL

-----------------------------------------------------------------------------
(***************************************************************************)
(* The output path, its mode left alone, implements ElogPipe, and          *)
(* elog_flush delivers.  The stream is spread over the device, the buffer  *)
(* and the line in progress.  Where each part is depends on the one thread *)
(* inside the lock, so every step is looked at from that thread.           *)
(***************************************************************************)

\* Points at which a line is in progress, and at which the buffer has been
\* handed to the device but is not reset yet.
LinePoints == {"put", "copy", "reset"}
HandedPoints == {"reset", "flushreset"}

\* With a thread inside, no other is at a point inside.
LEMMA OthersOutside ==
  \A t \in Threads : ElogIInv /\ At(t, "in")
     => \A s \in Threads \ {t} : pc[s] \notin InsidePoints
BY InsideAlone DEF ElogIInv, Coupled

\* With t inside, its point says where the parts of the stream are.
InsideParts ==
    \A t \in Threads : ElogIInv /\ At(t, "in")
        => /\ Pending = IF pc[t] \in HandedPoints THEN <<>> ELSE buf
           /\ InFlight = IF pc[t] \in LinePoints THEN RestOf(t) ELSE <<>>

\* They are there in this state and in the next.
LEMMA PartsOfInside == InsideParts /\ InsideParts'
<1>1. InsideParts
  <2> SUFFICES ASSUME NEW t \in Threads, ElogIInv, At(t, "in")
               PROVE  /\ Pending = IF pc[t] \in HandedPoints THEN <<>> ELSE buf
                      /\ InFlight = IF pc[t] \in LinePoints THEN RestOf(t) ELSE <<>>
    BY DEF InsideParts
  <2>1. \A s \in Threads : pc[s] \in InsidePoints => s = t
    BY OthersOutside
  <2>2. \A s \in Threads : pc[s] \in HandedPoints => s = t
    BY <2>1 DEF InsidePoints, HandedPoints
  <2>3. \A s \in Threads : pc[s] \in LinePoints => s = t
    BY <2>1 DEF InsidePoints, LinePoints
  <2>4. Pending = IF pc[t] \in HandedPoints THEN <<>> ELSE buf
    BY <2>2 DEF Pending, HandedPoints
  <2>5. CASE pc[t] \in LinePoints
    <3>1. (CHOOSE s \in Threads : pc[s] \in LinePoints) = t
      BY <2>3, <2>5
    <3> QED
      BY <2>4, <2>5, <3>1 DEF InFlight, LinePoints
  <2>6. CASE pc[t] \notin LinePoints
    BY <2>3, <2>4, <2>6 DEF InFlight, LinePoints
  <2> QED
    BY <2>5, <2>6
<1> QED
  BY <1>1, PTL

\* Concatenation of sequences of cells is associative.
LEMMA CellsAssociative ==
  ASSUME NEW a \in Seq(Cells), NEW b \in Seq(Cells), NEW c \in Seq(Cells)
  PROVE  a \o b \o c = a \o (b \o c)
BY ConcatAssociative

-----------------------------------------------------------------------------
(* Steps that move nothing. *)

\* A step that leaves the parts alone and moves no thread to or from a point
\* of a line or a handed buffer leaves the stream alone.
LEMMA SilentStep ==
  ASSUME ElogIInv, ElogIInv', UNCHANGED <<line, buf, device, write_index>>,
         \A s \in Threads : \/ pc'[s] = pc[s]
                             \/ {pc[s], pc'[s]} \cap (LinePoints \cup HandedPoints) = {}
  PROVE  UNCHANGED <<Stream, device>>
<1>1. \A s \in Threads : RestOf(s)' = RestOf(s)
  BY DEF RestOf
<1>2. Pending' = Pending
  <2>1. \A s \in Threads : pc'[s] \in HandedPoints <=> pc[s] \in HandedPoints
    OBVIOUS
  <2> QED
    BY <2>1 DEF Pending, HandedPoints
<1>3. InFlight' = InFlight
  <2>1. \A s \in Threads : pc'[s] \in LinePoints <=> pc[s] \in LinePoints
    OBVIOUS
  <2>2. CASE \E t \in Threads : pc[t] \in LinePoints
    <3>1. PICK t \in Threads : pc[t] \in LinePoints
      BY <2>2
    <3>2. pc'[t] \in LinePoints
      BY <2>1, <3>1
    <3>3. At(t, "in") /\ At(t, "in")'
      BY <3>1, <3>2 DEF ElogIInv, Coupled, LinePoints, InsidePoints
    <3> QED
      BY <1>1, <3>1, <3>2, <3>3, PartsOfInside DEF InsideParts
  <2>3. CASE \A t \in Threads : pc[t] \notin LinePoints
    BY <2>1, <2>3 DEF InFlight, LinePoints
  <2> QED
    BY <2>2, <2>3
<1> QED
  BY <1>2, <1>3 DEF Stream

\* What a part of the device's output is: a prefix of the stream.
LEMMA DeliverStep ==
  ASSUME NEW d \in Seq(Cells), NEW e \in Seq(Cells), NEW f \in Seq(Cells)
  PROVE  \E n \in Len(d) .. Len(d \o e \o f) : d \o e = SubSeq(d \o e \o f, 1, n)
<1> DEFINE g == d \o e
<1>1. g \in Seq(Cells) /\ Len(g) = Len(d) + Len(e)
  BY ConcatProperties
<1>2. Len(d) \in Nat /\ Len(e) \in Nat /\ Len(f) \in Nat
  BY LenProperties
<1> HIDE DEF g
<1>3. Len(g) \in Len(d) .. Len(g \o f)
  BY <1>1, <1>2, ConcatProperties
<1>4. g = SubSeq(g \o f, 1, Len(g))
  <2>1. CASE Len(g) = 0
    BY <1>1, <2>1, EmptySeq, SubSeqEmpty
  <2>2. CASE Len(g) # 0
    BY <1>1, <1>2, <2>2, SubSeqOfConcat1, SubSeqFull
  <2> QED
    BY <2>1, <2>2
<1> QED
  BY <1>3, <1>4 DEF g

-----------------------------------------------------------------------------
(* Steps of the thread inside. *)

\* Formatting a line that passes the filters accepts it; one that does not
\* pass, and the end of a dump, are not seen.
LEMMA FormatStep ==
  ASSUME ElogIInv, ElogIInv', NEW t \in Threads, Format(t)
  PROVE  \/ pc'[t] = "leave" /\ UNCHANGED <<Stream, device>>
         \/ /\ pc'[t] = "put" /\ rows[t] \in 1 .. MaxRows /\ calls[t] \in 1 .. MaxCalls
            /\ \E n \in LineLens : Stream' = Stream \o LineOf(t, calls[t], rows[t], n)
            /\ UNCHANGED device
<1>1. /\ pc[t] = "log" /\ At(t, "in") /\ At(t, "in")'
      /\ pc'[t] \in {"put", "leave"} /\ UNCHANGED <<device, buf>>
  BY DEF Format, Goto, ElogIInv, ElogTypeOK, lockVars, At
<1>2. Stream = device \o buf \o <<>>
  BY <1>1, PartsOfInside DEF InsideParts, Stream, HandedPoints, LinePoints
<1>3. CASE pc'[t] = "leave"
  <2>1. Stream' = device \o buf \o <<>>
    BY <1>1, <1>3, PartsOfInside DEF InsideParts, Stream, HandedPoints, LinePoints
  <2> QED
    BY <1>1, <1>2, <1>3, <2>1
<1>4. CASE pc'[t] = "put"
  <2>1. PICK n \in LineLens : rows[t] > 0 /\ line' = LineOf(t, calls[t], rows[t], n)
    BY <1>4 DEF Format, Goto, ElogIInv, ElogTypeOK
  <2>2. calls[t] \in 1 .. MaxCalls
    BY <1>1, ElogAssumption DEF ElogIInv, CallsCounted, ElogTypeOK
  <2>3. rows[t] \in 1 .. MaxRows
    BY <2>1, ElogAssumption DEF ElogIInv, ElogTypeOK
  <2>4. line' \in Seq(Cells)
    <3>1. line' \in Lines
      BY <2>1, <2>2, <2>3 DEF Lines
    <3> QED
      BY <3>1, LineIsSeq
  <2>5. write_index'[t] = 0
    BY <1>4 DEF ElogIInv, IndexOK
  <2>6. RestOf(t)' = line'
    BY <2>4, <2>5, SubSeqFull DEF RestOf
  <2>7. Stream' = device \o buf \o line'
    BY <1>1, <1>4, <2>6, PartsOfInside DEF InsideParts, Stream, HandedPoints, LinePoints
  <2>8. Stream = device \o buf
    <3>1. device \o buf \in Seq(Cells)
      BY PartsAreSeqs, ConcatProperties
    <3> QED
      BY <1>2, <3>1, ConcatEmptySeq
  <2> QED
    BY <1>1, <1>4, <2>1, <2>2, <2>3, <2>7, <2>8
<1> QED
  BY <1>1, <1>3, <1>4

\* elog_buf_output in buffered mode: nothing moves yet.
LEMMA PutBuffered ==
  ASSUME ElogIInv, ElogIInv', NEW t \in Threads, Put(t), is_enabled
  PROVE  UNCHANGED <<Stream, device>>
<1>1. /\ pc[t] = "put" /\ pc'[t] = "copy" /\ At(t, "in") /\ At(t, "in")'
      /\ UNCHANGED <<line, buf, write_index, device>>
  BY DEF Put, Goto, ElogIInv, ElogTypeOK, Coupled, InsidePoints, lockVars, At
<1>2. RestOf(t)' = RestOf(t)
  BY <1>1 DEF RestOf
<1>3. Stream' = Stream
  BY <1>1, <1>2, PartsOfInside DEF InsideParts, Stream, HandedPoints, LinePoints
<1> QED
  BY <1>1, <1>3

\* elog_buf_output in direct mode: the line overtakes what is buffered.
LEMMA PutDirect ==
  ASSUME ElogIInv, ElogIInv', NEW t \in Threads, Put(t), ~is_enabled
  PROVE  /\ Stream = device \o buf \o line
         /\ Stream' = device \o line \o buf
         /\ device' = device \o line
<1>1. /\ pc[t] = "put" /\ pc'[t] \in {"log", "leave"} /\ At(t, "in") /\ At(t, "in")'
      /\ UNCHANGED <<line, buf, write_index>> /\ device' = device \o line
  BY DEF Put, Goto, AfterPut, ElogIInv, ElogTypeOK, Coupled, InsidePoints, lockVars, At
<1>2. /\ device \in Seq(Cells) /\ buf \in Seq(Cells) /\ line \in Seq(Cells)
      /\ device \o line \in Seq(Cells)
  BY PartsAreSeqs, ConcatProperties
<1>3. RestOf(t) = line
  BY <1>1, <1>2, SubSeqFull DEF RestOf, ElogIInv, IndexOK
<1>4. Stream = device \o buf \o line
  BY <1>1, <1>3, PartsOfInside DEF InsideParts, Stream, HandedPoints, LinePoints
<1>5. Stream' = device' \o buf' \o <<>>
  BY <1>1, PartsOfInside DEF InsideParts, Stream, HandedPoints, LinePoints
<1>6. device \o line \o buf \in Seq(Cells)
  BY <1>2, ConcatProperties
<1> QED
  BY <1>1, <1>4, <1>5, <1>6, ConcatEmptySeq

\* With nothing buffered in direct mode, that delivers the line.
LEMMA PutStep ==
  ASSUME ElogIInv, ElogIInv', BufferedOK, NEW t \in Threads, Put(t)
  PROVE  [Pipe!Deliver]_(Pipe!pipeVars)
<1>1. CASE is_enabled
  BY <1>1, PutBuffered DEF Pipe!pipeVars
<1>2. CASE ~is_enabled
  <2>1. /\ Stream = device \o buf \o line /\ Stream' = device \o line \o buf
        /\ device' = device \o line
    BY <1>2, PutDirect
  <2>2. buf = <<>>
    BY <1>2 DEF BufferedOK
  <2>3. device \in Seq(Cells) /\ line \in Seq(Cells) /\ <<>> \in Seq(Cells)
    BY PartsAreSeqs, EmptySeq
  <2>4. Stream' = Stream /\ Stream = device \o line \o <<>>
    <3>1. device \o <<>> = device
      BY <2>3, ConcatEmptySeq
    <3>2. device \o line \o <<>> = device \o line
      BY <2>3, ConcatProperties, ConcatEmptySeq
    <3> QED
      BY <2>1, <2>2, <3>1, <3>2
  <2>5. \E n \in Len(device) .. Len(Stream) : device' = SubSeq(Stream, 1, n)
    <3>1. \E n \in Len(device) .. Len(device \o line \o <<>>) :
             device \o line = SubSeq(device \o line \o <<>>, 1, n)
      BY <2>3, DeliverStep
    <3> QED
      BY <2>1, <2>4, <3>1
  <2> QED
    BY <2>4, <2>5 DEF Pipe!Deliver
<1> QED
  BY <1>1, <1>2

\* Copying the rest of a line behind the buffer moves nothing.
LEMMA CopyTailStep ==
  ASSUME ElogIInv, ElogIInv', NEW t \in Threads, CopyTail(t)
  PROVE  [Pipe!Deliver]_(Pipe!pipeVars)
<1>1. /\ pc[t] = "copy" /\ At(t, "in") /\ At(t, "in")'
      /\ pc'[t] \in {"log", "leave"}
      /\ buf' = buf \o RestOf(t) /\ device' = device
  BY DEF CopyTail, Goto, AfterPut, ElogIInv, ElogTypeOK, Coupled, InsidePoints, lockVars, At
<1>2. /\ device \in Seq(Cells) /\ buf \in Seq(Cells) /\ RestOf(t) \in Seq(Cells)
      /\ device \o buf' \in Seq(Cells)
  BY <1>1, PartsAreSeqs, ConcatProperties
<1>3. Stream = device \o buf \o RestOf(t)
  BY <1>1, PartsOfInside DEF InsideParts, Stream, HandedPoints, LinePoints
<1>4. Stream' = device \o buf' \o <<>>
  BY <1>1, PartsOfInside DEF InsideParts, Stream, HandedPoints, LinePoints
<1>5. Stream' = device \o (buf \o RestOf(t))
  BY <1>1, <1>2, <1>4, ConcatEmptySeq
<1> QED
  BY <1>1, <1>2, <1>3, <1>5, CellsAssociative DEF Pipe!pipeVars

\* Filling the buffer and handing it over delivers it and a part of the line.
LEMMA CopyChunkStep ==
  ASSUME ElogIInv, ElogIInv', NEW t \in Threads, CopyChunk(t)
  PROVE  [Pipe!Deliver]_(Pipe!pipeVars)
<1> DEFINE size == BufSize - Len(buf)
           from == write_index[t]
           chunk == SubSeq(line, from + 1, from + size)
<1>1. /\ pc[t] = "copy" /\ At(t, "in") /\ At(t, "in")' /\ pc'[t] = "reset"
      /\ device' = device \o buf \o chunk
      /\ line' = line /\ write_index'[t] = from + size
  BY DEF CopyChunk, Goto, ElogIInv, ElogTypeOK, Coupled, InsidePoints, lockVars, At
<1>2. /\ device \in Seq(Cells) /\ buf \in Seq(Cells) /\ line \in Seq(Cells)
      /\ from \in Nat /\ Len(line) \in Nat
  BY PartsAreSeqs
<1>3. Stream = device \o buf \o RestOf(t)
  BY <1>1, PartsOfInside DEF InsideParts, Stream, HandedPoints, LinePoints
<1>4. Stream' = device' \o <<>> \o RestOf(t)'
  BY <1>1, PartsOfInside DEF InsideParts, Stream, HandedPoints, LinePoints
<1>5. size \in Nat /\ from + size <= Len(line) /\ chunk \in Seq(Cells)
  BY ChunkOfLine
<1>6. RestOf(t) = chunk \o RestOf(t)'
  <2>1. RestOf(t)' = SubSeq(line, from + size + 1, Len(line))
    BY <1>1 DEF RestOf
  <2>2. RestOf(t) = SubSeq(line, from + 1, Len(line))
    BY DEF RestOf
  <2> DEFINE m == from + 1
             k == from + size
  <2>3. m \in 1 .. Len(line) + 1 /\ k \in m - 1 .. Len(line) /\ Len(line) \in k .. Len(line)
    BY <1>2, <1>5
  <2>4. SubSeq(line, m, k) \o SubSeq(line, k + 1, Len(line)) = SubSeq(line, m, Len(line))
    <3> HIDE DEF m, k
    <3> QED
      BY <1>2, <2>3, ConcatAdjacentSubSeq
  <2> QED
    BY <2>1, <2>2, <2>4
<1>7. chunk \in Seq(Cells) /\ RestOf(t)' \in Seq(Cells)
  <2>1. RestOf(t)' = SubSeq(line, (from + size) + 1, Len(line))
    BY <1>1 DEF RestOf
  <2>2. from + size \in Nat
    BY <1>2, <1>5
  <2> QED
    BY <1>2, <1>5, <2>1, <2>2, RestIsSeq
<1> HIDE DEF chunk, size
<1>8. /\ device \o buf \in Seq(Cells) /\ buf \o chunk \in Seq(Cells)
      /\ device \o buf \o chunk \in Seq(Cells)
  BY <1>2, <1>7, ConcatProperties
<1>9. Stream = device \o buf \o chunk \o RestOf(t)'
  <2>1. (device \o buf) \o chunk \o RestOf(t)' = (device \o buf) \o (chunk \o RestOf(t)')
    <3> DEFINE front == device \o buf
               rest == RestOf(t)'
    <3>1. front \in Seq(Cells) /\ chunk \in Seq(Cells) /\ rest \in Seq(Cells)
      BY <1>7, <1>8
    <3> HIDE DEF front, rest
    <3>2. front \o chunk \o rest = front \o (chunk \o rest)
      BY <3>1, CellsAssociative
    <3> QED
      BY <3>2 DEF front, rest
  <2> QED
    BY <1>3, <1>6, <2>1
<1>10. Stream' = Stream
  BY <1>1, <1>4, <1>8, <1>9, ConcatEmptySeq
<1>11. \E n \in Len(device) .. Len(Stream) : device' = SubSeq(Stream, 1, n)
  <2>1. device \o (buf \o chunk) = device \o buf \o chunk
    <3>1. device \in Seq(Cells) /\ buf \in Seq(Cells) /\ chunk \in Seq(Cells)
      BY <1>2, <1>7
    <3> QED
      BY ONLY <3>1, CellsAssociative
  <2>2. \E n \in Len(device) .. Len(device \o (buf \o chunk) \o RestOf(t)') :
           device \o (buf \o chunk) = SubSeq(device \o (buf \o chunk) \o RestOf(t)', 1, n)
    <3> DEFINE rest == RestOf(t)'
               full == buf \o chunk
    <3>1. device \in Seq(Cells) /\ full \in Seq(Cells) /\ rest \in Seq(Cells)
      BY <1>2, <1>7, <1>8
    <3> HIDE DEF full, rest
    <3>2. \E n \in Len(device) .. Len(device \o full \o rest) :
             device \o full = SubSeq(device \o full \o rest, 1, n)
      BY <3>1, DeliverStep
    <3> QED
      BY <3>2 DEF full, rest
  <2> QED
    BY <1>1, <1>9, <2>1, <2>2
<1> QED
  BY <1>10, <1>11 DEF Pipe!Deliver

\* The buffer that has been handed over is empty to the reader of the stream:
\* resetting it moves nothing.
LEMMA CopyResetStep ==
  ASSUME ElogIInv, ElogIInv', NEW t \in Threads, CopyReset(t)
  PROVE  [Pipe!Deliver]_(Pipe!pipeVars)
<1>1. /\ pc[t] = "reset" /\ At(t, "in") /\ At(t, "in")' /\ pc'[t] = "copy"
      /\ buf' = <<>> /\ UNCHANGED <<device, line, write_index>>
  BY DEF CopyReset, Goto, ElogIInv, ElogTypeOK, Coupled, InsidePoints, lockVars, At
<1>2. RestOf(t)' = RestOf(t)
  BY <1>1 DEF RestOf
<1>3. Stream' = Stream
  BY <1>1, <1>2, PartsOfInside DEF InsideParts, Stream, HandedPoints, LinePoints
<1> QED
  BY <1>1, <1>3 DEF Pipe!pipeVars

\* elog_flush hands the buffer over...
LEMMA FlushOutputStep ==
  ASSUME ElogIInv, ElogIInv', NEW t \in Threads, FlushOutput(t)
  PROVE  [Pipe!Deliver]_(Pipe!pipeVars)
<1>1. /\ pc[t] = "flush" /\ At(t, "in") /\ At(t, "in")' /\ pc'[t] = "flushreset"
      /\ device' = device \o buf
  BY DEF FlushOutput, Goto, ElogIInv, ElogTypeOK, lockVars, At
<1>2. /\ device \in Seq(Cells) /\ buf \in Seq(Cells) /\ <<>> \in Seq(Cells)
      /\ device \o buf \in Seq(Cells)
  BY PartsAreSeqs, ConcatProperties, EmptySeq
<1>3. Stream = device \o buf \o <<>>
  BY <1>1, PartsOfInside DEF InsideParts, Stream, HandedPoints, LinePoints
<1>4. Stream' = device' \o <<>> \o <<>>
  BY <1>1, PartsOfInside DEF InsideParts, Stream, HandedPoints, LinePoints
<1>5. Stream' = Stream
  BY <1>1, <1>2, <1>3, <1>4, ConcatEmptySeq
<1>6. \E n \in Len(device) .. Len(device \o buf \o <<>>) :
         device \o buf = SubSeq(device \o buf \o <<>>, 1, n)
  BY <1>2, DeliverStep
<1> QED
  BY <1>1, <1>3, <1>5, <1>6 DEF Pipe!Deliver

\* ... and resets it, which moves nothing.
LEMMA FlushResetStep ==
  ASSUME ElogIInv, ElogIInv', NEW t \in Threads, FlushReset(t)
  PROVE  [Pipe!Deliver]_(Pipe!pipeVars)
<1>1. /\ pc[t] = "flushreset" /\ At(t, "in") /\ At(t, "in")' /\ pc'[t] = "leave"
      /\ buf' = <<>> /\ device' = device
  BY DEF FlushReset, Goto, ElogIInv, ElogTypeOK, Coupled, InsidePoints, lockVars, At
<1>2. Stream' = Stream
  BY <1>1, PartsOfInside DEF InsideParts, Stream, HandedPoints, LinePoints
<1> QED
  BY <1>1, <1>2 DEF Pipe!pipeVars

\* The other steps move nothing.
LEMMA OtherStep ==
  ASSUME ElogIInv, ElogIInv', NEW t \in Threads,
         \/ NewCall(t) \/ CheckEnabled(t) \/ TagLevel(t) \/ Leave(t)
         \/ FlushTest(t) \/ LockUse(t)
         \/ \E on \in BOOLEAN : SwitchOutput(t, on) \/ SwitchBuffered(t, on)
  PROVE  UNCHANGED <<Stream, device>>
<1>1. UNCHANGED <<line, buf, device, write_index>>
  BY DEF NewCall, LogCall, FlushCall, CheckEnabled, TagLevel, Leave, FlushTest, LockUse,
         SwitchOutput, SwitchBuffered, outVars
<1>2. pc \in [Threads -> Points]
  BY DEF ElogIInv, ElogTypeOK
<1>3. \A s \in Threads \ {t} : pc'[s] = pc[s]
  BY <1>2 DEF NewCall, LogCall, FlushCall, MayCall, CheckEnabled, TagLevel, Leave,
              FlushTest, LockUse, SwitchOutput, SwitchBuffered, outVars, Goto
<1>4. pc'[t] = pc[t] \/ {pc[t], pc'[t]} \cap (LinePoints \cup HandedPoints) = {}
  BY <1>2 DEF NewCall, LogCall, FlushCall, MayCall, CheckEnabled, TagLevel, Leave,
              FlushTest, LockUse, SwitchOutput, SwitchBuffered, outVars, Goto,
              LinePoints, HandedPoints
<1> QED
  BY <1>1, <1>3, <1>4, SilentStep

-----------------------------------------------------------------------------

\* Nothing is logged at first.
LEMMA PipeStart == (\E buffered \in BOOLEAN : ElogInit(TRUE, buffered)) => Pipe!PipeInit
<1> SUFFICES ASSUME NEW buffered \in BOOLEAN, ElogInit(TRUE, buffered)
             PROVE  Pipe!PipeInit
  OBVIOUS
<1>1. Pending = <<>> /\ InFlight = <<>> /\ device = <<>>
  BY DEF ElogInit, Pending, InFlight
<1>2. Stream = <<>>
  BY <1>1, EmptySeq, ConcatEmptySeq DEF Stream
<1> QED
  BY <1>1, <1>2 DEF Pipe!PipeInit

\* Every step of the output path is a step of the pipe or moves nothing.
LEMMA PipeStep ==
  ElogIInv /\ ElogIInv' /\ BufferedOK /\ [SteadyNext]_elogVars
     => [Pipe!PipeNext]_(Pipe!pipeVars)
<1> SUFFICES ASSUME ElogIInv, ElogIInv', BufferedOK, [SteadyNext]_elogVars
             PROVE  [Pipe!PipeNext]_(Pipe!pipeVars)
  OBVIOUS
<1>1. CASE UNCHANGED elogVars
  <2>1. UNCHANGED <<line, buf, device, write_index, pc>>
    BY <1>1 DEF elogVars, outVars
  <2> QED
    BY <2>1, SilentStep DEF Pipe!pipeVars
<1>2. CASE SteadyNext
  <2>1. PICK t \in Threads : NewCall(t) \/ RunStep(t) \/ LockUse(t)
    BY <1>2 DEF SteadyNext
  <2>2. CASE \/ NewCall(t) \/ CheckEnabled(t) \/ TagLevel(t) \/ Leave(t)
             \/ FlushTest(t) \/ LockUse(t)
    BY <2>2, OtherStep DEF Pipe!pipeVars
  <2>3. CASE Format(t)
    <3>1. \A r \in 1 .. MaxRows, c \in 1 .. MaxCalls, n \in LineLens :
             LineOf(t, c, r, n) \in Lines
      BY DEF Lines
    <3> QED
      BY <2>3, <3>1, FormatStep DEF Pipe!PipeNext, Pipe!Accept, Pipe!pipeVars
  <2>4. CASE \/ Put(t) \/ CopyTail(t) \/ CopyChunk(t) \/ CopyReset(t)
             \/ FlushOutput(t) \/ FlushReset(t)
    BY <2>4, PutStep, CopyTailStep, CopyChunkStep, CopyResetStep, FlushOutputStep,
       FlushResetStep DEF Pipe!PipeNext
  <2> QED
    BY <2>1, <2>2, <2>3, <2>4 DEF RunStep
<1> QED
  BY <1>1, <1>2

\* While the output mode is left alone, the device receives whole lines in the
\* order they were formatted, each byte once: for any number of threads, any
\* buffer size and any lengths of lines, split over the buffer as they may be.
THEOREM ElogImplementsPipe == SteadySpec => ImplementsPipe
<1>1. SteadySpec => Pipe!PipeInit
  BY PipeStart DEF SteadySpec
<1> QED
  BY <1>1, PipeStep, ElogInvariance, PTL DEF SteadySpec, ImplementsPipe, Pipe!PipeSpec

-----------------------------------------------------------------------------
(* elog_flush delivers. *)

\* What a flush has to deliver is on the device or in the buffer until it has
\* handed the buffer over, and on the device from then on; a buffer that is
\* about to be reset is on the device.
GoalOK ==
    /\ \A t \in Threads :
          /\ goal[t] \subseteq CellsIn(device) \cup CellsIn(buf)
          /\ pc[t] \notin {"flushtest", "flush"} => goal[t] \subseteq CellsIn(device)
    /\ \A t \in Threads : pc[t] \in HandedPoints => CellsIn(buf) \subseteq CellsIn(device)

\* The cells of a concatenation are those of its parts.
LEMMA CellsOfConcat ==
  ASSUME NEW a \in Seq(Cells), NEW b \in Seq(Cells)
  PROVE  CellsIn(a \o b) = CellsIn(a) \cup CellsIn(b)
<1>1. /\ Len(a) \in Nat /\ Len(b) \in Nat /\ Len(a \o b) = Len(a) + Len(b)
      /\ \A i \in 1 .. Len(a) + Len(b) :
            (a \o b)[i] = IF i <= Len(a) THEN a[i] ELSE b[i - Len(a)]
  BY LenProperties, ConcatProperties
<1>2. ASSUME NEW i \in 1 .. Len(a) + Len(b)
      PROVE  (a \o b)[i] \in CellsIn(a) \cup CellsIn(b)
  <2>1. CASE i <= Len(a)
    BY <1>1, <2>1 DEF CellsIn
  <2>2. CASE i > Len(a)
    <3>1. i - Len(a) \in 1 .. Len(b)
      BY <1>1, <2>2
    <3> QED
      BY <1>1, <2>2, <3>1 DEF CellsIn
  <2> QED
    BY <1>1, <2>1, <2>2
<1>3. ASSUME NEW i \in 1 .. Len(a)
      PROVE  a[i] \in CellsIn(a \o b)
  <2>1. i \in 1 .. Len(a \o b) /\ (a \o b)[i] = a[i]
    BY <1>1
  <2> QED
    BY <2>1 DEF CellsIn
<1>4. ASSUME NEW i \in 1 .. Len(b)
      PROVE  b[i] \in CellsIn(a \o b)
  <2>1. /\ i + Len(a) \in 1 .. Len(a \o b) /\ ~(i + Len(a) <= Len(a))
        /\ (i + Len(a)) - Len(a) = i
    BY <1>1
  <2>2. (a \o b)[i + Len(a)] = b[i]
    BY <1>1, <2>1
  <2> QED
    BY <2>1, <2>2 DEF CellsIn
<1>5. CellsIn(a \o b) \subseteq CellsIn(a) \cup CellsIn(b)
  BY <1>1, <1>2 DEF CellsIn
<1>6. CellsIn(a) \cup CellsIn(b) \subseteq CellsIn(a \o b)
  BY <1>3, <1>4 DEF CellsIn
<1> QED
  BY <1>5, <1>6

\* A step of t keeps the promise if no cell leaves both the buffer and the
\* device, t leaves the flush only when its goal is on the device, and a buffer
\* about to be reset is there.
LEMMA KeepsGoal ==
  ASSUME GoalOK, goal' = goal, NEW t \in Threads,
         CellsIn(device) \subseteq CellsIn(device'),
         CellsIn(buf) \subseteq CellsIn(buf') \cup CellsIn(device'),
         \A s \in Threads \ {t} : pc'[s] = pc[s],
         pc'[t] \in {"flushtest", "flush"} \/ goal[t] \subseteq CellsIn(device'),
         \A s \in Threads : pc'[s] \in HandedPoints => CellsIn(buf') \subseteq CellsIn(device')
  PROVE  GoalOK'
BY DEF GoalOK

LEMMA GoalStart == (\E buffered \in BOOLEAN : ElogInit(TRUE, buffered)) => GoalOK
BY DEF ElogInit, GoalOK, HandedPoints

\* Steps that leave the buffer and the device alone.
LEMMA GoalOther ==
  ASSUME ElogIInv, GoalOK, NEW t \in Threads,
         \/ NewCall(t) \/ CheckEnabled(t) \/ TagLevel(t) \/ Leave(t)
         \/ FlushTest(t) \/ LockUse(t) \/ Format(t)
  PROVE  GoalOK'
<1>1. UNCHANGED <<buf, device>> /\ pc \in [Threads -> Points] /\ goal \in [Threads -> SUBSET Cells]
  BY DEF NewCall, LogCall, FlushCall, CheckEnabled, TagLevel, Leave, FlushTest, LockUse,
         Format, outVars, ElogIInv, ElogTypeOK, Cells
<1>2. \A s \in Threads \ {t} : pc'[s] = pc[s]
  BY <1>1 DEF NewCall, LogCall, FlushCall, MayCall, CheckEnabled, TagLevel, Leave,
              FlushTest, LockUse, Format, outVars, Goto
<1>3. pc'[t] \in HandedPoints => pc[t] \in HandedPoints
  BY <1>1 DEF NewCall, LogCall, FlushCall, MayCall, CheckEnabled, TagLevel, Leave,
              FlushTest, LockUse, Format, outVars, Goto, HandedPoints
<1>4. \A s \in Threads : pc'[s] \in HandedPoints => CellsIn(buf) \subseteq CellsIn(device)
  BY <1>2, <1>3 DEF GoalOK
<1>5. CASE FlushCall(t)
  <2>1. /\ pc'[t] = "flushtest" /\ goal'[t] = CellsIn(buf)
        /\ \A s \in Threads \ {t} : goal'[s] = goal[s]
    BY <1>1, <1>5 DEF FlushCall, Goto
  <2> QED
    BY <1>1, <1>2, <1>4, <2>1 DEF GoalOK
<1>6. CASE FlushTest(t)
  <2>1. goal' = goal /\ (pc'[t] = "flush" \/ buf = <<>>)
    BY <1>1, <1>6 DEF FlushTest, Goto
  <2>2. buf = <<>> => CellsIn(buf) = {}
    BY EmptySeq DEF CellsIn
  <2>3. pc'[t] \in {"flushtest", "flush"} \/ goal[t] \subseteq CellsIn(device')
    BY <1>1, <2>1, <2>2 DEF GoalOK
  <2> QED
    BY <1>1, <1>2, <1>4, <2>1, <2>3, KeepsGoal
<1>7. CASE ~FlushCall(t) /\ ~FlushTest(t)
  <2>1. /\ goal' = goal
        /\ pc'[t] \in {"flushtest", "flush"} \/ pc[t] \notin {"flushtest", "flush"}
    BY <1>1, <1>7 DEF NewCall, LogCall, MayCall, CheckEnabled, TagLevel, Leave, LockUse,
                      Format, outVars, Goto
  <2>2. pc'[t] \in {"flushtest", "flush"} \/ goal[t] \subseteq CellsIn(device')
    BY <1>1, <2>1 DEF GoalOK
  <2> QED
    BY <1>1, <1>2, <1>4, <2>1, <2>2, KeepsGoal
<1> QED
  BY <1>5, <1>6, <1>7

\* Steps of elog_buf_output and elog_flush that move cells.
LEMMA GoalMoves ==
  ASSUME ElogIInv, ElogIInv', GoalOK, NEW t \in Threads,
         \/ Put(t) \/ CopyTail(t) \/ CopyChunk(t) \/ CopyReset(t)
         \/ FlushOutput(t) \/ FlushReset(t)
  PROVE  GoalOK'
<1>1. /\ goal' = goal /\ pc \in [Threads -> Points]
      /\ At(t, "in")
  BY DEF Put, CopyTail, CopyChunk, CopyReset, FlushOutput, FlushReset, ElogIInv,
         ElogTypeOK, Coupled, InsidePoints
<1>2. \A s \in Threads \ {t} : pc'[s] = pc[s] /\ pc[s] \notin HandedPoints
  <2>1. \A s \in Threads \ {t} : pc'[s] = pc[s]
    BY <1>1 DEF Put, CopyTail, CopyChunk, CopyReset, FlushOutput, FlushReset, Goto
  <2> QED
    BY <1>1, <2>1, OthersOutside DEF HandedPoints, InsidePoints
<1>3. /\ device \in Seq(Cells) /\ buf \in Seq(Cells) /\ line \in Seq(Cells)
      /\ RestOf(t) \in Seq(Cells)
  BY PartsAreSeqs
<1>4. CASE Put(t)
  <2>1. CellsIn(device) \subseteq CellsIn(device')
    <3>1. CellsIn(device \o line) = CellsIn(device) \cup CellsIn(line)
      BY <1>3, CellsOfConcat
    <3>2. device' = device \/ device' = device \o line
      BY <1>4 DEF Put
    <3> QED
      BY <3>1, <3>2
  <2>2. pc[t] = "put" /\ pc'[t] \in {"copy", "log", "leave"} /\ buf' = buf
    BY <1>1, <1>4 DEF Put, Goto, AfterPut
  <2> QED
    BY <1>1, <1>2, <2>1, <2>2, KeepsGoal DEF GoalOK, HandedPoints
<1>5. CASE CopyTail(t)
  <2>1. pc[t] = "copy" /\ pc'[t] \in {"log", "leave"} /\ device' = device
    BY <1>1, <1>5 DEF CopyTail, Goto, AfterPut
  <2>2. CellsIn(buf) \subseteq CellsIn(buf')
    BY <1>3, <1>5, CellsOfConcat DEF CopyTail
  <2> QED
    BY <1>1, <1>2, <2>1, <2>2, KeepsGoal DEF GoalOK, HandedPoints
<1>6. CASE CopyChunk(t)
  <2> DEFINE chunk == SubSeq(line, write_index[t] + 1, write_index[t] + (BufSize - Len(buf)))
  <2>1. /\ pc[t] = "copy" /\ pc'[t] = "reset"
        /\ buf' = buf \o chunk /\ device' = device \o buf \o chunk
    BY <1>1, <1>6 DEF CopyChunk, Goto
  <2>2. chunk \in Seq(Cells)
    BY <1>6, ChunkOfLine
  <2> HIDE DEF chunk
  <2>3. device \o buf \in Seq(Cells)
    BY <1>3, ConcatProperties
  <2>4. /\ CellsIn(buf') = CellsIn(buf) \cup CellsIn(chunk)
        /\ CellsIn(device') = CellsIn(device) \cup CellsIn(buf) \cup CellsIn(chunk)
    BY <1>3, <2>1, <2>2, <2>3, CellsOfConcat
  <2> QED
    BY <1>1, <1>2, <2>1, <2>4, KeepsGoal DEF GoalOK
<1>7. CASE CopyReset(t) \/ FlushReset(t)
  <2>1. /\ pc[t] \in HandedPoints /\ pc'[t] \in {"copy", "leave"}
        /\ buf' = <<>> /\ device' = device
    BY <1>1, <1>7 DEF CopyReset, FlushReset, Goto, HandedPoints
  <2> QED
    BY <1>1, <1>2, <2>1, KeepsGoal DEF GoalOK, HandedPoints
<1>8. CASE FlushOutput(t)
  <2>1. pc'[t] = "flushreset" /\ buf' = buf /\ device' = device \o buf
    BY <1>1, <1>8 DEF FlushOutput, Goto
  <2>2. CellsIn(device') = CellsIn(device) \cup CellsIn(buf)
    BY <1>3, <2>1, CellsOfConcat
  <2> QED
    BY <1>1, <1>2, <2>1, <2>2, KeepsGoal DEF GoalOK
<1> QED
  BY <1>4, <1>5, <1>6, <1>7, <1>8

\* Every step keeps the promise of every flush.
LEMMA GoalStep == ElogIInv /\ ElogIInv' /\ GoalOK /\ [SteadyNext]_elogVars => GoalOK'
<1> SUFFICES ASSUME ElogIInv, ElogIInv', GoalOK, [SteadyNext]_elogVars
             PROVE  GoalOK'
  OBVIOUS
<1>1. CASE UNCHANGED elogVars
  BY <1>1 DEF elogVars, outVars, GoalOK
<1>2. CASE SteadyNext
  BY <1>2, GoalOther, GoalMoves DEF SteadyNext, RunStep
<1> QED
  BY <1>1, <1>2

\* A flush that returns has its goal on the device.
LEMMA FlushReturns ==
  ElogIInv /\ GoalOK /\ [SteadyNext]_elogVars
     => \A t \in Threads : (pc'[t] = "idle" /\ pc[t] \in {"flushtest", "leave"})
                             => goal[t] \subseteq CellsIn(device)
<1> SUFFICES ASSUME ElogIInv, GoalOK, [SteadyNext]_elogVars, NEW t \in Threads,
                    pc'[t] = "idle", pc[t] \in {"flushtest", "leave"}
             PROVE  goal[t] \subseteq CellsIn(device)
  OBVIOUS
<1>1. CASE pc[t] = "leave"
  BY <1>1 DEF GoalOK
<1>2. CASE pc[t] = "flushtest"
  <2>1. PICK s \in Threads : NewCall(s) \/ RunStep(s) \/ LockUse(s)
    BY <1>2 DEF SteadyNext, elogVars, outVars
  <2>2. pc \in [Threads -> Points]
    BY DEF ElogIInv, ElogTypeOK
  <2>3. s = t
    BY <1>2, <2>1, <2>2
       DEF NewCall, LogCall, FlushCall, MayCall, RunStep, CheckEnabled, TagLevel, Format,
           Put, CopyTail, CopyChunk, CopyReset, Leave, FlushTest, FlushOutput, FlushReset,
           LockUse, outVars, Goto
  <2>4. FlushTest(t)
    BY <1>2, <2>1, <2>3
       DEF NewCall, LogCall, FlushCall, MayCall, RunStep, CheckEnabled, TagLevel, Format,
           Put, CopyTail, CopyChunk, CopyReset, Leave, FlushOutput, FlushReset,
           LockUse, outVars
  <2>5. buf = <<>>
    BY <2>2, <2>4 DEF FlushTest, Goto
  <2>6. CellsIn(buf) = {}
    BY <2>5, EmptySeq DEF CellsIn
  <2> QED
    BY <2>6 DEF GoalOK
<1> QED
  BY <1>1, <1>2

\* elog_flush delivers what was buffered when it was called, also when it
\* returns early because it read buf_write_size outside the lock.
THEOREM FlushIsComplete == SteadySpec => FlushDelivers
<1>1. SteadySpec => GoalOK
  BY GoalStart DEF SteadySpec
<1>2. SteadySpec => []GoalOK
  BY <1>1, GoalStep, ElogInvariance, PTL DEF SteadySpec
<1>3. ElogIInv /\ GoalOK /\ [SteadyNext]_elogVars
         => [\A t \in Threads : (pc'[t] = "idle" /\ pc[t] \in {"flushtest", "leave"})
                                  => goal[t] \subseteq CellsIn(device)]_elogVars
  BY FlushReturns
<1> QED
  BY <1>2, <1>3, ElogInvariance, PTL DEF SteadySpec, FlushDelivers
-----------------------------------------------------------------------------
(***************************************************************************)
(* elog_start and elog_stop.  The path is no pipe then: with the buffered  *)
(* mode switched off, a line that is output directly overtakes what is     *)
(* buffered.  What remains is the order inside a line.  The line that      *)
(* overtakes is whole (elog_buf.c tests the mode before it copies), so a   *)
(* part of it in the buffer would have to precede its first cell; and a    *)
(* line is accepted once, since no cell of the row that a call prints next *)
(* is in the stream yet.                                                   *)
(***************************************************************************)

\* Cells of the same line, and the order they have to be in.
SameLine(c, d) == c = [d EXCEPT !.pos = c.pos]
Before(c, d) == SameLine(c, d) => c.pos < d.pos

Ordered(s) == \A j \in 1 .. Len(s) : \A i \in 1 .. j - 1 : Before(s[i], s[j])

\* The points at which elog_start and elog_stop have counted their call but
\* not set up the row of the banner.
SwitchPoints == {"start", "stop"}

\* What is in the stream has been printed: it is of an earlier call of its
\* thread, or of an earlier row of the call in progress.
Printed ==
    \A c \in CellsIn(Stream), t \in Threads :
        c.by = t => /\ c.call <= calls[t]
                    /\ c.call = calls[t] => c.row > rows[t] /\ pc[t] \notin SwitchPoints

\* What a cell is.
LEMMA CellType ==
  ASSUME NEW c \in Cells
  PROVE  /\ c = [by |-> c.by, call |-> c.call, row |-> c.row, of |-> c.of, pos |-> c.pos]
         /\ c.call \in Nat /\ c.row \in Nat /\ c.pos \in Nat \ {0}
<1>1. PICK l \in Lines : c \in CellsIn(l)
  BY DEF Cells
<1>2. PICK t \in Threads, k \in 1 .. MaxCalls, r \in 1 .. MaxRows, n \in LineLens :
           l = LineOf(t, k, r, n)
  BY <1>1 DEF Lines
<1>3. n \in Nat /\ k \in Nat /\ r \in Nat
  BY ElogAssumption
<1>4. PICK i \in 1 .. n : c = Cell(t, k, r, n, i)
  BY <1>1, <1>2, <1>3 DEF CellsIn, LineOf
<1> QED
  BY <1>3, <1>4 DEF Cell

\* Being of the same line is symmetric and transitive.
LEMMA SameLineTransitive ==
  ASSUME NEW a \in Cells, NEW b \in Cells, NEW c \in Cells, SameLine(a, b), SameLine(b, c)
  PROVE  SameLine(a, c)
BY CellType DEF SameLine

LEMMA SameLineSymmetric ==
  ASSUME NEW a \in Cells, NEW b \in Cells, SameLine(a, b)
  PROVE  SameLine(b, a)
BY CellType DEF SameLine

\* A concatenation is ordered if its parts are, and nothing in the first is
\* of the same line as something it ought to follow in the second.
LEMMA OrderedConcat ==
  ASSUME NEW a \in Seq(Cells), NEW b \in Seq(Cells)
  PROVE  Ordered(a \o b) <=> /\ Ordered(a) /\ Ordered(b)
                             /\ \A c \in CellsIn(a), d \in CellsIn(b) : Before(c, d)
<1> DEFINE m == Len(a)
           n == Len(b)
<1>1. /\ m \in Nat /\ n \in Nat /\ Len(a \o b) = m + n
      /\ \A i \in 1 .. m : (a \o b)[i] = a[i]
      /\ \A i \in 1 .. n : (a \o b)[m + i] = b[i]
  <2>1. m \in Nat /\ n \in Nat
    BY LenProperties
  <2>2. /\ Len(a \o b) = m + n
        /\ \A i \in 1 .. m + n : (a \o b)[i] = IF i <= m THEN a[i] ELSE b[i - m]
    BY ConcatProperties
  <2>3. ASSUME NEW i \in 1 .. n
        PROVE  (a \o b)[m + i] = b[i]
    <3>1. m + i \in 1 .. m + n /\ ~(m + i <= m) /\ (m + i) - m = i
      BY <2>1
    <3> QED
      BY <2>2, <3>1
  <2>4. ASSUME NEW i \in 1 .. m
        PROVE  (a \o b)[i] = a[i]
    <3>1. i \in 1 .. m + n /\ i <= m
      BY <2>1
    <3> QED
      BY <2>2, <3>1
  <2> QED
    BY <2>1, <2>2, <2>3, <2>4
<1>2. ASSUME Ordered(a \o b)
      PROVE  /\ Ordered(a) /\ Ordered(b)
             /\ \A c \in CellsIn(a), d \in CellsIn(b) : Before(c, d)
  <2>1. \A j \in 1 .. m + n : \A i \in 1 .. j - 1 : Before((a \o b)[i], (a \o b)[j])
    BY <1>1, <1>2 DEF Ordered
  <2>2. ASSUME NEW j \in 1 .. m, NEW i \in 1 .. j - 1
        PROVE  Before(a[i], a[j])
    <3>1. i \in 1 .. m /\ j \in 1 .. m + n
      BY <1>1
    <3> QED
      BY <1>1, <2>1, <3>1
  <2>3. ASSUME NEW j \in 1 .. n, NEW i \in 1 .. j - 1
        PROVE  Before(b[i], b[j])
    <3>1. i \in 1 .. n /\ m + j \in 1 .. m + n /\ m + i \in 1 .. (m + j) - 1
      BY <1>1
    <3> QED
      BY <1>1, <2>1, <3>1
  <2>4. ASSUME NEW i \in 1 .. m, NEW j \in 1 .. n
        PROVE  Before(a[i], b[j])
    <3>1. m + j \in 1 .. m + n /\ i \in 1 .. (m + j) - 1
      BY <1>1
    <3> QED
      BY <1>1, <2>1, <3>1
  <2> QED
    BY <2>2, <2>3, <2>4 DEF Ordered, CellsIn
<1>3. ASSUME Ordered(a), Ordered(b),
             \A c \in CellsIn(a), d \in CellsIn(b) : Before(c, d)
      PROVE  Ordered(a \o b)
  <2>1. \A i \in 1 .. m, j \in 1 .. n : Before(a[i], b[j])
    BY <1>3 DEF CellsIn
  <2>2. ASSUME NEW j \in 1 .. m + n, NEW i \in 1 .. j - 1
        PROVE  Before((a \o b)[i], (a \o b)[j])
    <3>1. CASE j <= m
      <4>1. j \in 1 .. m /\ i \in 1 .. m
        BY <1>1, <3>1
      <4>2. Before(a[i], a[j])
        BY <1>3, <4>1 DEF Ordered
      <4> QED
        BY <1>1, <4>1, <4>2
    <3>2. CASE j > m /\ i <= m
      <4>1. j - m \in 1 .. n /\ i \in 1 .. m /\ m + (j - m) = j
        BY <1>1, <3>2
      <4>2. (a \o b)[j] = b[j - m] /\ (a \o b)[i] = a[i]
        BY <1>1, <4>1
      <4> QED
        BY <2>1, <4>1, <4>2
    <3>3. CASE j > m /\ i > m
      <4>1. /\ j - m \in 1 .. n /\ i - m \in 1 .. n /\ i - m \in 1 .. (j - m) - 1
            /\ m + (j - m) = j /\ m + (i - m) = i
        BY <1>1, <3>3
      <4>2. (a \o b)[j] = b[j - m] /\ (a \o b)[i] = b[i - m]
        BY <1>1, <4>1
      <4>3. Before(b[i - m], b[j - m])
        BY <1>3, <4>1 DEF Ordered
      <4> QED
        BY <4>2, <4>3
    <3> QED
      BY <1>1, <3>1, <3>2, <3>3
  <2> QED
    BY <1>1, <2>2 DEF Ordered
<1> QED
  BY <1>2, <1>3

\* A line is in order, its cells begin at 1 and are all of one line, and a cell
\* of another call or row is of another line.
LEMMA LineOrdered ==
  ASSUME NEW t \in Threads, NEW k \in 1 .. MaxCalls, NEW r \in 1 .. MaxRows,
         NEW n \in LineLens
  PROVE  LET l == LineOf(t, k, r, n)
         IN  /\ l \in Seq(Cells) /\ Ordered(l)
             /\ l[1] \in CellsIn(l) /\ l[1].pos = 1
             /\ \A c \in CellsIn(l) : /\ SameLine(c, l[1])
                                      /\ c.by = t /\ c.call = k /\ c.row = r
<1> DEFINE l == LineOf(t, k, r, n)
<1>1. n \in Nat \ {0} /\ l = [i \in 1 .. n |-> Cell(t, k, r, n, i)]
  BY ElogAssumption DEF LineOf
<1>2. l \in Seq(Cells) /\ Len(l) = n
  <2>1. l \in Lines
    BY DEF Lines
  <2> QED
    BY <1>1, <2>1, LineIsSeq
<1>3. \A i \in 1 .. n : l[i] = [by |-> t, call |-> k, row |-> r, of |-> n, pos |-> i]
  BY <1>1 DEF Cell
<1> HIDE DEF l
<1>4. Ordered(l)
  <2>1. ASSUME NEW j \in 1 .. n, NEW i \in 1 .. j - 1
        PROVE  l[i].pos < l[j].pos
    <3>1. i \in 1 .. n
      BY <1>1
    <3> QED
      BY <1>1, <1>3, <3>1
  <2> QED
    BY <1>2, <2>1 DEF Ordered, Before
<1>5. 1 \in 1 .. n
  BY <1>1
<1>6. l[1] \in CellsIn(l) /\ l[1].pos = 1
  BY <1>2, <1>3, <1>5 DEF CellsIn
<1>7. \A i \in 1 .. n : /\ SameLine(l[i], l[1])
                        /\ l[i].by = t /\ l[i].call = k /\ l[i].row = r
  <2>1. l[1] = [by |-> t, call |-> k, row |-> r, of |-> n, pos |-> 1]
    BY <1>3, <1>5
  <2>2. ASSUME NEW i \in 1 .. n
        PROVE  SameLine(l[i], l[1])
    <3>1. l[i] = [by |-> t, call |-> k, row |-> r, of |-> n, pos |-> i]
      BY <1>3
    <3>2. l[i] = [l[1] EXCEPT !.pos = i] /\ l[i].pos = i
      BY <2>1, <3>1
    <3> QED
      BY <3>2 DEF SameLine
  <2>3. ASSUME NEW i \in 1 .. n
        PROVE  l[i].by = t /\ l[i].call = k /\ l[i].row = r
    <3>1. l[i] = [by |-> t, call |-> k, row |-> r, of |-> n, pos |-> i]
      BY <1>3
    <3>2. l[i].by = t
      BY <3>1
    <3>3. l[i].call = k
      BY <3>1
    <3>4. l[i].row = r
      BY <3>1
    <3> QED
      BY <3>2, <3>3, <3>4
  <2> QED
    BY <2>2, <2>3
<1>8. \A c \in CellsIn(l) : SameLine(c, l[1]) /\ c.by = t /\ c.call = k /\ c.row = r
  BY <1>2, <1>7 DEF CellsIn
<1> QED
  BY <1>2, <1>4, <1>6, <1>8 DEF l

\* The three ways a step changes the stream: not at all, a new line at its end,
\* or the line in progress overtaking the buffer.
Accepts(t) ==
    /\ Format(t) /\ pc'[t] = "put"
    /\ rows[t] \in 1 .. MaxRows /\ calls[t] \in 1 .. MaxCalls
    /\ \E n \in LineLens : Stream' = Stream \o LineOf(t, calls[t], rows[t], n)

Overtakes ==
    /\ Stream = device \o buf \o line
    /\ Stream' = device \o line \o buf

LEMMA StreamStep ==
  ElogIInv /\ ElogIInv' /\ [SwitchNext]_elogVars
     => Stream' = Stream \/ Overtakes \/ \E t \in Threads : Accepts(t)
<1> SUFFICES ASSUME ElogIInv, ElogIInv', [SwitchNext]_elogVars
             PROVE  Stream' = Stream \/ Overtakes \/ \E t \in Threads : Accepts(t)
  OBVIOUS
<1>1. CASE UNCHANGED elogVars
  <2>1. UNCHANGED <<line, buf, device, write_index, pc>>
    BY <1>1 DEF elogVars, outVars
  <2> QED
    BY <2>1, SilentStep
<1>2. ASSUME NEW t \in Threads,
             \/ NewCall(t) \/ CheckEnabled(t) \/ TagLevel(t) \/ Leave(t)
             \/ FlushTest(t) \/ LockUse(t)
             \/ \E on \in BOOLEAN : SwitchOutput(t, on) \/ SwitchBuffered(t, on)
      PROVE  Stream' = Stream
  BY <1>2, OtherStep
<1>3. ASSUME NEW t \in Threads, Format(t)
      PROVE  Stream' = Stream \/ Accepts(t)
  BY <1>3, FormatStep DEF Accepts
<1>4. ASSUME NEW t \in Threads, Put(t)
      PROVE  Stream' = Stream \/ Overtakes
  BY <1>4, PutBuffered, PutDirect DEF Overtakes
<1>5. ASSUME NEW t \in Threads,
             CopyTail(t) \/ CopyChunk(t) \/ CopyReset(t) \/ FlushOutput(t) \/ FlushReset(t)
      PROVE  Stream' = Stream
  BY <1>5, CopyTailStep, CopyChunkStep, CopyResetStep, FlushOutputStep, FlushResetStep
     DEF Pipe!Deliver, Pipe!pipeVars
<1>6. CASE SteadyNext
  BY <1>2, <1>3, <1>4, <1>5, <1>6 DEF SteadyNext, RunStep
<1> QED
  BY <1>1, <1>2, <1>6 DEF SwitchNext

\* A step of a thread goes on to a later call, or prints a row of the same one.
LEMMA StepAges ==
  ElogIInv /\ ElogIInv' /\ [SwitchNext]_elogVars
     => \A t \in Threads :
           \/ calls'[t] > calls[t]
           \/ /\ calls'[t] = calls[t] /\ rows'[t] <= rows[t]
              /\ pc'[t] \in SwitchPoints => pc[t] \in SwitchPoints
           \/ calls'[t] = calls[t] /\ pc[t] \in SwitchPoints
<1> SUFFICES ASSUME ElogIInv, ElogIInv', [SwitchNext]_elogVars, NEW t \in Threads
             PROVE  \/ calls'[t] > calls[t]
                    \/ /\ calls'[t] = calls[t] /\ rows'[t] <= rows[t]
                       /\ pc'[t] \in SwitchPoints => pc[t] \in SwitchPoints
                    \/ calls'[t] = calls[t] /\ pc[t] \in SwitchPoints
  OBVIOUS
<1>1. /\ calls \in [Threads -> 0 .. MaxCalls] /\ rows \in [Threads -> 0 .. MaxRows]
      /\ pc \in [Threads -> Points] /\ MaxCalls \in Nat /\ MaxRows \in Nat
  BY ElogAssumption DEF ElogIInv, ElogTypeOK
<1>2. ASSUME NEW s \in Threads, calls' = [calls EXCEPT ![s] = @ + 1],
             s # t => rows'[t] = rows[t] /\ pc'[t] = pc[t]
      PROVE  \/ calls'[t] > calls[t]
             \/ calls'[t] = calls[t] /\ rows'[t] <= rows[t] /\ pc'[t] = pc[t]
  <2>1. CASE s = t
    <3>1. calls'[t] = calls[t] + 1
      BY <1>1, <1>2, <2>1
    <3>2. calls[t] \in Nat
      BY <1>1
    <3> QED
      BY <3>1, <3>2
  <2>2. CASE s # t
    <3>1. calls'[t] = calls[t] /\ rows'[t] = rows[t] /\ pc'[t] = pc[t]
      BY <1>1, <1>2, <2>2
    <3>2. rows[t] \in Nat
      BY <1>1
    <3> QED
      BY <3>1, <3>2
  <2> QED
    BY <2>1, <2>2
<1>3. ASSUME NEW s \in Threads,
             LogCall(s, kind'[s], rows'[s]) \/ FlushCall(s)
                \/ \E on \in BOOLEAN : SwitchOutput(s, on)
      PROVE  \/ calls'[t] > calls[t]
             \/ calls'[t] = calls[t] /\ rows'[t] <= rows[t] /\ pc'[t] = pc[t]
  BY <1>1, <1>2, <1>3 DEF LogCall, FlushCall, SwitchOutput, MayCall, Goto
<1>4. ASSUME NEW s \in Threads, NEW k, NEW r, LogCall(s, k, r)
      PROVE  \/ calls'[t] > calls[t]
             \/ calls'[t] = calls[t] /\ rows'[t] <= rows[t] /\ pc'[t] = pc[t]
  BY <1>1, <1>2, <1>4 DEF LogCall, MayCall, Goto
<1>5. ASSUME NEW s \in Threads,
             \/ CheckEnabled(s) \/ TagLevel(s) \/ Put(s) \/ CopyTail(s)
             \/ CopyChunk(s) \/ CopyReset(s) \/ Leave(s) \/ FlushTest(s)
             \/ FlushOutput(s) \/ FlushReset(s) \/ LockUse(s)
      PROVE  /\ calls' = calls /\ rows' = rows
             /\ pc'[t] \in SwitchPoints => pc[t] \in SwitchPoints
  BY <1>1, <1>5
     DEF CheckEnabled, TagLevel, Put, CopyTail, CopyChunk, CopyReset, AfterPut, Leave,
         FlushTest, FlushOutput, FlushReset, LockUse, outVars, Goto, SwitchPoints
<1>6. ASSUME NEW s \in Threads, Format(s)
      PROVE  /\ calls' = calls /\ rows'[t] <= rows[t]
             /\ pc'[t] \in SwitchPoints => pc[t] \in SwitchPoints
  <2>1. calls' = calls /\ (rows' = rows \/ rows' = [rows EXCEPT ![s] = @ - 1])
    BY <1>6 DEF Format
  <2>2. pc'[t] \in SwitchPoints => pc[t] \in SwitchPoints
    BY <1>1, <1>6 DEF Format, Goto, SwitchPoints
  <2> QED
    BY <1>1, <2>1, <2>2
<1>7. ASSUME NEW s \in Threads, NEW on \in BOOLEAN, SwitchBuffered(s, on)
      PROVE  /\ calls' = calls
             /\ pc[t] \in SwitchPoints \/ (rows'[t] = rows[t] /\ pc'[t] = pc[t])
  <2>1. /\ calls' = calls /\ pc[s] \in SwitchPoints
        /\ pc' = [pc EXCEPT ![s] = "check"] /\ rows' = [rows EXCEPT ![s] = 1]
    BY <1>7 DEF SwitchBuffered, Goto, SwitchPoints
  <2> QED
    BY <1>1, <2>1
<1>8. CASE UNCHANGED elogVars
  BY <1>1, <1>8 DEF elogVars, outVars
<1> QED
  BY <1>1, <1>3, <1>4, <1>5, <1>6, <1>7, <1>8 DEF SwitchNext, SteadyNext, NewCall, RunStep

\* The stream is a sequence of cells.
LEMMA StreamIsSeq == ElogIInv => Stream \in Seq(Cells)
<1> SUFFICES ASSUME ElogIInv
             PROVE  Stream \in Seq(Cells)
  OBVIOUS
<1>1. /\ device \in Seq(Cells) /\ buf \in Seq(Cells) /\ <<>> \in Seq(Cells)
      /\ \A t \in Threads : RestOf(t) \in Seq(Cells)
  BY PartsAreSeqs, EmptySeq
<1>2. Pending \in Seq(Cells)
  BY <1>1 DEF Pending
<1>3. InFlight \in Seq(Cells)
  <2>1. CASE \E t \in Threads : pc[t] \in {"put", "copy", "reset"}
    <3>1. (CHOOSE t \in Threads : pc[t] \in {"put", "copy", "reset"}) \in Threads
      BY <2>1
    <3> QED
      BY <1>1, <2>1, <3>1 DEF InFlight
  <2> QED
    BY <1>1, <2>1 DEF InFlight
<1> QED
  BY <1>1, <1>2, <1>3, ConcatProperties DEF Stream

\* Overtaking leaves the stream the cells it has.
LEMMA OvertakenCells ==
  ASSUME ElogIInv, Overtakes
  PROVE  CellsIn(Stream') = CellsIn(Stream)
<1>1. device \in Seq(Cells) /\ buf \in Seq(Cells) /\ line \in Seq(Cells)
  BY PartsAreSeqs
<1>2. device \o buf \in Seq(Cells) /\ device \o line \in Seq(Cells)
  BY <1>1, ConcatProperties
<1> DEFINE behind == device \o buf
           ahead == device \o line
<1>3. CellsIn(behind \o line) = CellsIn(device) \cup CellsIn(buf) \cup CellsIn(line)
  <2>1. CellsIn(behind) = CellsIn(device) \cup CellsIn(buf) /\ behind \in Seq(Cells)
    BY <1>1, <1>2, CellsOfConcat
  <2> HIDE DEF behind
  <2> QED
    BY <1>1, <2>1, CellsOfConcat
<1>4. CellsIn(ahead \o buf) = CellsIn(device) \cup CellsIn(line) \cup CellsIn(buf)
  <2>1. CellsIn(ahead) = CellsIn(device) \cup CellsIn(line) /\ ahead \in Seq(Cells)
    BY <1>1, <1>2, CellsOfConcat
  <2> HIDE DEF ahead
  <2> QED
    BY <1>1, <2>1, CellsOfConcat
<1>5. CellsIn(device \o line \o buf) = CellsIn(device \o buf \o line)
  BY <1>3, <1>4
<1> QED
  BY <1>5 DEF Overtakes

\* What has been printed stays so.
LEMMA PrintedStep ==
  ElogIInv /\ ElogIInv' /\ Printed /\ [SwitchNext]_elogVars => Printed'
<1> SUFFICES ASSUME ElogIInv, ElogIInv', Printed, [SwitchNext]_elogVars
             PROVE  Printed'
  OBVIOUS
<1>1. /\ calls \in [Threads -> 0 .. MaxCalls] /\ rows \in [Threads -> 0 .. MaxRows]
      /\ calls' \in [Threads -> 0 .. MaxCalls] /\ rows' \in [Threads -> 0 .. MaxRows]
      /\ MaxCalls \in Nat /\ MaxRows \in Nat
  BY ElogAssumption DEF ElogIInv, ElogTypeOK
<1>2. ASSUME NEW c \in CellsIn(Stream), NEW t \in Threads, c.by = t
      PROVE  /\ c.call <= calls'[t]
             /\ c.call = calls'[t] => c.row > rows'[t] /\ pc'[t] \notin SwitchPoints
  <2>1. c.call \in Nat /\ c.row \in Nat
    BY StreamIsSeq, CellsInSeq, CellType
  <2>2. /\ c.call <= calls[t]
        /\ c.call = calls[t] => c.row > rows[t] /\ pc[t] \notin SwitchPoints
    BY <1>2 DEF Printed
  <2>3. \/ calls'[t] > calls[t]
        \/ /\ calls'[t] = calls[t] /\ rows'[t] <= rows[t]
           /\ pc'[t] \in SwitchPoints => pc[t] \in SwitchPoints
        \/ calls'[t] = calls[t] /\ pc[t] \in SwitchPoints
    BY StepAges
  <2>4. calls[t] \in Nat /\ calls'[t] \in Nat /\ rows[t] \in Nat /\ rows'[t] \in Nat
    BY <1>1
  <2>5. CASE calls'[t] > calls[t]
    BY <2>1, <2>2, <2>4, <2>5
  <2>6. CASE /\ calls'[t] = calls[t] /\ rows'[t] <= rows[t]
             /\ pc'[t] \in SwitchPoints => pc[t] \in SwitchPoints
    BY <2>1, <2>2, <2>4, <2>6
  <2>7. CASE calls'[t] = calls[t] /\ pc[t] \in SwitchPoints
    BY <2>2, <2>7
  <2> QED
    BY <2>3, <2>5, <2>6, <2>7
<1>3. CASE CellsIn(Stream') \subseteq CellsIn(Stream)
  BY <1>2, <1>3 DEF Printed
<1>4. CASE Overtakes
  BY <1>3, <1>4, OvertakenCells
<1>5. ASSUME NEW s \in Threads, Accepts(s)
      PROVE  Printed'
  <2>1. PICK n \in LineLens : Stream' = Stream \o LineOf(s, calls[s], rows[s], n)
    BY <1>5 DEF Accepts
  <2> DEFINE l == LineOf(s, calls[s], rows[s], n)
  <2>2. /\ l \in Seq(Cells)
        /\ \A c \in CellsIn(l) : c.by = s /\ c.call = calls[s] /\ c.row = rows[s]
    BY <1>5, LineOrdered DEF Accepts
  <2>3. CellsIn(Stream') = CellsIn(Stream) \cup CellsIn(l)
    BY <2>1, <2>2, StreamIsSeq, CellsOfConcat
  <2>4. calls' = calls /\ rows'[s] = rows[s] - 1 /\ pc'[s] \notin SwitchPoints
    <3>1. pc \in [Threads -> Points]
      BY DEF ElogIInv, ElogTypeOK
    <3> QED
      BY <1>1, <1>5, <3>1 DEF Accepts, Format, Goto, SwitchPoints
  <2> HIDE DEF l
  <2>5. \A c \in CellsIn(l) : /\ c.by = s /\ c.call = calls'[s]
                              /\ c.row > rows'[s] /\ c.call <= calls'[s]
    BY <1>1, <2>2, <2>4
  <2> QED
    BY <1>2, <2>3, <2>4, <2>5 DEF Printed
<1> QED
  BY <1>3, <1>4, <1>5, StreamStep

\* A new line is ordered and of none of the lines in the stream; the line that
\* overtakes the buffer has no cell there.
LEMMA OrderStep ==
  ElogIInv /\ ElogIInv' /\ Printed /\ Ordered(Stream) /\ [SwitchNext]_elogVars
     => Ordered(Stream')
<1> SUFFICES ASSUME ElogIInv, ElogIInv', Printed, Ordered(Stream), [SwitchNext]_elogVars
             PROVE  Ordered(Stream')
  OBVIOUS
<1>1. Stream \in Seq(Cells) /\ CellsIn(Stream) \subseteq Cells
  BY StreamIsSeq, CellsInSeq
<1>2. ASSUME NEW t \in Threads, Accepts(t)
      PROVE  Ordered(Stream')
  <2>1. PICK n \in LineLens : Stream' = Stream \o LineOf(t, calls[t], rows[t], n)
    BY <1>2 DEF Accepts
  <2> DEFINE l == LineOf(t, calls[t], rows[t], n)
  <2>2. /\ l \in Seq(Cells) /\ Ordered(l)
        /\ \A c \in CellsIn(l) : c.by = t /\ c.call = calls[t] /\ c.row = rows[t]
    BY <1>2, LineOrdered DEF Accepts
  <2> HIDE DEF l
  <2>3. ASSUME NEW c \in CellsIn(Stream), NEW d \in CellsIn(l)
        PROVE  ~SameLine(c, d)
    <3>1. SUFFICES ASSUME SameLine(c, d)
                   PROVE  FALSE
      OBVIOUS
    <3>2. c \in Cells /\ d \in Cells
      BY <1>1, <2>2, CellsInSeq
    <3>3. c.by = d.by /\ c.call = d.call /\ c.row = d.row
      BY <3>1, <3>2, CellType DEF SameLine
    <3>4. c.row > rows[t] /\ c.row = rows[t] /\ rows[t] \in Nat
      BY <1>2, <2>2, <3>3, ElogAssumption DEF Printed, Accepts
    <3> QED
      BY <3>4
  <2> QED
    BY <1>1, <2>1, <2>2, <2>3, OrderedConcat DEF Before, l
<1>3. CASE Overtakes
  <2>1. device \in Seq(Cells) /\ buf \in Seq(Cells) /\ line \in Seq(Cells)
    BY PartsAreSeqs
  <2>2. device \o buf \in Seq(Cells) /\ device \o line \in Seq(Cells)
    BY <2>1, ConcatProperties
  <2>3. /\ CellsIn(device \o buf) = CellsIn(device) \cup CellsIn(buf)
        /\ CellsIn(device \o line) = CellsIn(device) \cup CellsIn(line)
    BY <2>1, CellsOfConcat
  <2>4. /\ Ordered(device) /\ Ordered(buf) /\ Ordered(line)
        /\ \A c \in CellsIn(device), d \in CellsIn(buf) : Before(c, d)
        /\ \A c \in CellsIn(device), d \in CellsIn(line) : Before(c, d)
        /\ \A c \in CellsIn(buf), d \in CellsIn(line) : Before(c, d)
    <3>1. /\ Ordered(device \o buf) /\ Ordered(line)
          /\ \A c \in CellsIn(device \o buf), d \in CellsIn(line) : Before(c, d)
      BY <1>3, <2>1, <2>2, OrderedConcat DEF Overtakes
    <3>2. /\ Ordered(device) /\ Ordered(buf)
          /\ \A c \in CellsIn(device), d \in CellsIn(buf) : Before(c, d)
      BY <2>1, <3>1, OrderedConcat
    <3> QED
      BY <2>3, <3>1, <3>2
  <2>5. ASSUME NEW c \in CellsIn(line), NEW d \in CellsIn(buf)
        PROVE  ~SameLine(c, d)
    <3>1. SUFFICES ASSUME SameLine(c, d)
                   PROVE  FALSE
      OBVIOUS
    <3>2. c \in Cells /\ d \in Cells
      BY <2>1, CellsInSeq
    <3>3. line # <<>>
      BY EmptySeq DEF CellsIn
    <3>4. PICK t \in Threads, k \in 1 .. MaxCalls, r \in 1 .. MaxRows, n \in LineLens :
               line = LineOf(t, k, r, n)
      BY <3>3 DEF ElogIInv, ElogTypeOK, Lines
    <3>5. line[1] \in CellsIn(line) /\ line[1].pos = 1 /\ SameLine(c, line[1])
      BY <3>4, LineOrdered
    <3>6. line[1] \in Cells
      BY <2>1, <3>5, CellsInSeq
    <3>7. SameLine(d, line[1])
      BY <3>1, <3>2, <3>5, <3>6, SameLineSymmetric, SameLineTransitive
    <3>8. d.pos < 1 /\ d.pos \in Nat \ {0}
      BY <2>4, <3>2, <3>5, <3>7, CellType DEF Before
    <3> QED
      BY <3>8
  <2>6. Ordered(device \o line)
    BY <2>1, <2>4, OrderedConcat
  <2>7. \A c \in CellsIn(device \o line), d \in CellsIn(buf) : Before(c, d)
    BY <2>3, <2>4, <2>5 DEF Before
  <2> QED
    BY <1>3, <2>1, <2>2, <2>4, <2>6, <2>7, OrderedConcat DEF Overtakes
<1> QED
  BY <1>2, <1>3, StreamStep

\* At first the stream is empty.
LEMMA SwitchStart == ElogInit(FALSE, FALSE) => Printed /\ Ordered(Stream)
<1> SUFFICES ASSUME ElogInit(FALSE, FALSE)
             PROVE  Printed /\ Ordered(Stream)
  OBVIOUS
<1>1. Pending = <<>> /\ InFlight = <<>> /\ device = <<>>
  BY DEF ElogInit, Pending, InFlight
<1>2. Stream = <<>>
  BY <1>1, EmptySeq, ConcatEmptySeq DEF Stream
<1>3. Len(Stream) = 0 /\ CellsIn(Stream) = {}
  BY <1>2, EmptySeq DEF CellsIn
<1> QED
  BY <1>3 DEF Printed, Ordered

\* However elog_start and elog_stop race with the log calls of any number of
\* threads, no part of an accepted line is output twice or before an earlier
\* part of it, although lines overtake each other (elog_buf.c:57-76).
THEOREM LinesKeepOrder == SwitchSpec => []LinesInOrder
<1>1. Ordered(Stream) => LinesInOrder
  BY DEF Ordered, Before, SameLine, LinesInOrder
<1>2. ElogIInv /\ ElogIInv' /\ Printed /\ Ordered(Stream) /\ [SwitchNext]_elogVars
         => (Printed /\ Ordered(Stream))'
  BY PrintedStep, OrderStep
<1>3. SwitchSpec => []Ordered(Stream)
  BY <1>2, SwitchStart, ElogSwitchInvariance, PTL DEF SwitchSpec
<1> QED
  BY <1>1, <1>3, PTL

\* Nor is any part of an accepted line lost when the mode is switched: it stays
\* on the way to the device or on it.
THEOREM NothingIsLost == SwitchSpec => NothingLost
<1>1. ASSUME ElogIInv, ElogIInv', [SwitchNext]_elogVars
      PROVE  CellsIn(Stream) \subseteq CellsIn(Stream')
  <2>1. CASE Overtakes
    BY <1>1, <2>1, OvertakenCells
  <2>2. ASSUME NEW t \in Threads, Accepts(t)
        PROVE  CellsIn(Stream) \subseteq CellsIn(Stream')
    <3>1. PICK n \in LineLens : Stream' = Stream \o LineOf(t, calls[t], rows[t], n)
      BY <2>2 DEF Accepts
    <3>2. LineOf(t, calls[t], rows[t], n) \in Seq(Cells)
      BY <2>2, LineOrdered DEF Accepts
    <3> QED
      BY <1>1, <3>1, <3>2, StreamIsSeq, CellsOfConcat
  <2> QED
    BY <1>1, <2>1, <2>2, StreamStep
<1>2. ElogIInv /\ ElogIInv' /\ [SwitchNext]_elogVars
         => [CellsIn(Stream) \subseteq CellsIn(Stream')]_elogVars
  BY <1>1
<1> QED
  BY <1>2, ElogSwitchInvariance, PTL DEF SwitchSpec, NothingLost
=============================================================================
