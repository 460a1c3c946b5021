-------------------------------- MODULE Elog --------------------------------
(***************************************************************************)
(* EasyLogger's output path (elog.c, elog_buf.c): several contexts call    *)
(* elog_output, elog_raw_output, elog_hexdump and elog_flush, which share  *)
(* the static line buffer of elog.c and the output buffer of elog_buf.c    *)
(* under the output lock, while elog_start and elog_stop switch the output *)
(* and the buffered mode without it.                                       *)
(*                                                                         *)
(* A log line is a sequence of cells, each naming its line and position.   *)
(* What a line says is abstracted away, and so is what the level, tag and  *)
(* keyword filters decide: ElogFilter models that decision.                *)
(***************************************************************************)
EXTENDS ElogLock, Sequences

CONSTANTS
    BufSize,     \* ELOG_BUF_OUTPUT_BUF_SIZE, in cells
    LineLens,    \* lengths a formatted line can have, in cells
    MaxCalls,    \* bound: calls each thread makes
    MaxRows      \* bound: lines one elog_hexdump prints

VARIABLES
    output_enabled,
    is_enabled,      \* buffered output mode, elog_buf.c
    line,            \* the line buffer, log_buf of elog.c
    buf,             \* log_buf of elog_buf.c up to buf_write_size
    device,          \* everything elog_port_output was given
    pc,              \* where each thread is in its call
    kind,            \* which function it called
    rows,            \* lines its call has still to print
    write_index,     \* cells of the line already copied, elog_buf_output
    calls,           \* calls each thread has made
    goal             \* history: what a flush has to deliver

outVars == <<output_enabled, is_enabled, line, buf, device, pc, kind, rows,
             write_index, calls, goal>>
elogVars == <<lockVars, outVars>>

ASSUME ElogAssumption ==
    /\ BufSize \in Nat \ {0}
    /\ LineLens \subseteq Nat \ {0}
    /\ MaxCalls \in Nat
    /\ MaxRows \in Nat \ {0}

\* "start" and "stop" are the elog_output of the banner of elog_start, elog_stop.
OutputKinds == {"output", "start", "stop"}
Kinds == OutputKinds \cup {"raw", "dump"}

\* "check": testing output_enabled; "level": reading the tag's level; "log":
\* taking the lock and formatting; "put", "copy", "reset": elog_buf_output;
\* "leave": unlocking; the last five are elog_flush, elog_start, elog_stop.
Points == {"idle", "check", "level", "log", "put", "copy", "reset", "leave",
           "flushtest", "flush", "flushreset", "start", "stop"}

\* The points at which a thread asks for the lock, those it holds it at.
LockingPoints == {"level", "log", "flush"}
InsidePoints == {"put", "copy", "reset", "leave", "flushreset"}

\* The cells of row r of call c of thread t, n cells long.
Cell(t, c, r, n, i) == [by |-> t, call |-> c, row |-> r, of |-> n, pos |-> i]
LineOf(t, c, r, n) == [i \in 1 .. n |-> Cell(t, c, r, n, i)]

Lines == {LineOf(t, c, r, n) : t \in Threads, c \in 1 .. MaxCalls,
                               r \in 1 .. MaxRows, n \in LineLens}

CellsIn(s) == {s[i] : i \in 1 .. Len(s)}

\* The cells of the line the thread has not copied yet.
RestOf(t) == SubSeq(line, write_index[t] + 1, Len(line))

Goto(t, point) == pc' = [pc EXCEPT ![t] = point]

-----------------------------------------------------------------------------

\* After elog_init, with output and buffered mode as the parameters say.
ElogInit(output, buffered) ==
    /\ LockInit
    /\ output_enabled = output
    /\ is_enabled = buffered
    /\ line = <<>> /\ buf = <<>> /\ device = <<>>
    /\ pc = [t \in Threads |-> "idle"]
    /\ kind = [t \in Threads |-> "output"]
    /\ rows = [t \in Threads |-> 0]
    /\ write_index = [t \in Threads |-> 0]
    /\ calls = [t \in Threads |-> 0]
    /\ goal = [t \in Threads |-> {}]

\* A thread between calls may make another.
MayCall(t) ==
    /\ pc[t] = "idle" /\ At(t, "out")
    /\ calls[t] < MaxCalls
    /\ calls' = [calls EXCEPT ![t] = @ + 1]

\* A log call is entered; a dump prints as many lines as its size takes.
LogCall(t, k, r) ==
    /\ MayCall(t)
    /\ Goto(t, "check")
    /\ kind' = [kind EXCEPT ![t] = k]
    /\ rows' = [rows EXCEPT ![t] = r]
    /\ UNCHANGED <<lockVars, output_enabled, is_enabled, line, buf, device,
                   write_index, goal>>

\* if (!elog.output_enabled) return, then the filters that need no lock; raw
\* output is not filtered, elog_output goes on to the tag's own level.
CheckEnabled(t) ==
    /\ pc[t] = "check"
    /\ \/ ~output_enabled /\ Goto(t, "idle")
       \/ output_enabled /\ kind[t] # "raw" /\ Goto(t, "idle")
       \/ output_enabled /\ kind[t] \in OutputKinds /\ Goto(t, "level")
       \/ output_enabled /\ kind[t] \notin OutputKinds /\ Goto(t, "log")
    /\ UNCHANGED <<lockVars, output_enabled, is_enabled, line, buf, device,
                   kind, rows, write_index, calls, goal>>

\* An early return that keeps the lock when the tag's level rejects the line.
TagLevel_KeepsLock(t) ==
    /\ pc[t] = "level"
    /\ \/ UnlockTest(t) /\ Goto(t, "log")
       \/ At(t, "in") /\ GoTo(t, "out") /\ Goto(t, "idle")
          /\ UNCHANGED <<port, output_lock_enabled, locked_before_enable,
                         locked_before_disable>>
    /\ UNCHANGED <<output_enabled, is_enabled, line, buf, device, kind, rows,
                   write_index, calls, goal>>

\* elog_get_filter_tag_lvl reads the level and unlocks; the line is rejected
\* or goes on to take the lock a second time.
TagLevel(t) ==
    /\ pc[t] = "level"
    /\ UnlockTest(t)
    /\ Goto(t, "log") \/ Goto(t, "idle")
    /\ UNCHANGED <<output_enabled, is_enabled, line, buf, device, kind, rows,
                   write_index, calls, goal>>

\* The lock functions of ElogLock, where the call asks for the lock or has
\* just released it.
LockUse(t) ==
    /\ \/ pc[t] \in LockingPoints /\ LockTest(t)
       \/ LockStep(t)
    /\ UNCHANGED outVars

\* A line is formatted into the shared buffer; elog_output drops it if the
\* keyword is not in it; a dump leaves when its rows are printed.
Format(t) ==
    /\ pc[t] = "log" /\ At(t, "in")
    /\ \/ /\ rows[t] > 0
          /\ \E n \in LineLens : line' = LineOf(t, calls[t], rows[t], n)
          /\ \/ Goto(t, "put")
             \/ kind[t] \in OutputKinds /\ Goto(t, "leave")
          /\ rows' = [rows EXCEPT ![t] = @ - 1]
          /\ write_index' = [write_index EXCEPT ![t] = 0]
       \/ /\ rows[t] = 0
          /\ Goto(t, "leave")
          /\ UNCHANGED <<line, rows, write_index>>
    /\ UNCHANGED <<lockVars, output_enabled, is_enabled, buf, device, kind,
                   calls, goal>>

\* elog_buf_output returns: the call unlocks, or goes on with the next row.
AfterPut(t) == IF kind[t] = "dump" THEN "log" ELSE "leave"

\* elog_buf_output, the test of is_enabled: output directly, or copy.
Put(t) ==
    /\ pc[t] = "put"
    /\ \/ /\ ~is_enabled
          /\ device' = device \o line
          /\ Goto(t, AfterPut(t))
       \/ /\ is_enabled
          /\ Goto(t, "copy")
          /\ UNCHANGED device
    /\ UNCHANGED <<lockVars, output_enabled, is_enabled, line, buf, kind, rows,
                   write_index, calls, goal>>

\* The size test is one cell too generous.
CopyTail_OffByOne(t) ==
    /\ pc[t] = "copy"
    /\ Len(buf) + Len(RestOf(t)) <= BufSize + 1
    /\ buf' = buf \o RestOf(t)
    /\ Goto(t, AfterPut(t))
    /\ UNCHANGED <<lockVars, output_enabled, is_enabled, line, device, kind,
                   rows, write_index, calls, goal>>

\* The line fits: it is copied behind what is buffered.
CopyTail(t) ==
    /\ pc[t] = "copy"
    /\ Len(buf) + Len(RestOf(t)) <= BufSize
    /\ buf' = buf \o RestOf(t)
    /\ Goto(t, AfterPut(t))
    /\ UNCHANGED <<lockVars, output_enabled, is_enabled, line, device, kind,
                   rows, write_index, calls, goal>>

\* CopyChunk, but the write index is not advanced past what was copied.
CopyChunk_NoAdvance(t) ==
    LET write_size == BufSize - Len(buf)
        chunk == SubSeq(line, write_index[t] + 1, write_index[t] + write_size)
    IN  /\ pc[t] = "copy"
        /\ Len(buf) + Len(RestOf(t)) > BufSize
        /\ buf' = buf \o chunk
        /\ device' = device \o buf \o chunk
        /\ Goto(t, "reset")
        /\ UNCHANGED <<lockVars, output_enabled, is_enabled, line, kind, rows,
                       write_index, calls, goal>>

\* The line does not fit: the buffer is filled up and given to the device.
CopyChunk(t) ==
    LET write_size == BufSize - Len(buf)
        chunk == SubSeq(line, write_index[t] + 1, write_index[t] + write_size)
    IN  /\ pc[t] = "copy"
        /\ Len(buf) + Len(RestOf(t)) > BufSize
        /\ buf' = buf \o chunk
        /\ device' = device \o buf \o chunk
        /\ write_index' = [write_index EXCEPT ![t] = @ + write_size]
        /\ Goto(t, "reset")
        /\ UNCHANGED <<lockVars, output_enabled, is_enabled, line, kind, rows,
                       calls, goal>>

\* buf_write_size = 0
CopyReset(t) ==
    /\ pc[t] = "reset"
    /\ buf' = <<>>
    /\ Goto(t, "copy")
    /\ UNCHANGED <<lockVars, output_enabled, is_enabled, line, device, kind,
                   rows, write_index, calls, goal>>

\* elog_output_unlock at the end of a log call or of elog_flush.
Leave(t) ==
    /\ pc[t] = "leave"
    /\ UnlockTest(t)
    /\ Goto(t, "idle")
    /\ UNCHANGED <<output_enabled, is_enabled, line, buf, device, kind, rows,
                   write_index, calls, goal>>

-----------------------------------------------------------------------------
\* elog_flush

\* A flush is asked to deliver what the buffer holds when it is called.
FlushCall(t) ==
    /\ MayCall(t)
    /\ Goto(t, "flushtest")
    /\ goal' = [goal EXCEPT ![t] = CellsIn(buf)]
    /\ UNCHANGED <<lockVars, output_enabled, is_enabled, line, buf, device,
                   kind, rows, write_index>>

\* if (buf_write_size == 0) return, read without the lock.
FlushTest(t) ==
    /\ pc[t] = "flushtest"
    /\ Goto(t, IF buf = <<>> THEN "idle" ELSE "flush")
    /\ UNCHANGED <<lockVars, output_enabled, is_enabled, line, buf, device,
                   kind, rows, write_index, calls, goal>>

\* buf_write_size is reset before it is used as the size to output.
FlushOutput_AfterReset(t) ==
    /\ pc[t] = "flush" /\ At(t, "in")
    /\ buf' = <<>>
    /\ Goto(t, "flushreset")
    /\ UNCHANGED <<lockVars, output_enabled, is_enabled, line, device, kind,
                   rows, write_index, calls, goal>>

\* elog_port_output(log_buf, buf_write_size)
FlushOutput(t) ==
    /\ pc[t] = "flush" /\ At(t, "in")
    /\ device' = device \o buf
    /\ Goto(t, "flushreset")
    /\ UNCHANGED <<lockVars, output_enabled, is_enabled, line, buf, kind, rows,
                   write_index, calls, goal>>

\* buf_write_size = 0
FlushReset(t) ==
    /\ pc[t] = "flushreset"
    /\ buf' = <<>>
    /\ Goto(t, "leave")
    /\ UNCHANGED <<lockVars, output_enabled, is_enabled, line, device, kind,
                   rows, write_index, calls, goal>>

-----------------------------------------------------------------------------
\* elog_start and elog_stop, called after elog_init

\* elog_set_output_enabled, the first thing both do.
SwitchOutput(t, on) ==
    /\ MayCall(t)
    /\ output_enabled' = on
    /\ Goto(t, IF on THEN "start" ELSE "stop")
    /\ UNCHANGED <<lockVars, is_enabled, line, buf, device, kind, rows,
                   write_index, goal>>

\* Switching the buffered mode throws away what is buffered.
SwitchBuffered_Drops(t, on) ==
    /\ pc[t] = IF on THEN "start" ELSE "stop"
    /\ is_enabled' = on
    /\ buf' = <<>>
    /\ Goto(t, "check")
    /\ kind' = [kind EXCEPT ![t] = pc[t]]
    /\ rows' = [rows EXCEPT ![t] = 1]
    /\ UNCHANGED <<lockVars, output_enabled, line, device, write_index,
                   calls, goal>>

\* elog_buf_enabled, then the banner is logged with log_i.
SwitchBuffered(t, on) ==
    /\ pc[t] = IF on THEN "start" ELSE "stop"
    /\ is_enabled' = on
    /\ Goto(t, "check")
    /\ kind' = [kind EXCEPT ![t] = pc[t]]
    /\ rows' = [rows EXCEPT ![t] = 1]
    /\ UNCHANGED <<lockVars, output_enabled, line, buf, device, write_index,
                   calls, goal>>

-----------------------------------------------------------------------------

NewCall(t) ==
    \/ \E k \in {"output", "raw", "dump"}, r \in 0 .. MaxRows :
          /\ k = "dump" \/ r = 1
          /\ LogCall(t, k, r)
    \/ FlushCall(t)

\* Steps of a call that do not wait for another thread.
RunStep(t) ==
    \/ CheckEnabled(t) \/ TagLevel(t) \/ Format(t)
    \/ Put(t) \/ CopyTail(t) \/ CopyChunk(t) \/ CopyReset(t) \/ Leave(t)
    \/ FlushTest(t) \/ FlushOutput(t) \/ FlushReset(t)

\* Logging and flushing, with the output mode left alone.
SteadyNext == \E t \in Threads : NewCall(t) \/ RunStep(t) \/ LockUse(t)

\* The same with elog_start and elog_stop called as well.
SwitchNext ==
    \/ SteadyNext
    \/ \E t \in Threads, on \in BOOLEAN : SwitchOutput(t, on) \/ SwitchBuffered(t, on)

\* Once called, a function keeps running, and the port lock is fair.
ElogFairness ==
    \A t \in Threads :
        /\ WF_elogVars(RunStep(t))
        /\ WF_elogVars(LockUse(t))
        /\ SF_elogVars(PortLock(t) /\ UNCHANGED outVars)

SteadySpec ==
    /\ \E buffered \in BOOLEAN : ElogInit(TRUE, buffered)
    /\ [][SteadyNext]_elogVars
FairSteadySpec == SteadySpec /\ ElogFairness

SwitchSpec == ElogInit(FALSE, FALSE) /\ [][SwitchNext]_elogVars

-----------------------------------------------------------------------------

ElogTypeOK ==
    /\ LockTypeOK
    /\ output_enabled \in BOOLEAN /\ is_enabled \in BOOLEAN
    /\ line \in Lines \cup {<<>>}
    /\ buf \in Seq(UNION {CellsIn(l) : l \in Lines}) /\ Len(buf) <= BufSize
    /\ device \in Seq(UNION {CellsIn(l) : l \in Lines})
    /\ pc \in [Threads -> Points]
    /\ kind \in [Threads -> Kinds]
    /\ rows \in [Threads -> 0 .. MaxRows]
    /\ write_index \in [Threads -> Nat]
    /\ calls \in [Threads -> 0 .. MaxCalls]
    /\ goal \in [Threads -> SUBSET UNION {CellsIn(l) : l \in Lines}]

\* What elog_buf.c still has to output: nothing between handing the buffer to
\* the device and resetting buf_write_size.
Pending ==
    IF \E t \in Threads : pc[t] \in {"reset", "flushreset"} THEN <<>> ELSE buf

\* The part of the line in progress not yet buffered or output.
InFlight ==
    IF \E t \in Threads : pc[t] \in {"put", "copy", "reset"}
    THEN RestOf(CHOOSE t \in Threads : pc[t] \in {"put", "copy", "reset"})
    ELSE <<>>

\* The log as one stream, whatever thread and buffer each part is in.
Stream == device \o Pending \o InFlight

Pipe == INSTANCE ElogPipe WITH stream <- Stream, device <- device

\* While the output mode is left alone, the output path implements ElogPipe:
\* the device receives whole lines in the order they were formatted, each
\* byte once, through partial copies, wraps of the buffer and flushes of
\* other threads (elog.c:516-732, elog_buf.c:54-94).
ImplementsPipe == Pipe!PipeSpec

\* elog_flush delivers: whatever was buffered when it was called has reached
\* the device when it returns, also when it returned early because it read
\* buf_write_size outside the lock (elog_buf.c:84).
FlushDelivers ==
    [][\A t \in Threads :
          (pc'[t] = "idle" /\ pc[t] \in {"flushtest", "leave"})
             => goal[t] \subseteq CellsIn(device)]_elogVars

\* However elog_start and elog_stop race with log calls, and although a line
\* output directly overtakes what is buffered, no part of an accepted line is
\* output twice or before an earlier part of it (elog_buf.c:57-76).
LinesInOrder ==
    \A j \in 1 .. Len(Stream) : \A i \in 1 .. j - 1 :
        Stream[i] = [Stream[j] EXCEPT !.pos = Stream[i].pos]
            => Stream[i].pos < Stream[j].pos

\* Nor is any part of it lost: what was accepted stays on the way to the
\* device or on it, across elog_stop too.
NothingLost == [][CellsIn(Stream) \subseteq CellsIn(Stream')]_elogVars

\* Every call returns.
LogReturns == \A t \in Threads : pc[t] # "idle" ~> pc[t] = "idle"
=============================================================================
