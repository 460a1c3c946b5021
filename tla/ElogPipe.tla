------------------------------ MODULE ElogPipe ------------------------------
(***************************************************************************)
(* What EasyLogger's output promises while its mode is left alone: the log *)
(* lines form one stream, to which each accepted line is appended whole,   *)
(* and the device has received a prefix of that stream.  Nothing on the    *)
(* device is lost, repeated, reordered or interleaved inside a line.       *)
(***************************************************************************)
EXTENDS Sequences, Naturals

CONSTANT Lines    \* the lines that can be logged, each a sequence of cells

VARIABLES
    stream,       \* the cells of every line accepted so far
    device        \* what elog_port_output has been given

pipeVars == <<stream, device>>

PipeInit ==
    /\ stream = <<>>
    /\ device = <<>>

\* A line is formatted and passes the filters.
Accept ==
    /\ \E l \in Lines : stream' = stream \o l
    /\ UNCHANGED device

\* More of the stream reaches the device.
Deliver ==
    /\ \E n \in Len(device) .. Len(stream) : device' = SubSeq(stream, 1, n)
    /\ UNCHANGED stream

PipeNext == Accept \/ Deliver

PipeSpec == PipeInit /\ [][PipeNext]_pipeVars
=============================================================================
