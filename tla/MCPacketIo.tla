----------------------------- MODULE MCPacketIo -----------------------------
(* PacketIo for TLC.                                                       *)
EXTENDS PacketIo

\* Two receivers hold or return buffers at once with the pipe, one with the Event, whose
\* notifications take two steps each.
TasksOf == [a \in {"pipe", "event"} |-> IF a = "pipe" THEN 2 ELSE 1]
===============================================================================
