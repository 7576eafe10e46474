------------------------------ MODULE MCGpuQueue ------------------------------
(* A frame of four commands, two of them the draw environments of             *)
(* SwapBuffers80040370, which share a packet.                                 *)
EXTENDS GpuQueue

MCFrame == <<"env", "env", "clear", "table">>
===============================================================================
