----------------------------- MODULE MC_Whisper -----------------------------
(* Model values for the Whisper module: the whisperer w (connected, and a *)
(* target of its own session), a known client without a connection c1,   *)
(* an id the server does not know c2, and two source streams.             *)
EXTENDS Whisper

CONSTANTS w, c1, c2, st1, st2

MC_Clients == {w, c1, c2}
MC_Known == {w, c1}
MC_Connected == {w}
MC_Streams == {st1, st2}
=============================================================================
