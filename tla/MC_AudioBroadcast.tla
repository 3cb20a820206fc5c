------------------------- MODULE MC_AudioBroadcast -------------------------
(* Model-checking instance of AudioBroadcast: one RTP receiver, two native *)
(* receivers and one client without a connection, a clock of 5 units.       *)
EXTENDS AudioBroadcast, TLC

CONSTANTS c1, c2, c3, c4

MC_Clients == {c1, c2, c3, c4}
MC_RtpClients == {c1}
MC_NativeClients == {c2, c3}
\* the two native receivers are interchangeable
MC_Symmetry == Permutations(MC_NativeClients)
=============================================================================
