------------------------- MODULE MC_VideoBroadcast -------------------------
(* Model-checking instance of VideoBroadcast: two watchers, one bitrate. *)
(* The PLI interval is shorter than the                                   *)
(* keyframe interval, which is shorter than the timeout, as in the code   *)
(* (500 ms < 7 s, 5 s).                                                   *)
EXTENDS VideoBroadcast, TLC

CONSTANTS v1, v2

MC_Clients == {v1, v2}

=============================================================================
