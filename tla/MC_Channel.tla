----------------------------- MODULE MC_Channel -----------------------------
EXTENDS Channel, TLC

CONSTANTS c1, c2, c3, s1, s2, screen

MC_Clients2 == {c1, c2}
MC_Clients3 == {c1, c2, c3}
MC_Streams1 == {s1}
MC_Modes == {screen}
MC_NoModes == {}
=============================================================================
