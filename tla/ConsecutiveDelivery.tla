------------------------- MODULE ConsecutiveDelivery -------------------------
(***************************************************************************)
(* What a receiving client of an audio stream is promised about the       *)
(* sequence numbers it is sent: after a reset (a new sender announces     *)
(* itself with a stop), the first packet may carry any number; from then *)
(* on every packet and every stop signal carries the number after the     *)
(* previous one, modulo 2^SeqBits.  A stop before the first packet keeps  *)
(* the receiver in its reset state.                                        *)
(***************************************************************************)
EXTENDS Naturals

CONSTANTS Receivers, SeqBits

Modulus == 2^SeqBits
Numbers == 0..(Modulus - 1)

VARIABLES
    last,   \* the number of the last packet or stop each receiver was sent
    phase   \* "none": no sender; "reset": no packet yet; "seq": in sequence

TypeOK ==
    /\ last \in [Receivers -> Numbers]
    /\ phase \in [Receivers -> {"none", "reset", "seq"}]

Init ==
    /\ last \in [Receivers -> Numbers]
    /\ phase = [r \in Receivers |-> "none"]

Successor(n) == (n + 1) % Modulus

\* A sender is created for r; it is reset, with any number
Join(r) ==
    /\ phase[r] = "none"
    /\ phase' = [phase EXCEPT ![r] = "reset"]
    /\ last' \in [Receivers -> Numbers]
    /\ \A x \in Receivers \ {r} : last'[x] = last[x]

Leave(r) ==
    /\ phase[r] # "none"
    /\ phase' = [phase EXCEPT ![r] = "none"]
    /\ UNCHANGED last

\* One packet to every receiver in S
Packet(S) ==
    /\ S # {} /\ \A r \in S : phase[r] # "none"
    /\ phase' = [r \in Receivers |-> IF r \in S THEN "seq" ELSE phase[r]]
    /\ last' \in [Receivers -> Numbers]
    /\ \A r \in Receivers :
          \/ r \in S /\ phase[r] = "reset"
          \/ r \in S /\ phase[r] = "seq" /\ last'[r] = Successor(last[r])
          \/ r \notin S /\ last'[r] = last[r]

\* One stop signal to every receiver in S
Stop(S) ==
    /\ S # {} /\ \A r \in S : phase[r] # "none"
    /\ UNCHANGED phase
    /\ last' \in [Receivers -> Numbers]
    /\ \A r \in Receivers :
          \/ r \in S /\ phase[r] = "reset"
          \/ r \in S /\ phase[r] = "seq" /\ last'[r] = Successor(last[r])
          \/ r \notin S /\ last'[r] = last[r]

Next ==
    \/ \E r \in Receivers : Join(r) \/ Leave(r)
    \/ \E S \in SUBSET Receivers : Packet(S) \/ Stop(S)

Spec == Init /\ [][Next]_<<last, phase>>
=============================================================================
