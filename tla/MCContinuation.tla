--------------------------- MODULE MCContinuation ---------------------------
(***************************************************************************)
(* Instances of ChannelApplication in which c1 continues m1.               *)
(***************************************************************************)
EXTENDS MCChannelApplication

CONSTANTS m1, c1

OneTarget == [c \in {c1} |-> m1]
=============================================================================
