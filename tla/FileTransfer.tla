----------------------------- MODULE FileTransfer -----------------------------
(***************************************************************************)
(* What a transfer of numbered blocks promises its user: blocks arrive in  *)
(* any order and stay; once the transfer is over nothing arrives any more; *)
(* and a lossless transfer is not over before every block has arrived.     *)
(***************************************************************************)
EXTENDS Naturals

CONSTANT Blocks  \* number of blocks of the file

VARIABLES
  lossless,  \* must every block arrive
  have,      \* the blocks that have arrived
  over       \* the receiver has said that it is done

vars == <<lossless, have, over>>

Init == lossless \in BOOLEAN /\ have = {} /\ over = FALSE

Arrive == \E b \in 1 .. Blocks : have' = have \cup {b} /\ UNCHANGED over

Finish ==
  /\ \E b \in 1 .. Blocks : have' = have \cup {b}
  /\ lossless => have' = 1 .. Blocks
  /\ over' = TRUE

Next == ~over /\ (Arrive \/ Finish) /\ UNCHANGED lossless

Spec == Init /\ [][Next]_vars
=============================================================================
