-------------------------------- MODULE Upload --------------------------------
(***************************************************************************)
(* What a file upload promises: the receiver's file grows by pieces, in    *)
(* order; the sender learns of the progress after the fact; and it stops   *)
(* when it knows that everything has arrived.                              *)
(***************************************************************************)
EXTENDS Naturals

CONSTANT Size  \* number of bytes of the file

VARIABLES
  stored,     \* number of bytes in the receiver's file
  disk,       \* the file: which byte of the original is at each position
  confirmed,  \* number of bytes the sender knows to have arrived
  over        \* the sender has stopped sending data

vars == <<stored, disk, confirmed, over>>

Init == stored = 0 /\ disk = [p \in 1 .. 0 |-> 0] /\ confirmed = 0 /\ over = FALSE

Store ==
  /\ \E n \in stored + 1 .. Size : stored' = n
  /\ disk' = [p \in 1 .. stored' |-> p]
  /\ UNCHANGED <<confirmed, over>>

Confirm ==
  /\ ~over
  /\ confirmed' \in confirmed .. stored
  /\ over' = (confirmed' = Size)
  /\ UNCHANGED <<stored, disk>>

Next == Store \/ Confirm

Spec == Init /\ [][Next]_vars
=============================================================================
