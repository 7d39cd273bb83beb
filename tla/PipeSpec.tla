------------------------------ MODULE PipeSpec ------------------------------
(***************************************************************************)
(* What a pipe promises: a bounded FIFO of bytes with two ends.  Bytes are *)
(* put at the tail while the pipe has room, taken from the head in order,  *)
(* and never lost, duplicated or invented; a closed end stays closed.      *)
(***************************************************************************)
EXTENDS Integers, Sequences

CONSTANTS PIPESIZE, Bytes

VARIABLES queue, readEnd, writeEnd   \* the contents; is each end open?

absVars == <<queue, readEnd, writeEnd>>

AInit == queue = <<>> /\ readEnd = TRUE /\ writeEnd = TRUE

Put(b) == /\ writeEnd /\ Len(queue) < PIPESIZE
          /\ queue' = Append(queue, b)
          /\ UNCHANGED <<readEnd, writeEnd>>

Take == /\ readEnd /\ queue # <<>>
        /\ queue' = Tail(queue)
        /\ UNCHANGED <<readEnd, writeEnd>>

Close == /\ \/ readEnd /\ readEnd' = FALSE /\ UNCHANGED writeEnd
            \/ writeEnd /\ writeEnd' = FALSE /\ UNCHANGED readEnd
         /\ UNCHANGED queue

ANext == (\E b \in Bytes : Put(b)) \/ Take \/ Close

ASpec == AInit /\ [][ANext]_absVars
=============================================================================
