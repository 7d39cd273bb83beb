------------------------------ MODULE LogSpec ------------------------------
(***************************************************************************)
(* What the xv6 log promises to file-system calls: their writes become     *)
(* durable all at once, only when no call is half way, and a crash leaves  *)
(* exactly the last durable state.                                         *)
(***************************************************************************)
EXTENDS Integers

CONSTANTS Blocks, Values

VARIABLES mem,       \* the blocks as calls see them
          durable,   \* the blocks a crash would leave
          active     \* calls between begin_op and end_op

absVars == <<mem, durable, active>>

AInit == /\ mem = [b \in Blocks |-> 0]
         /\ durable = mem
         /\ active = 0

Begin == active' = active + 1 /\ UNCHANGED <<mem, durable>>

Write(b, v) == /\ active > 0
               /\ mem' = [mem EXCEPT ![b] = v]
               /\ UNCHANGED <<durable, active>>

Finish == active > 0 /\ active' = active - 1 /\ UNCHANGED <<mem, durable>>

Commit == active = 0 /\ durable' = mem /\ UNCHANGED <<mem, active>>

Crash == mem' = durable /\ active' = 0 /\ UNCHANGED durable

ANext == \/ Begin \/ Finish \/ Commit \/ Crash
         \/ \E b \in Blocks, v \in Values : Write(b, v)

ASpec == AInit /\ [][ANext]_absVars
=============================================================================
