------------------------------- MODULE Barrier -------------------------------
(***************************************************************************)
(* The pthread barrier of hw07 (hw07-assignment/barrier.c).                *)
(*                                                                         *)
(* barrier_wait counts the caller under one mutex, seen_lock, and tests    *)
(* the count under another one, wall, which is also the mutex of the       *)
(* condition variable.  The count is therefore read while another thread   *)
(* may be writing it; the model keeps every lock operation, the load and   *)
(* the store of seen++ and the two halves of pthread_cond_wait apart.      *)
(***************************************************************************)
EXTENDS Integers, FiniteSets

CONSTANTS Threads,   \* the callers: make_barrier(nn) is given their number
          NoThread   \* the owner of a free mutex

ASSUME ThreadsAssumption == IsFiniteSet(Threads)
ASSUME NoThreadAssumption == NoThread \notin Threads

VARIABLES pc,        \* where each thread is inside barrier_wait
          seen,      \* bb->seen
          loaded,    \* the value each thread read for its seen++
          seenLock,  \* owner of bb->seen_lock
          wall,      \* owner of bb->wall
          waiting    \* threads blocked in pthread_cond_wait(condvar, wall)

vars == <<pc, seen, loaded, seenLock, wall, waiting>>

count == Cardinality(Threads)

Labels == {"start", "load", "store", "unlockSeen", "lockWall", "test",
           "asleep", "relock", "broadcast", "unlockWall", "done"}

-----------------------------------------------------------------------------
(* make_barrier, with every thread about to call barrier_wait. *)
Init == /\ pc = [t \in Threads |-> "start"]
        /\ seen = 0
        /\ loaded = [t \in Threads |-> 0]
        /\ seenLock = NoThread
        /\ wall = NoThread
        /\ waiting = {}

Goto(t, label) == pc' = [pc EXCEPT ![t] = label]

(* A seen++ that is not protected: what the code would be without seen_lock. *)
LockSeenMutant(t) == /\ pc[t] = "start"
                     /\ Goto(t, "load")
                     /\ UNCHANGED <<seen, loaded, seenLock, wall, waiting>>

LockSeen(t) == /\ pc[t] = "start"
               /\ seenLock = NoThread
               /\ seenLock' = t
               /\ Goto(t, "load")
               /\ UNCHANGED <<seen, loaded, wall, waiting>>

LoadSeen(t) == /\ pc[t] = "load"
               /\ loaded' = [loaded EXCEPT ![t] = seen]
               /\ Goto(t, "store")
               /\ UNCHANGED <<seen, seenLock, wall, waiting>>

StoreSeen(t) == /\ pc[t] = "store"
                /\ seen' = loaded[t] + 1
                /\ Goto(t, "unlockSeen")
                /\ UNCHANGED <<loaded, seenLock, wall, waiting>>

UnlockSeen(t) == /\ pc[t] = "unlockSeen"
                 /\ seenLock' = NoThread
                 /\ Goto(t, "lockWall")
                 /\ UNCHANGED <<seen, loaded, wall, waiting>>

LockWall(t) == /\ pc[t] = "lockWall"
               /\ wall = NoThread
               /\ wall' = t
               /\ Goto(t, "test")
               /\ UNCHANGED <<seen, loaded, seenLock, waiting>>

(* An off-by-one in the loop condition: seen < count - 1. *)
TestPassesMutant(t) == /\ pc[t] = "test"
                       /\ seen >= count - 1
                       /\ Goto(t, "broadcast")
                       /\ UNCHANGED <<seen, loaded, seenLock, wall, waiting>>

(* The loop condition is false, and the test of the following if is true. *)
TestPasses(t) == /\ pc[t] = "test"
                 /\ seen >= count
                 /\ Goto(t, "broadcast")
                 /\ UNCHANGED <<seen, loaded, seenLock, wall, waiting>>

(* pthread_cond_wait: releases wall and blocks, in one step. *)
CondWait(t) == /\ pc[t] = "test"
               /\ seen < count
               /\ wall' = NoThread
               /\ waiting' = waiting \cup {t}
               /\ Goto(t, "asleep")
               /\ UNCHANGED <<seen, loaded, seenLock>>

(* A signalled thread leaves the condition variable and wants wall back.  *)
(* POSIX also lets it wake without a signal: a member of waiting may too. *)
Wake(t) == /\ pc[t] = "asleep"
           /\ waiting' = waiting \ {t}
           /\ Goto(t, "relock")
           /\ UNCHANGED <<seen, loaded, seenLock, wall>>

Relock(t) == /\ pc[t] = "relock"
             /\ wall = NoThread
             /\ wall' = t
             /\ Goto(t, "test")
             /\ UNCHANGED <<seen, loaded, seenLock, waiting>>

(* The broadcast left out. *)
BroadcastMutant(t) == /\ pc[t] = "broadcast"
                      /\ Goto(t, "unlockWall")
                      /\ UNCHANGED <<seen, loaded, seenLock, wall, waiting>>

Broadcast(t) == /\ pc[t] = "broadcast"
                /\ waiting' = {}
                /\ Goto(t, "unlockWall")
                /\ UNCHANGED <<seen, loaded, seenLock, wall>>

UnlockWall(t) == /\ pc[t] = "unlockWall"
                 /\ wall' = NoThread
                 /\ Goto(t, "done")
                 /\ UNCHANGED <<seen, loaded, seenLock, waiting>>

(* The steps the thread itself takes when it can. *)
Step(t) == \/ LockSeen(t) \/ LoadSeen(t) \/ StoreSeen(t) \/ UnlockSeen(t)
           \/ LockWall(t) \/ TestPasses(t) \/ CondWait(t)
           \/ Relock(t) \/ Broadcast(t) \/ UnlockWall(t)

(* A thread that has been signalled is runnable again. *)
WakeSignalled(t) == t \notin waiting /\ Wake(t)

Next == \E t \in Threads : Step(t) \/ Wake(t)

Spec == Init /\ [][Next]_vars

-----------------------------------------------------------------------------
(***************************************************************************)
(* Fairness: every thread is scheduled, a signalled thread wakes, and a    *)
(* mutex that is free again and again is eventually acquired.  Spurious    *)
(* wakeups are possible but never relied upon.                             *)
(***************************************************************************)
Fairness == \A t \in Threads : /\ WF_vars(Step(t))
                               /\ SF_vars(LockSeen(t))
                               /\ SF_vars(LockWall(t))
                               /\ SF_vars(Relock(t))
                               /\ WF_vars(WakeSignalled(t))

FairSpec == Spec /\ Fairness

-----------------------------------------------------------------------------
TypeOK == /\ pc \in [Threads -> Labels]
          /\ seen \in 0..count
          /\ loaded \in [Threads -> 0..count]
          /\ seenLock \in Threads \cup {NoThread}
          /\ wall \in Threads \cup {NoThread}
          /\ waiting \subseteq Threads

AfterStore == {"unlockSeen", "lockWall", "test", "asleep", "relock",
               "broadcast", "unlockWall", "done"}
Released == {"broadcast", "unlockWall", "done"}
InSeenLock == {"load", "store", "unlockSeen"}
InWall == {"test", "broadcast", "unlockWall"}

counted == {t \in Threads : pc[t] \in AfterStore}

(* Nobody is past the loop of line 38 before everybody's seen++ is done. *)
NobodyPassesEarly ==
    (\E t \in Threads : pc[t] \in Released) => counted = Threads

(* A thread about to store seen + 1 read the value seen still has. *)
LoadedIsFresh == \A t \in Threads : pc[t] = "store" => loaded[t] = seen

(* The two mutexes do exclude: each critical section has one thread, its owner. *)
MutualExclusion ==
    \A t \in Threads : /\ pc[t] \in InSeenLock => seenLock = t
                       /\ pc[t] \in InWall => wall = t

(* The count is exact: no increment of seen is ever lost or made twice. *)
SeenIsExact == seen = Cardinality(counted)

(***************************************************************************)
(* No lost wakeup, although the increment and the test are under different *)
(* mutexes: a full barrier with a sleeper has a runnable thread yet to broadcast.   *)
(***************************************************************************)
NoLostWakeup ==
    (seen >= count /\ waiting # {}) =>
        \E t \in Threads : \/ pc[t] \in {"unlockSeen", "lockWall", "test",
                                         "relock", "broadcast"}
                           \/ pc[t] = "asleep" /\ t \notin waiting

(* The inductive invariant behind the safety properties above. *)
IInv == /\ TypeOK
        /\ MutualExclusion
        /\ LoadedIsFresh
        /\ SeenIsExact
        /\ NobodyPassesEarly
        /\ NoLostWakeup

(* barrier_wait returns in every thread: nobody is left behind the wall. *)
EverybodyLeaves == <>(\A t \in Threads : pc[t] = "done")

\* barrier.c implements the abstract barrier.
Abs == INSTANCE BarrierSpec WITH
         arrived <- counted,
         left <- {t \in Threads : pc[t] = "done"}

AbsSpec == Abs!ASpec
=============================================================================
