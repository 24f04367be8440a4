-------------------------- MODULE SqlThread_proofs --------------------------
(***************************************************************************)
(* Proofs about SqlThread, for any of the three servers, any producers and *)
(* any jobs: type correctness, NoLostWakeup, DrainedAtExit, and that the   *)
(* thread implements JobQueue.                                             *)
(***************************************************************************)
EXTENDS SqlThread, SequenceTheorems, TLAPS

-----------------------------------------------------------------------------
(***************************************************************************)
(* The inductive invariant.                                                *)
(***************************************************************************)

\* The thread will still look at list k before it can wait again.
WillTake(k) ==
    CASE k = "packet" -> worker \in {"woken", "take", "count", "countusers"}
      [] k = "user"   -> worker \in {"woken", "take", "count", "countusers",
                                     "reset", "packets", "takeusers"}
      [] k = "queue"  -> worker \in {"woken", "take", "count", "countusers",
                                     "reset", "packets", "takeusers", "users",
                                     "lockqueue", "tick"}

\* A job that is not taken yet is announced by the event, or will be by the
\* producer that appended it, or lies ahead of the thread in this round.
Announced ==
    \A k \in Mailboxes :
        \/ add[k] = <<>>
        \/ event
        \/ \E p \in Producer : producer[p] = k
        \/ WillTake(k)
        \/ worker = "finished"

\* The packets are taken and the event reset under one lock.
ResetsEmptyList == worker = "reset" /\ ResetsInsideLock => add["packet"] = <<>>

\* Nothing comes into a list without producers; packet_queue is never taken.
UnusedLists ==
    /\ \A k \in Lists \ Mailboxes : add[k] = <<>> /\ run[k] = <<>>
    /\ run["queue"] = <<>>

\* What the thread has taken it handles before it goes on.
RunEmpty ==
    /\ run["packet"] = <<>> \/ worker \in {"reset", "packets"}
    /\ run["user"] = <<>> \/ worker = "users"

\* Shutdown: no producer is left when Terminated is set, and the thread leaves
\* its loop only after that.
Quiescent ==
    /\ terminated => main \in {"free", "freed"}
    /\ main # "running" => \A p \in Producer : producer[p] = "idle"
    /\ worker \in {"count", "countusers", "finished"} => terminated

\* The number of packets the thread has read is still right when it leaves.
CountsValid ==
    /\ worker = "countusers" => remain = (add["packet"] # <<>>)
    /\ worker = "finished" => \A k \in Counted : add[k] = <<>>

Inv == /\ TypeOK
       /\ Announced
       /\ ResetsEmptyList
       /\ UnusedLists
       /\ RunEmpty
       /\ Quiescent
       /\ CountsValid

-----------------------------------------------------------------------------
(***************************************************************************)
(* Type correctness.                                                       *)
(***************************************************************************)
LEMMA ListNames ==
    /\ Lists = {"packet", "user", "queue"}
    /\ server \in Server =>
          /\ Mailboxes \subseteq Lists
          /\ Counted \subseteq Mailboxes \cup {"packet"}
  BY ServerAssumption DEF Lists, Mailboxes, Counted

LEMMA TypeOKInit == Init => TypeOK
  <1> SUFFICES ASSUME Init PROVE TypeOK
    OBVIOUS
  <1>1. <<>> \in Seq(Job)
    BY EmptySeq
  <1>2. [k \in Lists |-> <<>>] \in [Lists -> Seq(Job)]
    BY <1>1, Zenon
  <1> QED
    BY <1>2 DEF Init, TypeOK, WorkerStates

LEMMA TypeOKStep == TypeOK /\ [Next]_vars => TypeOK'
  <1> SUFFICES ASSUME TypeOK, [Next]_vars PROVE TypeOK'
    OBVIOUS
  <1> USE ServerAssumption, ListNames DEF TypeOK, WorkerStates, Mailboxes, Counted
  <1>1. ASSUME NEW p \in Producer, NEW k \in Lists, NEW j \in Job, AppendJob(p, k, j)
        PROVE  TypeOK'
    BY <1>1 DEF AppendJob, MutexFree
  <1>2. ASSUME NEW p \in Producer, SignalEvent(p)
        PROVE  TypeOK'
    BY <1>2 DEF SignalEvent
  <1>3. CASE TestTerminated
    BY <1>3 DEF TestTerminated
  <1>4. CASE WaitForEvent
    BY <1>4 DEF WaitForEvent
  <1>5. CASE Woken
    BY <1>5 DEF Woken
  <1>6. CASE CountPackets
    BY <1>6 DEF CountPackets, Leave
  <1>7. CASE CountUsers
    BY <1>7 DEF CountUsers, Leave
  <1>8. CASE TakePackets
    BY <1>8 DEF TakePackets, TakeList
  <1>9. CASE ResetEvent
    BY <1>9 DEF ResetEvent
  <1>10. CASE RunPacket
    BY <1>10 DEF RunPacket, HandleTaken
  <1>11. CASE PacketsDone
    BY <1>11 DEF PacketsDone
  <1>12. CASE TakeUsers
    BY <1>12 DEF TakeUsers, TakeList
  <1>13. CASE RunUser
    BY <1>13 DEF RunUser, HandleTaken
  <1>14. CASE UsersDone
    BY <1>14 DEF UsersDone
  <1>15. CASE LockQueue
    BY <1>15 DEF LockQueue
  <1>16. CASE TickPacket
    BY <1>16 DEF TickPacket
  <1>17. CASE TickDone
    BY <1>17 DEF TickDone
  <1>18. CASE StopProducers
    BY <1>18 DEF StopProducers
  <1>19. CASE PollWaiting
    BY <1>19 DEF PollWaiting
  <1>20. CASE PollUserCount
    BY <1>20 DEF PollUserCount
  <1>21. CASE Terminate
    BY <1>21 DEF Terminate
  <1>22. CASE FreeSetEvent
    BY <1>22 DEF FreeSetEvent
  <1>23. CASE FreeDone
    BY <1>23 DEF FreeDone
  <1>24. CASE UNCHANGED vars \/ Stopped
    BY <1>24 DEF vars, Stopped
  <1> QED
    BY <1>1, <1>2, <1>3, <1>4, <1>5, <1>6, <1>7, <1>8, <1>9, <1>10, <1>11, <1>12, <1>13, <1>14, <1>15, <1>16, <1>17, <1>18, <1>19, <1>20, <1>21, <1>22, <1>23, <1>24 DEF Next, WorkerStep, MainStep

\* The variables keep their types: in particular a server never reaches a place
\* of Execute() that belongs to another server's loop.
THEOREM TypeCorrect == Spec => []TypeOK
  BY TypeOKInit, TypeOKStep, PTL DEF Spec

-----------------------------------------------------------------------------
(***************************************************************************)
(* The inductive invariant, action by action.                              *)
(***************************************************************************)
LEMMA InvInit == Init => Inv
  BY TypeOKInit, ServerAssumption, ListNames
     DEF Init, Inv, Announced, ResetsEmptyList, UnusedLists, RunEmpty, Quiescent,
         CountsValid

LEMMA InvStep == Inv /\ [Next]_vars => Inv'
  <1> SUFFICES ASSUME Inv, [Next]_vars PROVE Inv'
    OBVIOUS
  <1> USE ServerAssumption, ListNames
      DEF Inv, TypeOK, WorkerStates, Mailboxes, Counted, ResetsInsideLock
  <1>1. ASSUME NEW p \in Producer, NEW k \in Lists, NEW j \in Job, AppendJob(p, k, j)
        PROVE  Inv'
    <2>1. Announced'
      BY <1>1 DEF AppendJob, MutexFree, Announced, WillTake
    <2>2. ResetsEmptyList'
      BY <1>1 DEF AppendJob, MutexFree, ResetsEmptyList
    <2>3. UnusedLists'
      BY <1>1 DEF AppendJob, MutexFree, UnusedLists
    <2>4. RunEmpty'
      BY <1>1 DEF AppendJob, MutexFree, RunEmpty
    <2>5. Quiescent'
      BY <1>1 DEF AppendJob, MutexFree, Quiescent
    <2>6. CountsValid'
      BY <1>1 DEF AppendJob, MutexFree, CountsValid, Quiescent
    <2> QED
      BY <2>1, <2>2, <2>3, <2>4, <2>5, <2>6, TypeOKStep DEF Inv
  <1>2. ASSUME NEW p \in Producer, SignalEvent(p)
        PROVE  Inv'
    <2>1. Announced'
      BY <1>2 DEF SignalEvent, Announced, WillTake
    <2>2. ResetsEmptyList'
      BY <1>2 DEF SignalEvent, ResetsEmptyList
    <2>3. UnusedLists'
      BY <1>2 DEF SignalEvent, UnusedLists
    <2>4. RunEmpty'
      BY <1>2 DEF SignalEvent, RunEmpty
    <2>5. Quiescent'
      BY <1>2 DEF SignalEvent, Quiescent
    <2>6. CountsValid'
      BY <1>2 DEF SignalEvent, CountsValid
    <2> QED
      BY <2>1, <2>2, <2>3, <2>4, <2>5, <2>6, TypeOKStep DEF Inv
  <1>3. CASE TestTerminated
    <2>1. Announced'
      BY <1>3 DEF TestTerminated, Announced, WillTake
    <2>2. ResetsEmptyList'
      BY <1>3 DEF TestTerminated, ResetsEmptyList
    <2>3. UnusedLists'
      BY <1>3 DEF TestTerminated, UnusedLists
    <2>4. RunEmpty'
      BY <1>3 DEF TestTerminated, RunEmpty
    <2>5. Quiescent'
      BY <1>3 DEF TestTerminated, Quiescent
    <2>6. CountsValid'
      BY <1>3 DEF TestTerminated, CountsValid
    <2> QED
      BY <2>1, <2>2, <2>3, <2>4, <2>5, <2>6, TypeOKStep DEF Inv
  <1>4. CASE WaitForEvent
    <2>1. Announced'
      BY <1>4 DEF WaitForEvent, Announced, WillTake
    <2>2. ResetsEmptyList'
      BY <1>4 DEF WaitForEvent, ResetsEmptyList
    <2>3. UnusedLists'
      BY <1>4 DEF WaitForEvent, UnusedLists
    <2>4. RunEmpty'
      BY <1>4 DEF WaitForEvent, RunEmpty
    <2>5. Quiescent'
      BY <1>4 DEF WaitForEvent, Quiescent
    <2>6. CountsValid'
      BY <1>4 DEF WaitForEvent, CountsValid
    <2> QED
      BY <2>1, <2>2, <2>3, <2>4, <2>5, <2>6, TypeOKStep DEF Inv
  <1>5. CASE Woken
    <2>1. Announced'
      BY <1>5 DEF Woken, Announced, WillTake
    <2>2. ResetsEmptyList'
      BY <1>5 DEF Woken, ResetsEmptyList
    <2>3. UnusedLists'
      BY <1>5 DEF Woken, UnusedLists
    <2>4. RunEmpty'
      BY <1>5 DEF Woken, RunEmpty
    <2>5. Quiescent'
      BY <1>5 DEF Woken, Quiescent
    <2>6. CountsValid'
      BY <1>5 DEF Woken, CountsValid
    <2> QED
      BY <2>1, <2>2, <2>3, <2>4, <2>5, <2>6, TypeOKStep DEF Inv
  <1>6. CASE CountPackets
    <2>1. Announced'
      BY <1>6 DEF CountPackets, Leave, Announced, WillTake
    <2>2. ResetsEmptyList'
      BY <1>6 DEF CountPackets, Leave, ResetsEmptyList
    <2>3. UnusedLists'
      BY <1>6 DEF CountPackets, Leave, UnusedLists
    <2>4. RunEmpty'
      BY <1>6 DEF CountPackets, Leave, RunEmpty
    <2>5. Quiescent'
      BY <1>6 DEF CountPackets, Leave, Quiescent
    <2>6. CountsValid'
      BY <1>6 DEF CountPackets, Leave, CountsValid
    <2> QED
      BY <2>1, <2>2, <2>3, <2>4, <2>5, <2>6, TypeOKStep DEF Inv
  <1>7. CASE CountUsers
    <2>1. Announced'
      BY <1>7 DEF CountUsers, Leave, Announced, WillTake
    <2>2. ResetsEmptyList'
      BY <1>7 DEF CountUsers, Leave, ResetsEmptyList
    <2>3. UnusedLists'
      BY <1>7 DEF CountUsers, Leave, UnusedLists
    <2>4. RunEmpty'
      BY <1>7 DEF CountUsers, Leave, RunEmpty
    <2>5. Quiescent'
      BY <1>7 DEF CountUsers, Leave, Quiescent
    <2>6. CountsValid'
      BY <1>7 DEF CountUsers, Leave, CountsValid
    <2> QED
      BY <2>1, <2>2, <2>3, <2>4, <2>5, <2>6, TypeOKStep DEF Inv
  <1>8. CASE TakePackets
    <2>1. Announced'
      BY <1>8 DEF TakePackets, TakeList, Announced, WillTake
    <2>2. ResetsEmptyList'
      BY <1>8 DEF TakePackets, TakeList, ResetsEmptyList
    <2>3. UnusedLists'
      BY <1>8 DEF TakePackets, TakeList, UnusedLists
    <2>4. RunEmpty'
      BY <1>8 DEF TakePackets, TakeList, RunEmpty
    <2>5. Quiescent'
      BY <1>8 DEF TakePackets, TakeList, Quiescent
    <2>6. CountsValid'
      BY <1>8 DEF TakePackets, TakeList, CountsValid
    <2> QED
      BY <2>1, <2>2, <2>3, <2>4, <2>5, <2>6, TypeOKStep DEF Inv
  <1>9. CASE ResetEvent
    <2>1. Announced'
      BY <1>9 DEF ResetEvent, Announced, WillTake, ResetsEmptyList
    <2>2. ResetsEmptyList'
      BY <1>9 DEF ResetEvent, ResetsEmptyList
    <2>3. UnusedLists'
      BY <1>9 DEF ResetEvent, UnusedLists
    <2>4. RunEmpty'
      BY <1>9 DEF ResetEvent, RunEmpty
    <2>5. Quiescent'
      BY <1>9 DEF ResetEvent, Quiescent
    <2>6. CountsValid'
      BY <1>9 DEF ResetEvent, CountsValid
    <2> QED
      BY <2>1, <2>2, <2>3, <2>4, <2>5, <2>6, TypeOKStep DEF Inv
  <1>10. CASE RunPacket
    <2>1. Announced'
      BY <1>10 DEF RunPacket, HandleTaken, Announced, WillTake
    <2>2. ResetsEmptyList'
      BY <1>10 DEF RunPacket, HandleTaken, ResetsEmptyList
    <2>3. UnusedLists'
      BY <1>10 DEF RunPacket, HandleTaken, UnusedLists
    <2>4. RunEmpty'
      BY <1>10 DEF RunPacket, HandleTaken, RunEmpty
    <2>5. Quiescent'
      BY <1>10 DEF RunPacket, HandleTaken, Quiescent
    <2>6. CountsValid'
      BY <1>10 DEF RunPacket, HandleTaken, CountsValid
    <2> QED
      BY <2>1, <2>2, <2>3, <2>4, <2>5, <2>6, TypeOKStep DEF Inv
  <1>11. CASE PacketsDone
    <2>1. Announced'
      BY <1>11 DEF PacketsDone, Announced, WillTake
    <2>2. ResetsEmptyList'
      BY <1>11 DEF PacketsDone, ResetsEmptyList
    <2>3. UnusedLists'
      BY <1>11 DEF PacketsDone, UnusedLists
    <2>4. RunEmpty'
      BY <1>11 DEF PacketsDone, RunEmpty
    <2>5. Quiescent'
      BY <1>11 DEF PacketsDone, Quiescent
    <2>6. CountsValid'
      BY <1>11 DEF PacketsDone, CountsValid
    <2> QED
      BY <2>1, <2>2, <2>3, <2>4, <2>5, <2>6, TypeOKStep DEF Inv
  <1>12. CASE TakeUsers
    <2>1. Announced'
      BY <1>12 DEF TakeUsers, TakeList, Announced, WillTake
    <2>2. ResetsEmptyList'
      BY <1>12 DEF TakeUsers, TakeList, ResetsEmptyList
    <2>3. UnusedLists'
      BY <1>12 DEF TakeUsers, TakeList, UnusedLists
    <2>4. RunEmpty'
      BY <1>12 DEF TakeUsers, TakeList, RunEmpty
    <2>5. Quiescent'
      BY <1>12 DEF TakeUsers, TakeList, Quiescent
    <2>6. CountsValid'
      BY <1>12 DEF TakeUsers, TakeList, CountsValid
    <2> QED
      BY <2>1, <2>2, <2>3, <2>4, <2>5, <2>6, TypeOKStep DEF Inv
  <1>13. CASE RunUser
    <2>1. Announced'
      BY <1>13 DEF RunUser, HandleTaken, Announced, WillTake
    <2>2. ResetsEmptyList'
      BY <1>13 DEF RunUser, HandleTaken, ResetsEmptyList
    <2>3. UnusedLists'
      BY <1>13 DEF RunUser, HandleTaken, UnusedLists
    <2>4. RunEmpty'
      BY <1>13 DEF RunUser, HandleTaken, RunEmpty
    <2>5. Quiescent'
      BY <1>13 DEF RunUser, HandleTaken, Quiescent
    <2>6. CountsValid'
      BY <1>13 DEF RunUser, HandleTaken, CountsValid
    <2> QED
      BY <2>1, <2>2, <2>3, <2>4, <2>5, <2>6, TypeOKStep DEF Inv
  <1>14. CASE UsersDone
    <2>1. Announced'
      BY <1>14 DEF UsersDone, Announced, WillTake
    <2>2. ResetsEmptyList'
      BY <1>14 DEF UsersDone, ResetsEmptyList
    <2>3. UnusedLists'
      BY <1>14 DEF UsersDone, UnusedLists
    <2>4. RunEmpty'
      BY <1>14 DEF UsersDone, RunEmpty
    <2>5. Quiescent'
      BY <1>14 DEF UsersDone, Quiescent
    <2>6. CountsValid'
      BY <1>14 DEF UsersDone, CountsValid
    <2> QED
      BY <2>1, <2>2, <2>3, <2>4, <2>5, <2>6, TypeOKStep DEF Inv
  <1>15. CASE LockQueue
    <2>1. Announced'
      BY <1>15 DEF LockQueue, Announced, WillTake
    <2>2. ResetsEmptyList'
      BY <1>15 DEF LockQueue, ResetsEmptyList
    <2>3. UnusedLists'
      BY <1>15 DEF LockQueue, UnusedLists
    <2>4. RunEmpty'
      BY <1>15 DEF LockQueue, RunEmpty
    <2>5. Quiescent'
      BY <1>15 DEF LockQueue, Quiescent
    <2>6. CountsValid'
      BY <1>15 DEF LockQueue, CountsValid
    <2> QED
      BY <2>1, <2>2, <2>3, <2>4, <2>5, <2>6, TypeOKStep DEF Inv
  <1>16. CASE TickPacket
    <2>1. Announced'
      BY <1>16 DEF TickPacket, Announced, WillTake
    <2>2. ResetsEmptyList'
      BY <1>16 DEF TickPacket, ResetsEmptyList
    <2>3. UnusedLists'
      BY <1>16 DEF TickPacket, UnusedLists
    <2>4. RunEmpty'
      BY <1>16 DEF TickPacket, RunEmpty
    <2>5. Quiescent'
      BY <1>16 DEF TickPacket, Quiescent
    <2>6. CountsValid'
      BY <1>16 DEF TickPacket, CountsValid
    <2> QED
      BY <2>1, <2>2, <2>3, <2>4, <2>5, <2>6, TypeOKStep DEF Inv
  <1>17. CASE TickDone
    <2>1. Announced'
      BY <1>17 DEF TickDone, Announced, WillTake
    <2>2. ResetsEmptyList'
      BY <1>17 DEF TickDone, ResetsEmptyList
    <2>3. UnusedLists'
      BY <1>17 DEF TickDone, UnusedLists
    <2>4. RunEmpty'
      BY <1>17 DEF TickDone, RunEmpty
    <2>5. Quiescent'
      BY <1>17 DEF TickDone, Quiescent
    <2>6. CountsValid'
      BY <1>17 DEF TickDone, CountsValid
    <2> QED
      BY <2>1, <2>2, <2>3, <2>4, <2>5, <2>6, TypeOKStep DEF Inv
  <1>18. CASE StopProducers
    <2>1. Announced'
      BY <1>18 DEF StopProducers, Announced, WillTake
    <2>2. ResetsEmptyList'
      BY <1>18 DEF StopProducers, ResetsEmptyList
    <2>3. UnusedLists'
      BY <1>18 DEF StopProducers, UnusedLists
    <2>4. RunEmpty'
      BY <1>18 DEF StopProducers, RunEmpty
    <2>5. Quiescent'
      BY <1>18 DEF StopProducers, Quiescent
    <2>6. CountsValid'
      BY <1>18 DEF StopProducers, CountsValid
    <2> QED
      BY <2>1, <2>2, <2>3, <2>4, <2>5, <2>6, TypeOKStep DEF Inv
  <1>19. CASE PollWaiting
    <2>1. Announced'
      BY <1>19 DEF PollWaiting, Announced, WillTake
    <2>2. ResetsEmptyList'
      BY <1>19 DEF PollWaiting, ResetsEmptyList
    <2>3. UnusedLists'
      BY <1>19 DEF PollWaiting, UnusedLists
    <2>4. RunEmpty'
      BY <1>19 DEF PollWaiting, RunEmpty
    <2>5. Quiescent'
      BY <1>19 DEF PollWaiting, Quiescent
    <2>6. CountsValid'
      BY <1>19 DEF PollWaiting, CountsValid
    <2> QED
      BY <2>1, <2>2, <2>3, <2>4, <2>5, <2>6, TypeOKStep DEF Inv
  <1>20. CASE PollUserCount
    <2>1. Announced'
      BY <1>20 DEF PollUserCount, Announced, WillTake
    <2>2. ResetsEmptyList'
      BY <1>20 DEF PollUserCount, ResetsEmptyList
    <2>3. UnusedLists'
      BY <1>20 DEF PollUserCount, UnusedLists
    <2>4. RunEmpty'
      BY <1>20 DEF PollUserCount, RunEmpty
    <2>5. Quiescent'
      BY <1>20 DEF PollUserCount, Quiescent
    <2>6. CountsValid'
      BY <1>20 DEF PollUserCount, CountsValid
    <2> QED
      BY <2>1, <2>2, <2>3, <2>4, <2>5, <2>6, TypeOKStep DEF Inv
  <1>21. CASE Terminate
    <2>1. Announced'
      BY <1>21 DEF Terminate, Announced, WillTake
    <2>2. ResetsEmptyList'
      BY <1>21 DEF Terminate, ResetsEmptyList
    <2>3. UnusedLists'
      BY <1>21 DEF Terminate, UnusedLists
    <2>4. RunEmpty'
      BY <1>21 DEF Terminate, RunEmpty
    <2>5. Quiescent'
      BY <1>21 DEF Terminate, Quiescent
    <2>6. CountsValid'
      BY <1>21 DEF Terminate, CountsValid
    <2> QED
      BY <2>1, <2>2, <2>3, <2>4, <2>5, <2>6, TypeOKStep DEF Inv
  <1>22. CASE FreeSetEvent
    <2>1. Announced'
      BY <1>22 DEF FreeSetEvent, Announced, WillTake
    <2>2. ResetsEmptyList'
      BY <1>22 DEF FreeSetEvent, ResetsEmptyList
    <2>3. UnusedLists'
      BY <1>22 DEF FreeSetEvent, UnusedLists
    <2>4. RunEmpty'
      BY <1>22 DEF FreeSetEvent, RunEmpty
    <2>5. Quiescent'
      BY <1>22 DEF FreeSetEvent, Quiescent
    <2>6. CountsValid'
      BY <1>22 DEF FreeSetEvent, CountsValid
    <2> QED
      BY <2>1, <2>2, <2>3, <2>4, <2>5, <2>6, TypeOKStep DEF Inv
  <1>23. CASE FreeDone
    <2>1. Announced'
      BY <1>23 DEF FreeDone, Announced, WillTake
    <2>2. ResetsEmptyList'
      BY <1>23 DEF FreeDone, ResetsEmptyList
    <2>3. UnusedLists'
      BY <1>23 DEF FreeDone, UnusedLists
    <2>4. RunEmpty'
      BY <1>23 DEF FreeDone, RunEmpty
    <2>5. Quiescent'
      BY <1>23 DEF FreeDone, Quiescent
    <2>6. CountsValid'
      BY <1>23 DEF FreeDone, CountsValid
    <2> QED
      BY <2>1, <2>2, <2>3, <2>4, <2>5, <2>6, TypeOKStep DEF Inv
  <1>24. CASE UNCHANGED vars \/ Stopped
    <2>1. Announced'
      <3>1. Mailboxes' = Mailboxes /\ \A k \in Lists : WillTake(k)' = WillTake(k)
        BY <1>24 DEF vars, Stopped, WillTake, Lists
      <3>2. UNCHANGED <<add, event, producer, worker>>
        BY <1>24 DEF vars, Stopped
      <3> HIDE DEF Mailboxes
      <3>3. Mailboxes \subseteq Lists
        BY ListNames
      <3> QED
        BY <3>1, <3>2, <3>3 DEF Announced
    <2>2. ResetsEmptyList'
      BY <1>24 DEF vars, Stopped, ResetsEmptyList
    <2>3. UnusedLists'
      BY <1>24 DEF vars, Stopped, UnusedLists
    <2>4. RunEmpty'
      BY <1>24 DEF vars, Stopped, RunEmpty
    <2>5. Quiescent'
      BY <1>24 DEF vars, Stopped, Quiescent
    <2>6. CountsValid'
      BY <1>24 DEF vars, Stopped, CountsValid
    <2> QED
      BY <2>1, <2>2, <2>3, <2>4, <2>5, <2>6, TypeOKStep DEF Inv
  <1> QED
    BY <1>1, <1>2, <1>3, <1>4, <1>5, <1>6, <1>7, <1>8, <1>9, <1>10, <1>11, <1>12, <1>13, <1>14, <1>15, <1>16, <1>17, <1>18, <1>19, <1>20, <1>21, <1>22, <1>23, <1>24 DEF Next, WorkerStep, MainStep

\* The inductive invariant holds of every run.
THEOREM Invariance == Spec => []Inv
  BY InvInit, InvStep, PTL DEF Spec

-----------------------------------------------------------------------------
(***************************************************************************)
(* What the invariant gives.                                               *)
(***************************************************************************)

\* For every server and any number of producers, the thread never waits while
\* a submitted job lies in a list that nobody is going to announce.
THEOREM WakeupSafety == Spec => []NoLostWakeup
  <1>1. Inv => NoLostWakeup
    BY ListNames, ServerAssumption
       DEF Inv, TypeOK, Announced, UnusedLists, NoLostWakeup, WillTake, Lists, Mailboxes
  <1> QED
    BY <1>1, Invariance, PTL

\* When Execute() returns, the lists it counts are empty, on both sides: the
\* assertion after the loop never fails and no character is left unsaved.
THEOREM ExitSafety == Spec => []DrainedAtExit
  <1>1. Inv => DrainedAtExit
    BY ListNames, ServerAssumption
       DEF Inv, TypeOK, RunEmpty, CountsValid, DrainedAtExit, Counted
  <1> QED
    BY <1>1, Invariance, PTL

-----------------------------------------------------------------------------
(***************************************************************************)
(* Refinement: list k of JobQueue is what the thread has taken from list k *)
(* followed by what the producers have added since.                        *)
(***************************************************************************)
LEMMA HeadTailOfConcat ==
  ASSUME NEW S, NEW s \in Seq(S), NEW t \in Seq(S), s # <<>>
  PROVE  /\ s \o t # <<>>
         /\ Head(s \o t) = Head(s)
         /\ Tail(s \o t) = Tail(s) \o t
  <1>1. Len(s) \in Nat \ {0} /\ Len(t) \in Nat
    BY EmptySeq, LenProperties
  <1>2. /\ s \o t \in Seq(S)
        /\ Len(s \o t) = Len(s) + Len(t)
        /\ \A i \in 1 .. Len(s) + Len(t) :
              (s \o t)[i] = IF i <= Len(s) THEN s[i] ELSE t[i - Len(s)]
    BY ConcatProperties
  <1>3. s \o t # <<>>
    BY <1>1, <1>2, EmptySeq
  <1>4. Head(s \o t) = Head(s)
    BY <1>1, <1>2
  <1>5. /\ Tail(s) \in Seq(S)
        /\ Len(Tail(s)) = Len(s) - 1
        /\ \A i \in 1 .. Len(Tail(s)) : Tail(s)[i] = s[i + 1]
    BY HeadTailProperties
  <1>6. /\ Tail(s \o t) \in Seq(S)
        /\ Len(Tail(s \o t)) = Len(s) + Len(t) - 1
        /\ \A i \in 1 .. Len(s) + Len(t) - 1 : Tail(s \o t)[i] = (s \o t)[i + 1]
    BY <1>1, <1>2, <1>3, HeadTailProperties
  <1>7. /\ Tail(s) \o t \in Seq(S)
        /\ Len(Tail(s) \o t) = Len(s) - 1 + Len(t)
        /\ \A i \in 1 .. Len(s) - 1 + Len(t) :
              (Tail(s) \o t)[i] = IF i <= Len(s) - 1 THEN Tail(s)[i]
                                  ELSE t[i - (Len(s) - 1)]
    BY <1>5, ConcatProperties
  <1>8. ASSUME NEW i \in 1 .. Len(s) + Len(t) - 1
        PROVE  Tail(s \o t)[i] = (Tail(s) \o t)[i]
    BY <1>1, <1>2, <1>5, <1>6, <1>7
  <1>9. Tail(s \o t) = Tail(s) \o t
    BY <1>1, <1>6, <1>7, <1>8, SeqEqual
  <1> QED
    BY <1>3, <1>4, <1>9

LEMMA ContentsOfConcat ==
  ASSUME NEW S, NEW s \in Seq(S), NEW t \in Seq(S)
  PROVE  Contents(s \o t) = Contents(s) \cup Contents(t)
  <1>1. /\ s \o t \in Seq(S)
        /\ Len(s \o t) = Len(s) + Len(t)
        /\ \A i \in 1 .. Len(s) + Len(t) :
              (s \o t)[i] = IF i <= Len(s) THEN s[i] ELSE t[i - Len(s)]
    BY ConcatProperties
  <1>2. /\ Len(s) \in Nat /\ Len(t) \in Nat
        /\ DOMAIN s = 1 .. Len(s) /\ DOMAIN t = 1 .. Len(t)
        /\ DOMAIN (s \o t) = 1 .. Len(s) + Len(t)
    BY <1>1, LenProperties
  <1>3. ASSUME NEW x \in Contents(s \o t)
        PROVE  x \in Contents(s) \cup Contents(t)
    <2>1. PICK i \in 1 .. Len(s) + Len(t) : x = (s \o t)[i]
      BY <1>2 DEF Contents
    <2>2. CASE i <= Len(s)
      BY <1>1, <1>2, <2>1, <2>2 DEF Contents
    <2>3. CASE ~(i <= Len(s))
      <3>1. i - Len(s) \in 1 .. Len(t) /\ x = t[i - Len(s)]
        BY <1>1, <1>2, <2>1, <2>3
      <3> QED
        BY <1>2, <3>1 DEF Contents
    <2> QED
      BY <2>2, <2>3
  <1>4. ASSUME NEW x \in Contents(s)
        PROVE  x \in Contents(s \o t)
    <2>1. PICK i \in 1 .. Len(s) : x = s[i]
      BY <1>2 DEF Contents
    <2>2. i \in 1 .. Len(s) + Len(t) /\ (s \o t)[i] = x
      BY <1>1, <1>2, <2>1
    <2> QED
      BY <1>2, <2>2 DEF Contents
  <1>5. ASSUME NEW x \in Contents(t)
        PROVE  x \in Contents(s \o t)
    <2>1. PICK i \in 1 .. Len(t) : x = t[i]
      BY <1>2 DEF Contents
    <2>2. /\ i + Len(s) \in 1 .. Len(s) + Len(t)
          /\ (s \o t)[i + Len(s)] = x
      BY <1>1, <1>2, <2>1
    <2> QED
      BY <1>2, <2>2 DEF Contents
  <1> QED
    BY <1>3, <1>4, <1>5

LEMMA AppendToConcat ==
  ASSUME NEW S, NEW s \in Seq(S), NEW t \in Seq(S), NEW e \in S
  PROVE  s \o Append(t, e) = Append(s \o t, e)
  <1>1. /\ Append(t, e) \in Seq(S) /\ Len(Append(t, e)) = Len(t) + 1
        /\ s \o t \in Seq(S) /\ Len(s \o t) = Len(s) + Len(t)
        /\ Len(s) \in Nat /\ Len(t) \in Nat
    BY ConcatProperties, LenProperties
  <1>2. /\ s \o Append(t, e) \in Seq(S)
        /\ Len(s \o Append(t, e)) = Len(s) + Len(t) + 1
        /\ Append(s \o t, e) \in Seq(S)
        /\ Len(Append(s \o t, e)) = Len(s) + Len(t) + 1
    BY <1>1, ConcatProperties
  <1>3. ASSUME NEW i \in 1 .. Len(s) + Len(t) + 1
        PROVE  (s \o Append(t, e))[i] = Append(s \o t, e)[i]
    BY <1>1, ConcatProperties
  <1> QED
    BY <1>2, <1>3, SeqEqual

LEMMA KnownIsSubmitted == TypeOK => Abstract!Known = Submitted
  <1> SUFFICES ASSUME TypeOK PROVE Abstract!Known = Submitted
    OBVIOUS
  <1>1. ASSUME NEW k \in Lists
        PROVE  Abstract!Contents([l \in Lists |-> run[l] \o add[l]][k]) =
                 Contents(run[k]) \cup Contents(add[k])
    <2>1. run[k] \in Seq(Job) /\ add[k] \in Seq(Job)
      BY DEF TypeOK
    <2>2. Contents(run[k] \o add[k]) = Contents(run[k]) \cup Contents(add[k])
      BY <2>1, ContentsOfConcat
    <2> QED
      BY <2>2 DEF Contents, Abstract!Contents
  <1>2. ASSUME NEW k \in Lists
        PROVE  Abstract!Contents(done[k]) = Contents(done[k])
    BY DEF Contents, Abstract!Contents
  <1> QED
    BY <1>1, <1>2 DEF Abstract!Known, Submitted

LEMMA RefinesInit == Init => Abstract!Init
  <1> SUFFICES ASSUME Init PROVE Abstract!Init
    OBVIOUS
  <1>1. <<>> \o <<>> = <<>>
    BY EmptySeq, ConcatEmptySeq
  <1> QED
    BY <1>1 DEF Init, Abstract!Init

\* Handling the first job that was taken is handling the first of the queue.
LEMMA HandleTakenRefines ==
  ASSUME TypeOK, NEW k \in Lists, HandleTaken(k), UNCHANGED add
  PROVE  Abstract!Handle(k)
  <1>1. run[k] \in Seq(Job) /\ add[k] \in Seq(Job) /\ run[k] # <<>>
    BY DEF TypeOK, HandleTaken
  <1>2. /\ run[k] \o add[k] # <<>>
        /\ Head(run[k] \o add[k]) = Head(run[k])
        /\ Tail(run[k] \o add[k]) = Tail(run[k]) \o add[k]
    BY <1>1, HeadTailOfConcat
  <1>3. [l \in Lists |-> run'[l] \o add'[l]] =
          [[l \in Lists |-> run[l] \o add[l]] EXCEPT ![k] = Tail(@)]
    BY <1>2 DEF HandleTaken, TypeOK
  <1> QED
    BY <1>2, <1>3 DEF HandleTaken, Abstract!Handle

\* Moving a list to the thread's side changes nothing.
LEMMA TakeListRefines ==
  ASSUME TypeOK, NEW k \in Lists, TakeList(k), UNCHANGED done
  PROVE  UNCHANGED Abstract!vars
  <1>1. run[k] \in Seq(Job) /\ add[k] \in Seq(Job)
    BY DEF TypeOK
  <1>2. (run[k] \o add[k]) \o <<>> = run[k] \o add[k]
    BY <1>1, ConcatProperties, ConcatEmptySeq
  <1>3. [l \in Lists |-> run'[l] \o add'[l]] = [l \in Lists |-> run[l] \o add[l]]
    BY <1>2 DEF TakeList, TypeOK
  <1> QED
    BY <1>3 DEF Abstract!vars

\* tick() handles the front of packet_queue where it lies.
LEMMA TickRefines ==
  ASSUME TypeOK, UnusedLists, TickPacket
  PROVE  Abstract!Handle("queue")
  <1>1. /\ "queue" \in Lists /\ run["queue"] = <<>>
        /\ add["queue"] \in Seq(Job) /\ add["queue"] # <<>>
    BY ListNames DEF TypeOK, UnusedLists, TickPacket
  <1>2. /\ Tail(add["queue"]) \in Seq(Job)
        /\ <<>> \o add["queue"] = add["queue"]
        /\ <<>> \o Tail(add["queue"]) = Tail(add["queue"])
    BY <1>1, HeadTailProperties, ConcatEmptySeq
  <1>3. [l \in Lists |-> run'[l] \o add'[l]] =
          [[l \in Lists |-> run[l] \o add[l]] EXCEPT !["queue"] = Tail(@)]
    BY <1>1, <1>2 DEF TickPacket, TypeOK
  <1> QED
    BY <1>1, <1>2, <1>3 DEF TickPacket, Abstract!Handle

LEMMA AppendRefines ==
  ASSUME TypeOK, NEW p \in Producer, NEW k \in Lists, NEW j \in Job, AppendJob(p, k, j)
  PROVE  Abstract!Submit(k, j)
  <1>1. run[k] \in Seq(Job) /\ add[k] \in Seq(Job) /\ j \in Job
    BY DEF TypeOK
  <1>2. run[k] \o Append(add[k], j) = Append(run[k] \o add[k], j)
    <2>1. \A s, t \in Seq(Job) : s \o Append(t, j) = Append(s \o t, j)
      BY AppendToConcat
    <2> QED
      BY <1>1, <2>1, Zenon
  <1>3. [l \in Lists |-> run'[l] \o add'[l]] =
          [[l \in Lists |-> run[l] \o add[l]] EXCEPT ![k] = Append(@, j)]
    BY <1>2 DEF AppendJob, TypeOK
  <1> QED
    BY <1>3, KnownIsSubmitted DEF AppendJob, Abstract!Submit

LEMMA RefinesStep == Inv /\ [Next]_vars => [Abstract!Next]_(Abstract!vars)
  <1> SUFFICES ASSUME Inv, [Next]_vars PROVE [Abstract!Next]_(Abstract!vars)
    OBVIOUS
  <1> USE ListNames DEF Inv
  <1>1. ASSUME NEW p \in Producer, NEW k \in Lists, NEW j \in Job, AppendJob(p, k, j)
        PROVE  Abstract!Next
    BY <1>1, AppendRefines DEF Abstract!Next
  <1>2. CASE RunPacket
    BY <1>2, HandleTakenRefines DEF RunPacket, Abstract!Next
  <1>3. CASE RunUser
    BY <1>3, HandleTakenRefines DEF RunUser, Abstract!Next
  <1>4. CASE TickPacket
    BY <1>4, TickRefines DEF Abstract!Next
  <1>5. CASE TakePackets
    BY <1>5, TakeListRefines DEF TakePackets
  <1>6. CASE TakeUsers
    BY <1>6, TakeListRefines DEF TakeUsers
  <1>7. CASE UNCHANGED <<add, run, done>>
    BY <1>7 DEF Abstract!vars
  <1>8. ASSUME NEW p \in Producer, SignalEvent(p)
        PROVE  UNCHANGED <<add, run, done>>
    BY <1>8 DEF SignalEvent
  <1>9. CASE \/ TestTerminated \/ WaitForEvent \/ Woken \/ CountPackets \/ CountUsers
             \/ ResetEvent \/ PacketsDone \/ UsersDone \/ LockQueue \/ TickDone
    BY <1>7, <1>9
       DEF TestTerminated, WaitForEvent, Woken, CountPackets, CountUsers, ResetEvent,
           PacketsDone, UsersDone, LockQueue, TickDone
  <1>10. CASE MainStep \/ UNCHANGED vars
    BY <1>7, <1>10
       DEF MainStep, StopProducers, PollWaiting, PollUserCount, Terminate,
           FreeSetEvent, FreeDone, Stopped, vars
  <1> QED
    BY <1>1, <1>2, <1>3, <1>4, <1>5, <1>6, <1>7, <1>8, <1>9, <1>10
       DEF Next, WorkerStep

\* The SQL thread of every server implements JobQueue: its lists are FIFO queues
\* and each job is handled at most once.
THEOREM Refinement == Spec => ImplementsJobQueue
  BY Invariance, RefinesInit, RefinesStep, PTL DEF Spec, ImplementsJobQueue, Abstract!Spec
=============================================================================
