----------------------------- MODULE SqlThread ------------------------------
(***************************************************************************)
(* The SQL thread of a server and the threads that feed it.                *)
(*                                                                         *)
(* CSqlTHREAD (common-server/csqlthread.cpp) owns two mailboxes and a      *)
(* Windows auto-reset event; the login, world and game servers derive from *)
(* it, each with an Execute() of its own and, in two of them, a third      *)
(* mailbox of users who log out:                                           *)
(*                                                                         *)
(*    list      C++ member       lock            login   world   game      *)
(*    "packet"  m_AddPACKET      m_CS              -       x       x       *)
(*    "user"    m_AddUserLIST    m_csUserLIST      x       -       x       *)
(*    "queue"   packet_queue     queue_mutex       x       x       -       *)
(*                                                                         *)
(* A producer (a socket worker, a zone thread, the window thread) appends  *)
(* under the list's lock and then sets the event; the thread waits for the *)
(* event, takes a whole list at a time and handles its jobs.  The model    *)
(* has one action per step another thread can observe.                     *)
(***************************************************************************)
EXTENDS Naturals, Sequences

CONSTANTS
    Server,     \* the servers considered, among "login", "world" and "game"
    Producer,   \* the threads that submit jobs
    Job         \* the jobs they submit, each at most once

ASSUME ServerAssumption == Server \subseteq {"login", "world", "game"}

VARIABLES
    server,     \* whose Execute() the thread runs
    add,        \* add[k]: submitted, not taken yet (m_AddPACKET, ...)
    run,        \* run[k]: taken by the thread (m_RunPACKET, m_RunUserLIST)
    done,       \* done[k]: handled, in order; history, no code reads it
    event,      \* m_pEVENT is set
    waiting,    \* m_bWaiting (game server)
    worker,     \* where Execute() is
    remain,     \* iReaminCNT > 0, or iCnt1 > 0 in the game server
    producer,   \* "idle", or the list whose event the producer will set
    main,       \* where the thread that shuts the server down is
    terminated  \* classTHREAD::Terminated

Lists == {"packet", "user", "queue"}

\* The lists that have producers in this server.
Mailboxes == CASE server = "login" -> {"user", "queue"}
               [] server = "world" -> {"packet", "queue"}
               [] server = "game"  -> {"packet", "user"}

\* The lists whose length Execute() reads before it leaves its loop.
Counted == IF server = "game" THEN {"packet", "user"} ELSE {"packet"}

\* Mutant of ResetsInsideLock: every server resets the event after the unlock.
ResetsAfterUnlock == FALSE

\* The world and game servers reset the event before they release m_CS, the
\* login server after.
ResetsInsideLock == server # "login"

vars == <<server, add, run, done, event, waiting, worker, remain, producer, main,
          terminated>>

Init ==
    /\ server \in Server
    /\ add = [k \in Lists |-> <<>>]
    /\ run = [k \in Lists |-> <<>>]
    /\ done = [k \in Lists |-> <<>>]
    /\ event = FALSE
    /\ waiting = FALSE
    /\ worker = "test"
    /\ remain = FALSE
    /\ producer = [p \in Producer |-> "idle"]
    /\ main = "running"
    /\ terminated = FALSE

Contents(s) == {s[i] : i \in DOMAIN s}

Submitted ==
    UNION {Contents(add[k]) \cup Contents(run[k]) \cup Contents(done[k]) :
              k \in Lists}

-----------------------------------------------------------------------------
(***************************************************************************)
(* The locks.  m_CS is held by the thread from taking the packets to       *)
(* resetting the event, and a producer's own use of it is one step;        *)
(* queue_mutex is held by the thread through tick() and by a producer from *)
(* the push to the SetEvent.  m_csUserLIST only ever covers one step.      *)
(***************************************************************************)
MutexFree(k) ==
    CASE k = "packet" -> ~(ResetsInsideLock /\ worker = "reset")
      [] k = "user"   -> TRUE
      [] k = "queue"  -> /\ worker # "tick"
                         /\ \A p \in Producer : producer[p] # "queue"

-----------------------------------------------------------------------------
(***************************************************************************)
(* Producers: Add_SqlPACKET, Add_BackUpUSER / Add_LogOutUSER and           *)
(* queue_packet append a job and then set the event.                       *)
(***************************************************************************)
AppendJob(p, k, j) ==
    /\ main = "running"
    /\ producer[p] = "idle"
    /\ k \in Mailboxes
    /\ j \notin Submitted
    /\ MutexFree(k)
    /\ add' = [add EXCEPT ![k] = Append(@, j)]
    /\ producer' = [producer EXCEPT ![p] = k]
    /\ UNCHANGED <<server, run, done, event, waiting, worker, remain, main, terminated>>

SignalEvent(p) ==
    /\ producer[p] # "idle"
    /\ event' = TRUE
    /\ producer' = [producer EXCEPT ![p] = "idle"]
    /\ UNCHANGED <<server, add, run, done, waiting, worker, remain, main, terminated>>

-----------------------------------------------------------------------------
(***************************************************************************)
(* The thread: Execute().                                                  *)
(***************************************************************************)

\* Mutant of TestTerminated: the event is cleared before the thread waits for it.
TestTerminatedClearing ==
    /\ worker = "test"
    /\ IF terminated
          THEN worker' = "count" /\ UNCHANGED <<waiting, event>>
          ELSE worker' = "wait"  /\ waiting' = (server = "game") /\ event' = FALSE
    /\ UNCHANGED <<server, add, run, done, remain, producer, main, terminated>>

\* Top of the loop: go and wait, or, once Terminated is set, see what is left.
TestTerminated ==
    /\ worker = "test"
    /\ IF terminated
          THEN worker' = "count" /\ UNCHANGED waiting
          ELSE worker' = "wait"  /\ waiting' = (server = "game")
    /\ UNCHANGED <<server, add, run, done, event, remain, producer, main, terminated>>

\* WaitFor returns; the event is auto-reset.
WaitForEvent ==
    /\ worker = "wait"
    /\ event
    /\ event' = FALSE
    /\ worker' = "woken"
    /\ UNCHANGED <<server, add, run, done, waiting, remain, producer, main, terminated>>

Woken ==
    /\ worker = "woken"
    /\ waiting' = FALSE
    /\ worker' = "take"
    /\ UNCHANGED <<server, add, run, done, event, remain, producer, main, terminated>>

\* Mutant of Leave: the thread leaves as soon as it sees Terminated.
LeaveAtOnce(left) ==
    /\ worker' = "finished"
    /\ waiting' = (waiting \/ server = "game")

\* After Terminated: read the number of packets, and in the game server, under
\* another lock and so a step later, the number of users; leave if none is left.
Leave(left) ==
    /\ worker' = IF left THEN "take" ELSE "finished"
    /\ waiting' = (waiting \/ (server = "game" /\ ~left))

CountPackets ==
    /\ worker = "count"
    /\ MutexFree("packet")
    /\ remain' = (add["packet"] # <<>>)
    /\ IF "user" \in Counted
          THEN worker' = "countusers" /\ UNCHANGED waiting
          ELSE Leave(add["packet"] # <<>>)
    /\ UNCHANGED <<server, add, run, done, event, producer, main, terminated>>

CountUsers ==
    /\ worker = "countusers"
    /\ Leave(remain \/ add["user"] # <<>>)
    /\ UNCHANGED <<server, add, run, done, event, remain, producer, main, terminated>>

\* Mutant of TakeList: the Init() that empties the producers' list is forgotten.
TakeListNoInit(k) ==
    /\ run' = [run EXCEPT ![k] = @ \o add[k]]
    /\ UNCHANGED add

\* Move a whole list from the producers' side to the thread's side.
TakeList(k) ==
    /\ run' = [run EXCEPT ![k] = @ \o add[k]]
    /\ add' = [add EXCEPT ![k] = <<>>]

TakePackets ==
    /\ worker = "take"
    /\ TakeList("packet")
    /\ worker' = "reset"
    /\ UNCHANGED <<server, done, event, waiting, remain, producer, main, terminated>>

ResetEvent ==
    /\ worker = "reset"
    /\ event' = FALSE
    /\ worker' = "packets"
    /\ UNCHANGED <<server, add, run, done, waiting, remain, producer, main, terminated>>

\* Handle the first job of a list the thread has taken.
HandleTaken(k) ==
    /\ run[k] # <<>>
    /\ run' = [run EXCEPT ![k] = Tail(@)]
    /\ done' = [done EXCEPT ![k] = Append(@, Head(run[k]))]

\* Run_SqlPACKET returns true in every server, so each packet is deleted from
\* m_RunPACKET as soon as it has been handled.
RunPacket ==
    /\ worker = "packets"
    /\ HandleTaken("packet")
    /\ UNCHANGED <<server, add, event, waiting, worker, remain, producer, main, terminated>>

\* The world server has no list of users and goes straight to tick().
PacketsDone ==
    /\ worker = "packets"
    /\ run["packet"] = <<>>
    /\ worker' = IF "user" \in Mailboxes THEN "takeusers" ELSE "lockqueue"
    /\ UNCHANGED <<server, add, run, done, event, waiting, remain, producer, main, terminated>>

TakeUsers ==
    /\ worker = "takeusers"
    /\ TakeList("user")
    /\ worker' = "users"
    /\ UNCHANGED <<server, done, event, waiting, remain, producer, main, terminated>>

RunUser ==
    /\ worker = "users"
    /\ HandleTaken("user")
    /\ UNCHANGED <<server, add, event, waiting, worker, remain, producer, main, terminated>>

\* Mutant of UsersDone: every server goes on to tick().
UsersDoneAlwaysTick ==
    /\ worker = "users"
    /\ run["user"] = <<>>
    /\ worker' = "lockqueue"
    /\ UNCHANGED <<server, add, run, done, event, waiting, remain, producer, main, terminated>>

\* The game server's loop has no tick().
UsersDone ==
    /\ worker = "users"
    /\ run["user"] = <<>>
    /\ worker' = IF "queue" \in Mailboxes THEN "lockqueue" ELSE "test"
    /\ UNCHANGED <<server, add, run, done, event, waiting, remain, producer, main, terminated>>

LockQueue ==
    /\ worker = "lockqueue"
    /\ MutexFree("queue")
    /\ worker' = "tick"
    /\ UNCHANGED <<server, add, run, done, event, waiting, remain, producer, main, terminated>>

\* tick() handles the front of packet_queue and pops it, all under queue_mutex.
TickPacket ==
    /\ worker = "tick"
    /\ add["queue"] # <<>>
    /\ add' = [add EXCEPT !["queue"] = Tail(@)]
    /\ done' = [done EXCEPT !["queue"] = Append(@, Head(add["queue"]))]
    /\ UNCHANGED <<server, run, event, waiting, worker, remain, producer, main, terminated>>

TickDone ==
    /\ worker = "tick"
    /\ add["queue"] = <<>>
    /\ worker' = "test"
    /\ UNCHANGED <<server, add, run, done, event, waiting, remain, producer, main, terminated>>

WorkerStep ==
    \/ TestTerminated \/ WaitForEvent \/ Woken \/ CountPackets \/ CountUsers
    \/ TakePackets \/ ResetEvent \/ RunPacket \/ PacketsDone
    \/ TakeUsers \/ RunUser \/ UsersDone
    \/ LockQueue \/ TickPacket \/ TickDone

-----------------------------------------------------------------------------
(***************************************************************************)
(* The thread that shuts the server down: first the sockets and their      *)
(* threads, so that no producer is left, then, in the game server, a loop  *)
(* that waits for the saves, at last CSqlTHREAD::Free().                   *)
(***************************************************************************)
StopProducers ==
    /\ main = "running"
    /\ \A p \in Producer : producer[p] = "idle"
    /\ IF server = "game"
          THEN main' = "poll" /\ event' = TRUE
          ELSE main' = "shutdown" /\ UNCHANGED event
    /\ UNCHANGED <<server, add, run, done, waiting, worker, remain, producer, terminated>>

\* The loop's condition reads IsWaiting() first and WaitUserCNT() after it, with
\* no lock.
PollWaiting ==
    /\ main = "poll"
    /\ waiting
    /\ main' = "polled"
    /\ UNCHANGED <<server, add, run, done, event, waiting, worker, remain, producer, terminated>>

PollUserCount ==
    /\ main = "polled"
    /\ main' = IF add["user"] # <<>> THEN "poll" ELSE "shutdown"
    /\ UNCHANGED <<server, add, run, done, event, waiting, worker, remain, producer, terminated>>

Terminate ==
    /\ main = "shutdown"
    /\ terminated' = TRUE
    /\ main' = "free"
    /\ UNCHANGED <<server, add, run, done, event, waiting, worker, remain, producer>>

\* Mutant of FreeSetEvent: Free() waits for the thread without waking it.
FreeNoSetEvent == FALSE

\* Free() sets the event until the thread has finished.
FreeSetEvent ==
    /\ main = "free"
    /\ ~event
    /\ event' = TRUE
    /\ UNCHANGED <<server, add, run, done, waiting, worker, remain, producer, main, terminated>>

FreeDone ==
    /\ main = "free"
    /\ worker = "finished"
    /\ main' = "freed"
    /\ UNCHANGED <<server, add, run, done, event, waiting, worker, remain, producer, terminated>>

\* The process has ended.
Stopped == main = "freed" /\ UNCHANGED vars

MainStep ==
    \/ StopProducers \/ PollWaiting \/ PollUserCount
    \/ Terminate \/ FreeSetEvent \/ FreeDone \/ Stopped

-----------------------------------------------------------------------------
Next ==
    \/ \E p \in Producer, k \in Lists, j \in Job : AppendJob(p, k, j)
    \/ \E p \in Producer : SignalEvent(p)
    \/ WorkerStep
    \/ MainStep

Spec == Init /\ [][Next]_vars

(***************************************************************************)
(* Fairness: the operating system schedules every runnable thread, so the  *)
(* SQL thread takes a step it can take, a producer that has appended a job *)
(* goes on to set the event, and a shutdown that has begun continues.      *)
(* Nothing makes a producer submit or a shutdown begin.                    *)
(***************************************************************************)
Fairness ==
    /\ WF_vars(WorkerStep)
    /\ \A p \in Producer : WF_vars(SignalEvent(p))
    /\ WF_vars(MainStep /\ main # "running")

FairSpec == Spec /\ Fairness

-----------------------------------------------------------------------------
(***************************************************************************)
(* Properties                                                              *)
(***************************************************************************)

\* The places Execute() of this server can be in.
WorkerStates ==
    {"test", "wait", "woken", "count", "take", "reset", "packets", "finished"}
    \cup (IF "user" \in Mailboxes THEN {"takeusers", "users"} ELSE {})
    \cup (IF "queue" \in Mailboxes THEN {"lockqueue", "tick"} ELSE {})
    \cup (IF "user" \in Counted THEN {"countusers"} ELSE {})

\* Types, with the places and the lists that the derived class does not use.
TypeOK ==
    /\ server \in Server
    /\ add \in [Lists -> Seq(Job)]
    /\ run \in [Lists -> Seq(Job)]
    /\ done \in [Lists -> Seq(Job)]
    /\ event \in BOOLEAN
    /\ waiting \in BOOLEAN
    /\ worker \in WorkerStates
    /\ remain \in BOOLEAN
    /\ producer \in [Producer -> {"idle"} \cup Mailboxes]
    /\ main \in {"running", "poll", "polled", "shutdown", "free", "freed"}
    /\ terminated \in BOOLEAN

\* The thread never sleeps on work: when it waits and the event is not set, a
\* list is empty unless the producer that filled it is about to set the event.
\* It is about Execute() resetting an event that other threads set without a
\* lock (ws_threadsql.cpp:137, gs_threadsql.cpp:389, cls_sqlthread.cpp:59).
NoLostWakeup ==
    worker = "wait" /\ ~event =>
        \A k \in Lists : add[k] # <<>> => \E p \in Producer : producer[p] = k

\* When Execute() returns, nothing is left in the lists whose length it tested:
\* the assertions behind the loops (ws_threadsql.cpp:151, gs_threadsql.cpp:439),
\* and in the game server the users too, each of whom is a character to save.
DrainedAtExit ==
    worker = "finished" =>
        \A k \in Counted : add[k] = <<>> /\ run[k] = <<>>

\* Each list is a FIFO queue whose jobs are handled exactly once, whatever the
\* interleaving of appends, list moves and handling: the lists the thread keeps
\* for itself behave as one queue with those of the producers.
Abstract == INSTANCE JobQueue WITH
                pending <- [k \in Lists |-> run[k] \o add[k]]

ImplementsJobQueue == Abstract!Spec

\* Every job is handled in the end; only one in a list that Execute() does not
\* look at before it leaves may be dropped, and only by a shutdown.
EventuallyHandled ==
    \A j \in Job, k \in Lists :
        j \in Contents(add[k]) ~>
            \/ j \in Contents(done[k])
            \/ k \notin Counted /\ terminated

\* A shutdown that has begun ends: the game server's wait for the saves and
\* Free()'s wait for the thread both come to an end.
ShutdownCompletes == main # "running" ~> main = "freed"

\* "Wait while everything in the sql thread is recorded" (lib_gsmain.cpp:676):
\* when Shutdown() has left its loop, no character is waiting to be saved.
ShutdownAwaitsSaves ==
    main = "shutdown" => add["user"] = <<>> /\ run["user"] = <<>>
=============================================================================
