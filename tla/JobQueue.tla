------------------------------ MODULE JobQueue ------------------------------
(***************************************************************************)
(* What a server's SQL thread promises to the threads that feed it: each   *)
(* of its lists is a FIFO queue, a job handed over is handled at most      *)
(* once, in the order of its list, and nothing is handled that was not     *)
(* handed over.  How the thread is woken, which lock protects which list   *)
(* and how it stops is the business of module SqlThread, which implements  *)
(* this one.                                                               *)
(***************************************************************************)
EXTENDS Sequences

CONSTANTS
    Lists,      \* the names of the queues
    Job         \* the jobs that may be submitted, each at most once

VARIABLES
    pending,    \* pending[k]: jobs of list k not handled yet, oldest first
    done        \* done[k]: jobs of list k in the order they were handled

vars == <<pending, done>>

Contents(s) == {s[i] : i \in DOMAIN s}

Known == UNION {Contents(pending[k]) \cup Contents(done[k]) : k \in Lists}

Init == /\ pending = [k \in Lists |-> <<>>]
        /\ done = [k \in Lists |-> <<>>]

Submit(k, j) ==
    /\ j \notin Known
    /\ pending' = [pending EXCEPT ![k] = Append(@, j)]
    /\ UNCHANGED done

Handle(k) ==
    /\ pending[k] # <<>>
    /\ pending' = [pending EXCEPT ![k] = Tail(@)]
    /\ done' = [done EXCEPT ![k] = Append(@, Head(pending[k]))]

Next == \E k \in Lists : Handle(k) \/ \E j \in Job : Submit(k, j)

Spec == Init /\ [][Next]_vars
=============================================================================
