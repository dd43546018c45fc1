---------------------------- MODULE KernalThreads ----------------------------
(***************************************************************************)
(* The threads of netzwerk::NetzwerkKernal: Start creates four, each of    *)
(* the three workers alternates between the flag `running' and a tsqueue   *)
(* wait, Stop clears the flag, stops the io_context and joins them all.    *)
(*                                                                         *)
(* A queue is the number of messages in it; TSQueue has the details.  The  *)
(* unsynchronised bool `running' is read and written as one value.         *)
(***************************************************************************)
EXTENDS Integers, Sequences

CONSTANTS
    MaxStarts,   \* bound: calls of Start
    MaxPush,     \* bound: messages pushed to all queues together
    Failures     \* Start may throw half-way

ASSUME ThreadsAssumption ==
    /\ MaxStarts \in Nat
    /\ MaxPush \in Nat
    /\ Failures \in BOOLEAN

Workers == {"out", "in", "rem"}
Threads == {"context"} \cup Workers
Order == <<"context", "out", "in", "rem">>   \* as Start creates and Stop joins

VARIABLES
    running,  \* the flag
    stopped,  \* m_context has been stopped; nothing ever restarts it
    pc,       \* where each thread is; "none": the std::thread is not joinable
    queue,    \* number of messages in each worker's queue
    pushes,   \* messages pushed so far
    caller,   \* where the caller of Start and Stop is, and at which thread
    starts    \* calls of Start so far

vars == <<running, stopped, pc, queue, pushes, caller, starts>>

At(where, i) == [at |-> where, i |-> i]

Init ==
    /\ running = FALSE
    /\ stopped = FALSE
    /\ pc = [t \in Threads |-> "none"]
    /\ queue = [w \in Workers |-> 0]
    /\ pushes = 0
    /\ caller = At("idle", 1)
    /\ starts = 0

Alive == caller.at # "terminated"

-----------------------------------------------------------------------------
(* Start.                                                                  *)

StartBegin ==
    /\ caller.at = "idle"
    /\ starts < MaxStarts
    /\ starts' = starts + 1
    /\ running' = TRUE
    /\ caller' = At("starting", 1)
    /\ UNCHANGED <<stopped, pc, queue, pushes>>

\* the acceptor, the resolver or a thread could not be made: Start is left
\* with what it has done so far
StartThrows ==
    /\ Failures
    /\ caller.at = "starting"
    /\ caller' = At("idle", 1)
    /\ UNCHANGED <<running, stopped, pc, queue, pushes, starts>>

StartThread ==
    /\ caller.at = "starting"
    /\ pc[Order[caller.i]] = "none"
    /\ pc' = [pc EXCEPT ![Order[caller.i]] = "loop"]
    /\ caller' = IF caller.i = Len(Order) THEN At("idle", 1)
                 ELSE At("starting", caller.i + 1)
    /\ UNCHANGED <<running, stopped, queue, pushes, starts>>

\* assigning to a joinable std::thread calls std::terminate
StartTerminates ==
    /\ caller.at = "starting"
    /\ pc[Order[caller.i]] # "none"
    /\ caller' = At("terminated", 1)
    /\ UNCHANGED <<running, stopped, pc, queue, pushes, starts>>

-----------------------------------------------------------------------------
(* Stop.                                                                   *)

StopBegin ==
    /\ caller.at = "idle"
    /\ running' = FALSE
    /\ caller' = At("stopping", 1)
    /\ UNCHANGED <<stopped, pc, queue, pushes, starts>>

\* mutants: the context is not stopped; the context's thread is not joined
StopContextForgotten ==
    /\ caller.at = "stopping"
    /\ caller' = At("joining", 1)
    /\ UNCHANGED <<running, stopped, pc, queue, pushes, starts>>

StopContextUnjoined ==
    /\ caller.at = "stopping"
    /\ stopped' = TRUE
    /\ caller' = At("joining", 2)
    /\ UNCHANGED <<running, pc, queue, pushes, starts>>

StopContext ==
    /\ caller.at = "stopping"
    /\ stopped' = TRUE
    /\ caller' = At("joining", 1)
    /\ UNCHANGED <<running, pc, queue, pushes, starts>>

\* if (joinable()) join();
Join ==
    /\ caller.at = "joining"
    /\ pc[Order[caller.i]] \in {"none", "exit"}
    /\ pc' = [pc EXCEPT ![Order[caller.i]] = "none"]
    /\ caller' = IF caller.i = Len(Order) THEN At("idle", 1)
                 ELSE At("joining", caller.i + 1)
    /\ UNCHANGED <<running, stopped, queue, pushes, starts>>

-----------------------------------------------------------------------------
(* m_context.run(): the armed accept keeps it busy until it is stopped.    *)

ContextRun ==
    /\ Alive
    /\ pc["context"] = "loop"
    /\ ~stopped
    /\ pc' = [pc EXCEPT !["context"] = "run"]
    /\ UNCHANGED <<running, stopped, queue, pushes, caller, starts>>

ContextReturn ==
    /\ Alive
    /\ pc["context"] \in {"loop", "run"}
    /\ stopped
    /\ pc' = [pc EXCEPT !["context"] = "exit"]
    /\ UNCHANGED <<running, stopped, queue, pushes, caller, starts>>

-----------------------------------------------------------------------------
(* The workers: while (running) { queue.wait(); while (!empty()) handle }. *)

LoopTest(w) ==
    /\ pc[w] = "loop"
    /\ pc' = [pc EXCEPT ![w] = IF running THEN "wait" ELSE "exit"]
    /\ UNCHANGED queue

WaitTest(w) ==
    /\ pc[w] = "wait"
    /\ pc' = [pc EXCEPT ![w] = IF queue[w] = 0 THEN "block" ELSE "drain"]
    /\ UNCHANGED queue

WaitBlock(w) ==
    /\ pc[w] = "block"
    /\ pc' = [pc EXCEPT ![w] = "asleep"]
    /\ UNCHANGED queue

\* mutant: pop_front of an empty queue
HandleUnchecked(w) ==
    /\ pc[w] = "drain"
    /\ queue' = [queue EXCEPT ![w] = @ - 1]
    /\ UNCHANGED pc

Handle(w) ==
    /\ pc[w] = "drain"
    /\ queue[w] > 0
    /\ queue' = [queue EXCEPT ![w] = @ - 1]
    /\ UNCHANGED pc

DrainDone(w) ==
    /\ pc[w] = "drain"
    /\ queue[w] = 0
    /\ pc' = [pc EXCEPT ![w] = "loop"]
    /\ UNCHANGED queue

WorkerStep(w) ==
    /\ Alive
    /\ LoopTest(w) \/ WaitTest(w) \/ WaitBlock(w) \/ Handle(w) \/ DrainDone(w)
    /\ UNCHANGED <<running, stopped, pushes, caller, starts>>

\* who fills which queue: any thread of the program m_msgOut, the handlers
\* on the context m_msgIn, a worker that handles a message clientsToRemove
MayPush(w) ==
    CASE w = "out" -> TRUE
      [] w = "in"  -> pc["context"] = "run"
      [] w = "rem" -> \E v \in Workers : pc[v] = "drain"

Push(w) ==
    /\ Alive
    /\ pushes < MaxPush
    /\ MayPush(w)
    /\ pushes' = pushes + 1
    /\ queue' = [queue EXCEPT ![w] = @ + 1]
    /\ pc' = IF pc[w] = "asleep" THEN [pc EXCEPT ![w] = "wait"] ELSE pc
    /\ UNCHANGED <<running, stopped, caller, starts>>

-----------------------------------------------------------------------------
CallerStep == StartThread \/ StartTerminates \/ StopContext \/ Join
ContextStep == ContextRun \/ ContextReturn

Next ==
    \/ StartBegin
    \/ StartThrows
    \/ StopBegin
    \/ CallerStep
    \/ ContextStep
    \/ \E w \in Workers : WorkerStep(w) \/ Push(w)

Spec == Init /\ [][Next]_vars

(* Every thread is scheduled, calls in progress go on.                     *)
FairSpec ==
    /\ Spec
    /\ WF_vars(CallerStep)
    /\ WF_vars(ContextStep)
    /\ \A w \in Workers : WF_vars(WorkerStep(w))

-----------------------------------------------------------------------------
(* Types of all variables.                                                 *)
TypeOK ==
    /\ running \in BOOLEAN
    /\ stopped \in BOOLEAN
    /\ pc \in [Threads -> {"none", "loop", "run", "wait", "block", "asleep",
                           "drain", "exit"}]
    /\ queue \in [Workers -> 0..MaxPush]
    /\ pushes \in 0..MaxPush
    /\ caller \in [at : {"idle", "starting", "stopping", "joining", "terminated"},
                   i : 1..4]
    /\ starts \in 0..MaxStarts

(* When Stop has returned, no thread is left that could call back, and a   *)
(* caller that starts only while isRunning() is false never makes Start    *)
(* assign to a thread that is still joinable, which would terminate.       *)
StopJoinsAll ==
    caller.at = "idle" /\ ~running => \A t \in Threads : pc[t] = "none"

(* Stop joins the threads one after the other.  The thread it is joining   *)
(* exits and Stop goes on, or that thread is a worker in tsqueue::wait on  *)
(* a queue nobody fills, and stays there; the context's thread never keeps *)
(* Stop waiting, however idle the system is.                               *)
StopWaitsOnlyForSleepers == \A i \in DOMAIN Order :
    caller = At("joining", i) ~>
        \/ caller # At("joining", i)
        \/ [](caller = At("joining", i) /\ pc[Order[i]] = "asleep")
=============================================================================
