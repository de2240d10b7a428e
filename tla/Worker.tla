-------------------------------- MODULE Worker --------------------------------
(***************************************************************************)
(* The CUDA worker processes of the reference deployment. A worker         *)
(* connects to the coordinator, sends HELLO, REGISTER and PUBLISH_CAPACITY *)
(* and then serves ALLOCATE and RELEASE in order until its connection      *)
(* ends. It may die at any moment; the driver then takes its memory back.  *)
(*                                                                         *)
(* A worker process stands for its boot id: fresh_boot() mixes the process *)
(* id with a timer, and is taken to be unique. A connection is a pair of   *)
(* FIFO queues of frames, as TCP with send_exact and recv_exact gives it;  *)
(* sizes of allocations play no part. No one sends a worker SHUTDOWN.      *)
(***************************************************************************)
EXTENDS Integers, Sequences

CONSTANTS
    Workers,        \* worker processes, one boot each
    Ids,            \* allocation ids controllers use
    Gens            \* allocation generations controllers use

ASSUME GensAssumption == Gens \subseteq Nat \ {0}

VARIABLES
    wstate,         \* life of each worker process
    greeted,        \* frames of its greeting sent: HELLO, REGISTER, PUBLISH_CAPACITY
    allocs,         \* allocs: the generation it holds each id under, 0 for none
    to_worker,      \* frames sent to each worker
    from_worker,    \* frames sent by each worker
    open,           \* connections the coordinator has not closed
    backlog         \* connections waiting in the listener's queue

workers == <<wstate, greeted, allocs, to_worker, from_worker>>

Greeting == 3
NoAllocs == [id \in Ids |-> 0]
Alive(w) == wstate[w] \in {"greeting", "serving"}

\* connect_loopback: the connection waits in the backlog until it is accepted.
WorkerConnect(w) ==
    /\ wstate[w] = "off"
    /\ wstate' = [wstate EXCEPT ![w] = "greeting"]
    /\ backlog' = Append(backlog, w)
    /\ UNCHANGED <<greeted, allocs, to_worker, from_worker, open>>

\* Mutation: the last frame of the greeting miscounted.
AfterGreetingMiscounted(n) == IF n > Greeting THEN "serving" ELSE "greeting"

AfterGreeting(n) == IF n = Greeting THEN "serving" ELSE "greeting"

\* The next frame of the greeting; after the last one the worker serves.
WorkerGreet(w) ==
    /\ wstate[w] = "greeting"
    /\ greeted' = [greeted EXCEPT ![w] = @ + 1]
    /\ wstate' = [wstate EXCEPT ![w] = AfterGreeting(greeted[w] + 1)]
    /\ UNCHANGED <<allocs, to_worker, from_worker, open, backlog>>

Answer(w, type, m, ok) ==
    /\ to_worker' = [to_worker EXCEPT ![w] = Tail(@)]
    /\ from_worker' = [from_worker EXCEPT ![w] =
                          Append(@, [type |-> type, id |-> m.id, gen |-> m.gen, ok |-> ok])]

\* ALLOCATE: cudaMalloc may succeed or fail.
ServeAllocate(w, m) ==
    \E ok \in BOOLEAN :
        /\ allocs' = IF ok THEN [allocs EXCEPT ![w][m.id] = m.gen] ELSE allocs
        /\ Answer(w, "ALLOCATE_RESULT", m, ok)

\* RELEASE: the id must be held under the very generation.
ServeRelease(w, m) ==
    LET held == allocs[w][m.id] = m.gen
    IN  /\ allocs' = IF held THEN [allocs EXCEPT ![w][m.id] = 0] ELSE allocs
        /\ Answer(w, "RELEASE_RESULT", m, held)

WorkerServe(w) ==
    /\ wstate[w] = "serving"
    /\ to_worker[w] # <<>>
    /\ LET m == Head(to_worker[w])
       IN  \/ m.type = "ALLOCATE" /\ ServeAllocate(w, m)
           \/ m.type = "RELEASE" /\ ServeRelease(w, m)
    /\ UNCHANGED <<wstate, greeted, open, backlog>>

\* What the worker has sent may still be read; what it was sent is lost.
Gone(w) ==
    /\ wstate' = [wstate EXCEPT ![w] = "dead"]
    /\ allocs' = [allocs EXCEPT ![w] = NoAllocs]
    /\ to_worker' = [to_worker EXCEPT ![w] = <<>>]
    /\ UNCHANGED <<greeted, from_worker, open, backlog>>

\* recv_frame fails once the coordinator has closed the connection.
WorkerDisconnect(w) == Alive(w) /\ ~open[w] /\ Gone(w)

\* The process is killed, or crashes.
WorkerDie(w) == Alive(w) /\ Gone(w)

WorkersInit ==
    /\ wstate = [w \in Workers |-> "off"]
    /\ greeted = [w \in Workers |-> 0]
    /\ allocs = [w \in Workers |-> NoAllocs]
    /\ to_worker = [w \in Workers |-> <<>>]
    /\ from_worker = [w \in Workers |-> <<>>]
==============================================================================
