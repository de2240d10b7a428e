----------------------------- MODULE Coordinator -----------------------------
(***************************************************************************)
(* The coordinator of the reference deployment, with the controllers that  *)
(* use it and the workers it forwards to: one thread that polls the        *)
(* listener and the controller's connection, reads a greeting or a request *)
(* with a blocking receive, and forwards ALLOCATE and RELEASE to the one   *)
(* registered worker, blocked until it answers or its connection fails.    *)
(*                                                                         *)
(* worker stands for the pair worker, worker_boot of the code, which are   *)
(* set and cleared together. A receive from a peer that has died may still *)
(* deliver what it sent or fail at once (the connection was reset).        *)
(*                                                                         *)
(* No result carries a boot, so a controller that names one in a RELEASE   *)
(* has it from elsewhere (both processes print it): granted remembers the  *)
(* boots that an id was allocated under.                                   *)
(***************************************************************************)
EXTENDS Worker

CONSTANTS
    Controllers,        \* controller processes
    ReuseIds,           \* whether controllers ask for an id more than once
    Nobody              \* INVALID_SOCKET, and the boot 0 of a RELEASE that names none

ASSUME PeersAssumption ==
    Nobody \notin Workers \cup Controllers /\ Workers \cap Controllers = {}

ASSUME ReuseAssumption == ReuseIds \in BOOLEAN

VARIABLES
    pc,             \* where the coordinator's loop is
    ctrl_ready,     \* fds[1].revents of the last poll
    peer,           \* the connection being accepted
    ctrl,           \* ctrl: the controller's connection
    worker,         \* worker, worker_boot
    g_alloc,        \* g_alloc: generation, boot and current flag by id
    request,        \* the request forwarded to the worker
    cstate,         \* life of each controller process
    frames,         \* requests each controller has sent
    replies,        \* replies sent to each controller
    waiting,        \* each controller: a request of its own is unanswered
    used,           \* ids already allocated by some controller
    granted,        \* ids and the boots that allocated them
    told_dead       \* workers reported as dead to a controller

loop == <<pc, ctrl_ready, peer, ctrl, worker>>
controllers == <<cstate, frames, waiting, used>>
history == <<granted, told_dead>>
vars == <<workers, open, backlog, loop, g_alloc, request, controllers, replies, history>>

Unknown == [gen |-> 0, boot |-> Nobody, current |-> FALSE]
NoRequest == [type |-> "NONE", id |-> 0, gen |-> 0, boot |-> Nobody]

-----------------------------------------------------------------------------
(* Controllers: one request at a time, any generation, ids of their own or *)
(* (ReuseIds) ids asked for before. SHUTDOWN is answered by the end of the *)
(* connection.                                                             *)

Message(type, id, gen, boot) == [type |-> type, id |-> id, gen |-> gen, boot |-> boot]

\* Ids a controller may ask for, and boots it may name in a release of id.
Askable == IF ReuseIds THEN Ids ELSE Ids \ used
BootsOf(id) == {Nobody} \cup {w \in Workers : <<id, w>> \in granted}

\* connect_loopback and HELLO.
ControllerConnect(c) ==
    /\ cstate[c] = "off" /\ pc # "down"
    /\ cstate' = [cstate EXCEPT ![c] = "open"]
    /\ backlog' = Append(backlog, c)
    /\ UNCHANGED <<workers, open, loop, g_alloc, request, frames, waiting, used,
                   replies, history>>

Send(c, m) ==
    /\ cstate[c] = "open" /\ ~waiting[c]
    /\ frames' = [frames EXCEPT ![c] = Append(@, m)]
    /\ waiting' = [waiting EXCEPT ![c] = TRUE]
    /\ used' = IF m.type = "ALLOCATE" THEN used \cup {m.id} ELSE used
    /\ UNCHANGED <<workers, open, backlog, loop, g_alloc, request, cstate, replies, history>>

ControllerSend(c) ==
    \/ \E id \in Askable, gen \in Gens : Send(c, Message("ALLOCATE", id, gen, Nobody))
    \/ \E id \in used, gen \in Gens : \E boot \in BootsOf(id) :
          Send(c, Message("RELEASE", id, gen, boot))
    \/ Send(c, Message("QUERY", 0, 0, Nobody))
    \/ Send(c, Message("SHUTDOWN", 0, 0, Nobody))

ControllerReceive(c) ==
    /\ cstate[c] = "open" /\ replies[c] # <<>>
    /\ replies' = [replies EXCEPT ![c] = Tail(@)]
    /\ waiting' = [waiting EXCEPT ![c] = FALSE]
    /\ UNCHANGED <<workers, open, backlog, loop, g_alloc, request, cstate, frames,
                   used, history>>

Leave(c) ==
    /\ cstate' = [cstate EXCEPT ![c] = "gone"]
    /\ waiting' = [waiting EXCEPT ![c] = FALSE]
    /\ UNCHANGED <<workers, open, backlog, loop, g_alloc, request, frames, used,
                   replies, history>>

\* The controller closes its connection or dies, or finds it closed.
ControllerClose(c) == cstate[c] = "open" /\ Leave(c)
ControllerDisconnect(c) == cstate[c] = "open" /\ ~open[c] /\ Leave(c)

-----------------------------------------------------------------------------
(* The loop: poll, accept at most one connection, read at most one request. *)

\* A receive from the peer fails: it is gone.
Lost(p) == IF p \in Workers THEN wstate[p] = "dead" ELSE cstate[p] = "gone"

CtrlReadable == ctrl # Nobody /\ (frames[ctrl] # <<>> \/ Lost(ctrl))

Poll ==
    /\ pc = "poll"
    /\ backlog # <<>> \/ CtrlReadable
    /\ ctrl_ready' = CtrlReadable
    /\ pc' = IF backlog # <<>> THEN "accept" ELSE "request"
    /\ UNCHANGED <<workers, open, backlog, peer, ctrl, worker, g_alloc, request,
                   controllers, replies, history>>

Accept ==
    /\ pc = "accept"
    /\ peer' = Head(backlog)
    /\ backlog' = Tail(backlog)
    /\ pc' = "greeting"
    /\ UNCHANGED <<workers, open, ctrl_ready, ctrl, worker, g_alloc, request,
                   controllers, replies, history>>

\* Mutation: the readiness of the old controller's connection forgotten.
NextStagePolled(c) == IF c # Nobody THEN "request" ELSE "poll"

\* Where the loop goes with c as the controller: the poll's answer about the
\* connection that was the controller's then is applied to c.
NextStage(c) == IF ctrl_ready /\ c # Nobody THEN "request" ELSE "poll"

Closed(p) == IF p = Nobody THEN open ELSE [open EXCEPT ![p] = FALSE]

\* HELLO, REGISTER and PUBLISH_CAPACITY read: the new worker replaces the old.
RegisterWorker ==
    /\ pc = "greeting" /\ peer \in Workers
    /\ greeted[peer] = Greeting
    /\ open' = Closed(worker)
    /\ worker' = peer
    /\ peer' = Nobody /\ ctrl_ready' = FALSE
    /\ pc' = NextStage(ctrl)
    /\ UNCHANGED <<workers, backlog, ctrl, g_alloc, request,
                   controllers, replies, history>>

AcceptController ==
    /\ pc = "greeting" /\ peer \in Controllers
    /\ open' = Closed(ctrl)
    /\ ctrl' = peer
    /\ peer' = Nobody /\ ctrl_ready' = FALSE
    /\ pc' = NextStage(peer)
    /\ UNCHANGED <<workers, backlog, worker, g_alloc, request,
                   controllers, replies, history>>

AcceptFailed ==
    /\ pc = "greeting" /\ Lost(peer)
    /\ open' = Closed(peer)
    /\ peer' = Nobody /\ ctrl_ready' = FALSE
    /\ pc' = "poll"
    /\ UNCHANGED <<workers, backlog, ctrl, worker, g_alloc, request,
                   controllers, replies, history>>

-----------------------------------------------------------------------------
(* Requests. *)

\* A result: the request's id and generation, and no boot.
Reply(c, m, status) ==
    replies' = [replies EXCEPT ![c] = Append(@, Message(status, m.id, m.gen, Nobody))]

ControllerGone ==
    /\ pc = "request" /\ Lost(ctrl)
    /\ open' = Closed(ctrl)
    /\ ctrl' = Nobody
    /\ pc' = "poll"
    /\ UNCHANGED <<workers, backlog, ctrl_ready, peer, worker, g_alloc, request,
                   controllers, replies, history>>

\* Mutation: a release matched by id and generation only.
ReleasableUnfenced(m) == worker # Nobody /\ g_alloc[m.id].gen = m.gen

\* The allocation is known under this generation and of the registered boot.
\* The boot that the release names is passed on and never compared.
Releasable(m) ==
    /\ g_alloc[m.id] # Unknown
    /\ g_alloc[m.id].gen = m.gen
    /\ g_alloc[m.id].boot = worker

Forwarded(m) ==
    \/ m.type = "ALLOCATE" /\ worker # Nobody
    \/ m.type = "RELEASE" /\ Releasable(m)

\* Mutation: a release forwarded without waiting for its result.
AwaitUnlessRelease(m) == pc' = IF m.type = "RELEASE" THEN "poll" ELSE "await"

Await(m) == pc' = "await"

Forward(m) ==
    /\ Forwarded(m)
    /\ to_worker' = [to_worker EXCEPT ![worker] = IF Alive(worker) THEN Append(@, m) ELSE @]
    /\ request' = m
    /\ Await(m)
    /\ UNCHANGED <<open, replies>>

\* Answered at once: QUERY, no worker, or a stale or unknown release.
Refuse(m) ==
    /\ m.type # "SHUTDOWN" /\ ~Forwarded(m)
    /\ Reply(ctrl, m, IF m.type = "QUERY" THEN "QUERY_RESULT" ELSE "REFUSED")
    /\ pc' = "poll"
    /\ UNCHANGED <<open, to_worker, request>>

Shutdown(m) ==
    /\ m.type = "SHUTDOWN"
    /\ open' = [p \in Workers \cup Controllers |-> FALSE]
    /\ pc' = "down"
    /\ UNCHANGED <<to_worker, request, replies>>

Dispatch ==
    /\ pc = "request" /\ frames[ctrl] # <<>>
    /\ frames' = [frames EXCEPT ![ctrl] = Tail(@)]
    /\ LET m == Head(frames[ctrl]) IN Forward(m) \/ Refuse(m) \/ Shutdown(m)
    /\ UNCHANGED <<wstate, greeted, allocs, from_worker, backlog, ctrl_ready, peer, ctrl,
                   worker, g_alloc, cstate, waiting, used, history>>

\* Mutation: the worker's status taken for success.
EntryAssumed(m, ok) == [gen |-> m.gen, boot |-> worker, current |-> TRUE]

\* Mutation: an entry without the boot it was made under.
EntryUnbound(m, ok) == [gen |-> m.gen, boot |-> Nobody, current |-> ok]

Entry(m, ok) == [gen |-> m.gen, boot |-> worker, current |-> ok]

\* The result has the type of the request's result.
Matching(a) ==
    a.type = IF request.type = "ALLOCATE" THEN "ALLOCATE_RESULT" ELSE "RELEASE_RESULT"

\* The worker's result: recorded for ALLOCATE, passed on for both.
WorkerAnswered ==
    /\ pc = "await" /\ from_worker[worker] # <<>> /\ Matching(Head(from_worker[worker]))
    /\ LET ok == Head(from_worker[worker]).ok
       IN  /\ g_alloc' = IF request.type = "ALLOCATE"
                         THEN [g_alloc EXCEPT ![request.id] = Entry(request, ok)] ELSE g_alloc
           /\ granted' = IF request.type = "ALLOCATE" /\ ok
                         THEN granted \cup {<<request.id, worker>>} ELSE granted
           /\ Reply(ctrl, request, IF ok THEN "OK" ELSE "FAILED")
    /\ from_worker' = [from_worker EXCEPT ![worker] = Tail(@)]
    /\ request' = NoRequest
    /\ pc' = "poll"
    /\ UNCHANGED <<wstate, greeted, allocs, to_worker, open, backlog, ctrl_ready, peer, ctrl,
                   worker, controllers, told_dead>>

\* Every entry of a boot loses its current flag.
Fenced(w) == [id \in Ids |-> IF g_alloc[id].boot = w
                             THEN [g_alloc[id] EXCEPT !.current = FALSE] ELSE g_alloc[id]]

\* Mutation: the death noted and no answer given.
DeathUnanswered == UNCHANGED replies

DeathAnswered == Reply(ctrl, request, "WORKER_DEAD")

\* No result: the connection failed, or another frame came.
NoResult ==
    \/ Lost(worker)
    \/ from_worker[worker] # <<>> /\ ~Matching(Head(from_worker[worker]))

\* The worker taken for dead. ALLOCATE fences the boot and forgets the worker;
\* RELEASE only reports the death.
WorkerDead ==
    /\ pc = "await" /\ NoResult
    /\ IF request.type = "ALLOCATE"
       THEN /\ g_alloc' = Fenced(worker)
            /\ open' = Closed(worker)
            /\ worker' = Nobody
       ELSE UNCHANGED <<g_alloc, open, worker>>
    /\ DeathAnswered
    /\ told_dead' = told_dead \cup {worker}
    /\ from_worker' = [from_worker EXCEPT ![worker] = IF Lost(worker) THEN <<>> ELSE Tail(@)]
    /\ request' = NoRequest
    /\ pc' = "poll"
    /\ UNCHANGED <<wstate, greeted, allocs, to_worker, backlog, ctrl_ready, peer, ctrl,
                   controllers, granted>>

-----------------------------------------------------------------------------
CoordinatorStep ==
    \/ Poll \/ Accept \/ RegisterWorker \/ AcceptController \/ AcceptFailed
    \/ ControllerGone \/ Dispatch \/ WorkerAnswered \/ WorkerDead

WorkerStep(w) == WorkerGreet(w) \/ WorkerServe(w) \/ WorkerDisconnect(w)

\* A worker's step, with everything that is not its own left alone.
OfWorker(A) == A /\ UNCHANGED <<loop, g_alloc, request, controllers, replies, history>>

CoordinatorInit ==
    /\ WorkersInit
    /\ open = [p \in Workers \cup Controllers |-> TRUE]
    /\ backlog = <<>>
    /\ pc = "poll" /\ ctrl_ready = FALSE
    /\ peer = Nobody /\ ctrl = Nobody /\ worker = Nobody
    /\ g_alloc = [id \in Ids |-> Unknown]
    /\ request = NoRequest
    /\ cstate = [c \in Controllers |-> "off"]
    /\ frames = [c \in Controllers |-> <<>>]
    /\ replies = [c \in Controllers |-> <<>>]
    /\ waiting = [c \in Controllers |-> FALSE]
    /\ used = {}
    /\ granted = {} /\ told_dead = {}

CoordinatorNext ==
    \/ CoordinatorStep
    \/ \E w \in Workers : OfWorker(pc # "down" /\ WorkerConnect(w))
    \/ \E w \in Workers : OfWorker(WorkerStep(w))
    \/ \E w \in Workers : OfWorker(WorkerDie(w))
    \/ \E c \in Controllers : ControllerConnect(c)
    \/ \E c \in Controllers : ControllerSend(c)
    \/ \E c \in Controllers : ControllerReceive(c)
    \/ \E c \in Controllers : ControllerClose(c)
    \/ \E c \in Controllers : ControllerDisconnect(c)

\* The operating system runs every process that can run; whether and when a
\* process starts, dies, asks or leaves is its own affair.
Fairness ==
    /\ WF_vars(CoordinatorStep)
    /\ \A w \in Workers : WF_vars(OfWorker(WorkerStep(w)))
    /\ \A c \in Controllers : WF_vars(ControllerReceive(c) \/ ControllerDisconnect(c))

CoordinatorSpec == CoordinatorInit /\ [][CoordinatorNext]_vars /\ Fairness

-----------------------------------------------------------------------------
(* Correctness. *)

MessageType == [type : {"ALLOCATE", "RELEASE", "QUERY", "SHUTDOWN", "NONE"},
                id : Ids \cup {0}, gen : Gens \cup {0}, boot : Workers \cup {Nobody}]

(* Types of the deployment's state. While the coordinator waits for a      *)
(* worker or for a request there is one to wait for: it never sends on     *)
(* INVALID_SOCKET.                                                         *)
CoordinatorTypeOK ==
    /\ pc \in {"poll", "accept", "greeting", "request", "await", "down"}
    /\ worker \in Workers \cup {Nobody} /\ ctrl \in Controllers \cup {Nobody}
    /\ g_alloc \in [Ids -> [gen : Gens \cup {0}, boot : Workers \cup {Nobody}, current : BOOLEAN]]
    /\ request \in MessageType
    /\ allocs \in [Workers -> [Ids -> Gens \cup {0}]]
    /\ greeted \in [Workers -> 0 .. Greeting]
    /\ pc = "await" => worker # Nobody
    /\ pc = "request" => ctrl # Nobody

InFlight(w) == Len(to_worker[w]) + Len(from_worker[w])

(* Coordinator and worker stay in step: between a live registered worker   *)
(* and the coordinator there is one frame while it waits and none          *)
(* otherwise, through replaced workers and failed requests, so an answer   *)
(* is always the answer to the request it is taken for (its type is        *)
(* compared, its id and generation never).                                 *)
Lockstep ==
    worker # Nobody /\ wstate[worker] = "serving" =>
        /\ InFlight(worker) = IF pc = "await" THEN 1 ELSE 0
        /\ \A i \in DOMAIN from_worker[worker] :
              LET a == from_worker[worker][i]
              IN  Matching(a) /\ a.id = request.id /\ a.gen = request.gen

(* No device memory is orphaned: whatever the registered worker holds      *)
(* between requests, the coordinator has an entry for it, of this boot and *)
(* generation, under which a controller can release it. For controllers    *)
(* that ask for an id once: asked for again, an id whose second ALLOCATE   *)
(* fails has the entry of the failure and the memory of the first.         *)
NoOrphans ==
    pc # "await" /\ worker # Nobody =>
        \A id \in Ids : allocs[worker][id] # 0 =>
            g_alloc[id] = [gen |-> allocs[worker][id], boot |-> worker, current |-> TRUE]

(* "Every frame carries enough authority (worker boot, allocation          *)
(* generation, epoch) to reject stale traffic" (protocol.hpp): a RELEASE   *)
(* that names the boot it was granted its allocation under never reaches   *)
(* another boot, however late it is sent. Nothing compares the boot: it    *)
(* holds because of the table's own, as long as ids are asked for once,    *)
(* and fails when an id is asked for again under a later boot.             *)
StaleBootRefused ==
    \A w \in Workers : \A i \in DOMAIN to_worker[w] :
        to_worker[w][i].type = "RELEASE" => to_worker[w][i].boot \in {w, Nobody}

(* worker.cpp: "A stale boot must never publish an allocation completion": *)
(* an entry becomes current only on behalf of the registered worker, which *)
(* then holds the allocation or has died since.                            *)
CompletionsCurrent ==
    [][\A id \in Ids : g_alloc'[id].current /\ ~g_alloc[id].current =>
          /\ g_alloc'[id].boot = worker
          /\ wstate[worker] = "serving" => allocs[worker][id] = g_alloc'[id].gen]_vars

(* Every request is answered, or its connection ends: no death of a worker *)
(* at any point leaves the controller waiting.                             *)
Answered == \A c \in Controllers : waiting[c] ~> ~waiting[c]

(* "accept any new connection": a worker that connects is registered       *)
(* unless it dies first.                                                   *)
WorkersAccepted ==
    \A w \in Workers : wstate[w] = "greeting" ~> (worker = w \/ wstate[w] = "dead")

(* "worker-death fenced all allocations" (test_worker_death.cpp): once a   *)
(* controller has been told that a worker is dead, none of its allocations *)
(* is current.                                                             *)
DeadFenced == \A id \in Ids : g_alloc[id].current => g_alloc[id].boot \notin told_dead
==============================================================================
