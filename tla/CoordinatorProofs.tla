-------------------------- MODULE CoordinatorProofs --------------------------
(***************************************************************************)
(* Proofs about Coordinator, for every number of workers and controllers   *)
(* and every set of ids and generations: workers that die, connect late or *)
(* replace one another at any point of the coordinator's loop.             *)
(***************************************************************************)
EXTENDS Coordinator, SequenceTheorems, TLAPS

-----------------------------------------------------------------------------
(* The inductive invariant, in five parts. *)

Processes == Workers \cup Controllers

\* A frame of a controller: a request about an allocation names one.
Named(m) == m.type \in {"ALLOCATE", "RELEASE"} => m.id \in Ids /\ m.gen \in Gens
SentType == {m \in MessageType : Named(m)}

AnswerType == [type : {"ALLOCATE_RESULT", "RELEASE_RESULT"}, id : Ids, gen : Gens, ok : BOOLEAN]

Awaits == pc = "await"
AwaitsAllocate == Awaits /\ request.type = "ALLOCATE"
AwaitsRelease == Awaits /\ request.type = "RELEASE"

\* Types, and that the loop is never at a stage without what the stage needs.
Typed ==
    /\ CoordinatorTypeOK
    /\ wstate \in [Workers -> {"off", "greeting", "serving", "dead"}]
    /\ to_worker \in [Workers -> Seq(SentType)]
    /\ from_worker \in [Workers -> Seq(AnswerType)]
    /\ frames \in [Controllers -> Seq(SentType)]
    /\ backlog \in Seq(Processes)
    /\ peer \in Processes \cup {Nobody}
    /\ used \subseteq Ids
    /\ pc = "accept" => backlog # <<>>
    /\ Awaits => request \in SentType /\ request.type \in {"ALLOCATE", "RELEASE"}

\* What the worker's answer a to the request says of its allocations.
Truthful(w, a) ==
    /\ Matching(a) /\ a.id = request.id /\ a.gen = request.gen
    /\ wstate[w] = "serving" /\ request.type = "ALLOCATE" =>
          /\ a.ok => allocs[w][request.id] = request.gen
          /\ ~a.ok /\ ~ReuseIds => allocs[w][request.id] = 0

(* A frame is under way only between the coordinator and the worker it is  *)
(* waiting for: the request itself, or the answer to it.                   *)
Flight ==
    /\ \A w \in Workers : to_worker[w] # <<>> =>
          /\ Awaits /\ w = worker /\ wstate[w] = "serving"
          /\ to_worker[w] = <<request>> /\ from_worker[w] = <<>>
          /\ request.type = "ALLOCATE" /\ ~ReuseIds => allocs[w][request.id] = 0
    /\ \A w \in Workers : from_worker[w] # <<>> =>
          /\ Awaits /\ w = worker
          /\ \E a \in AnswerType : from_worker[w] = <<a>> /\ Truthful(w, a)
    /\ Awaits /\ wstate[worker] = "serving" =>
          to_worker[worker] # <<>> \/ from_worker[worker] # <<>>

\* A connection that has not been dealt with yet.
Queued(w) == \E i \in 1 .. Len(backlog) : backlog[i] = w
Pending(w) == w = peer \/ Queued(w)

(* A worker connects once and is registered at most once; until then, and  *)
(* once it is dead, it holds nothing.                                      *)
Lives ==
    /\ \A w \in Workers :
          /\ wstate[w] = "off" => greeted[w] = 0
          /\ wstate[w] = "greeting" => greeted[w] < Greeting
          /\ wstate[w] = "off" => ~Pending(w)
          /\ wstate[w] = "off" \/ Pending(w) => w # worker /\ allocs[w] = NoAllocs
          /\ wstate[w] = "dead" => allocs[w] = NoAllocs
          /\ w = worker => wstate[w] \in {"serving", "dead"}
          /\ w = peer => ~Queued(w)
    /\ \A i, j \in 1 .. Len(backlog) : backlog[i] = backlog[j] /\ backlog[i] \in Workers => i = j

EntryFor(w, id) == [gen |-> allocs[w][id], boot |-> w, current |-> TRUE]

(* Every entry is of a boot; a release under way is of the registered one; *)
(* what the registered worker holds has its entry, but for the allocation  *)
(* it is being asked for, if ids are asked for once.                       *)
Entries ==
    /\ \A id \in Ids : g_alloc[id] = Unknown \/ g_alloc[id].boot \in Workers
    /\ AwaitsRelease => g_alloc[request.id].boot = worker /\ g_alloc[request.id].gen = request.gen
    /\ worker # Nobody /\ ~ReuseIds =>
          \A id \in Ids : allocs[worker][id] # 0 =>
             g_alloc[id] = EntryFor(worker, id) \/ (AwaitsAllocate /\ id = request.id)

\* No worker has been asked for id yet.
Untouched(id) ==
    /\ \A w \in Workers : allocs[w][id] = 0
    /\ ~(AwaitsAllocate /\ request.id = id)

Asks(c, i) == i \in 1 .. Len(frames[c]) /\ frames[c][i].type = "ALLOCATE"

\* No two frames ask for the same id.
AskedOnce ==
    \A c, d \in Controllers, i, j \in Nat :
       Asks(c, i) /\ Asks(d, j) /\ frames[c][i].id = frames[d][j].id => c = d /\ i = j

(* An id is asked for once. *)
FirstAsked ==
    /\ \A id \in Ids \ used : Untouched(id)
    /\ \A c \in Controllers, i \in Nat, id \in Ids :
          Asks(c, i) /\ frames[c][i].id = id => id \in used /\ Untouched(id)
    /\ AskedOnce

OnceOnly == ~ReuseIds => FirstAsked

CInv == Typed /\ Flight /\ Lives /\ Entries /\ OnceOnly

-----------------------------------------------------------------------------
(* Sequences of one element, and the ends of longer ones. *)

\* A sequence of one element.
LEMMA Single ==
    ASSUME NEW x
    PROVE  /\ Head(<<x>>) = x /\ Tail(<<x>>) = <<>> /\ Append(<<>>, x) = <<x>>
           /\ <<x>> # <<>> /\ Len(<<x>>) = 1 /\ Len(<< >>) = 0 /\ DOMAIN <<x>> = {1}
           /\ <<x>>[1] = x
  OBVIOUS

\* Taking the head of a queue leaves the rest, one place further on.
LEMMA Behead ==
    ASSUME NEW S, NEW q \in Seq(S), q # <<>>
    PROVE  /\ Head(q) \in S /\ Head(q) = q[1] /\ 1 \in 1 .. Len(q)
           /\ Tail(q) \in Seq(S) /\ Len(Tail(q)) = Len(q) - 1 /\ Len(q) \in Nat
           /\ \A i \in 1 .. Len(Tail(q)) : i + 1 \in 1 .. Len(q) /\ Tail(q)[i] = q[i + 1]
  OBVIOUS

\* Joining a queue at its end.
LEMMA Join ==
    ASSUME NEW S, NEW q \in Seq(S), NEW x \in S
    PROVE  /\ Append(q, x) \in Seq(S) /\ Len(Append(q, x)) = Len(q) + 1 /\ Len(q) \in Nat
           /\ Append(q, x) # <<>>
           /\ \A i \in 1 .. Len(q) : Append(q, x)[i] = q[i]
           /\ Append(q, x)[Len(q) + 1] = x
  OBVIOUS

\* Between requests nothing is under way.
LEMMA NothingUnderWay ==
    ASSUME Flight, ~Awaits, NEW w \in Workers
    PROVE  to_worker[w] = <<>> /\ from_worker[w] = <<>>
  BY DEF Flight

-----------------------------------------------------------------------------
(* The coordinator's loop between requests. *)

\* A step outside of a request that leaves workers, entries and frames alone.
LEMMA IdleStep ==
    ASSUME CInv, ~Awaits, ~Awaits', UNCHANGED <<workers, g_alloc, frames, used>>,
           worker' = worker
    PROVE  Flight' /\ Entries' /\ OnceOnly'
<1>1. /\ wstate' = wstate /\ allocs' = allocs /\ to_worker' = to_worker
      /\ from_worker' = from_worker /\ g_alloc' = g_alloc /\ frames' = frames /\ used' = used
  BY DEF workers
<1>2. Flight'
  BY <1>1 DEF CInv, Flight
<1>3. Entries'
  BY <1>1 DEF CInv, Entries, EntryFor, AwaitsAllocate, AwaitsRelease
<1>4. OnceOnly'
  <2>1. \A id : Untouched(id) => Untouched(id)'
    BY <1>1 DEF Untouched, AwaitsAllocate
  <2>2. \A c, i : Asks(c, i)' <=> Asks(c, i)
    BY <1>1 DEF Asks
  <2>. QED  BY <1>1, <2>1, <2>2 DEF CInv, OnceOnly, FirstAsked, AskedOnce
<1>. QED  BY <1>2, <1>3, <1>4

\* A step that leaves workers and connections alone.
LEMMA LivesKept ==
    ASSUME Lives, wstate' = wstate, greeted' = greeted, allocs' = allocs,
           worker' = worker \/ worker' = Nobody, backlog' = backlog,
           peer' = peer \/ peer' = Nobody
    PROVE  Lives'
<1>1. \A w \in Workers : w # Nobody
  BY PeersAssumption
<1>2. \A w \in Workers : Queued(w)' <=> Queued(w)
  BY DEF Queued
<1>3. \A w \in Workers : Pending(w)' => Pending(w)
  BY <1>1, <1>2 DEF Pending
<1>. QED  BY <1>1, <1>2, <1>3 DEF Lives

\* The loop picks a readable connection.
LEMMA PollStep == CInv /\ Poll => CInv'
<1>. SUFFICES ASSUME CInv, Poll PROVE CInv'
  OBVIOUS
<1>1. ~Awaits /\ ~Awaits'
  BY DEF Poll, Awaits
<1>2. /\ UNCHANGED <<workers, g_alloc, frames, used>> /\ worker' = worker
      /\ wstate' = wstate /\ greeted' = greeted /\ allocs' = allocs
      /\ to_worker' = to_worker /\ from_worker' = from_worker
      /\ backlog' = backlog /\ peer' = peer /\ ctrl' = ctrl /\ request' = request
      /\ pc' = IF backlog # <<>> THEN "accept" ELSE "request"
      /\ backlog # <<>> \/ CtrlReadable
  BY DEF Poll, workers, controllers
<1>3. Flight' /\ Entries' /\ OnceOnly'
  BY <1>1, <1>2, IdleStep
<1>4. Lives'
  BY <1>2, LivesKept DEF CInv
<1>5. Typed'
  BY <1>1, <1>2 DEF CInv, Typed, CoordinatorTypeOK, CtrlReadable
<1>. QED  BY <1>3, <1>4, <1>5 DEF CInv

\* A new connection is taken in.
LEMMA AcceptStep == CInv /\ Accept => CInv'
<1>. SUFFICES ASSUME CInv, Accept PROVE CInv'
  OBVIOUS
<1>1. ~Awaits /\ ~Awaits'
  BY DEF Accept, Awaits
<1>2. /\ UNCHANGED <<workers, g_alloc, frames, used>> /\ worker' = worker
      /\ wstate' = wstate /\ greeted' = greeted /\ allocs' = allocs
      /\ to_worker' = to_worker /\ from_worker' = from_worker
      /\ peer' = Head(backlog) /\ backlog' = Tail(backlog)
      /\ ctrl' = ctrl /\ request' = request /\ pc' = "greeting"
  BY DEF Accept, workers, controllers
<1>3. backlog # <<>> /\ backlog \in Seq(Processes)
  BY DEF CInv, Typed, Accept
<1>4. /\ peer' \in Processes /\ peer' = backlog[1] /\ 1 \in 1 .. Len(backlog)
      /\ backlog' \in Seq(Processes) /\ Len(backlog') = Len(backlog) - 1 /\ Len(backlog) \in Nat
      /\ \A i \in 1 .. Len(backlog') : i + 1 \in 1 .. Len(backlog) /\ backlog'[i] = backlog[i + 1]
  BY <1>2, <1>3, Behead
<1>5. Flight' /\ Entries' /\ OnceOnly'
  BY <1>1, <1>2, IdleStep
<1>6. Typed'
  BY <1>1, <1>2, <1>4 DEF CInv, Typed, CoordinatorTypeOK
<1>7. Lives'
  <2>1. \A w \in Workers : Pending(w)' => Queued(w)
    BY <1>4 DEF Pending, Queued
  <2>2. \A w \in Workers : Pending(w)' => Pending(w)
    BY <2>1 DEF Pending
  <2>3. \A i, j \in 1 .. Len(backlog') :
           backlog'[i] = backlog'[j] /\ backlog'[i] \in Workers => i = j
    BY <1>4 DEF CInv, Lives
  <2>4. ASSUME NEW w \in Workers, w = peer', Queued(w)'
        PROVE  FALSE
    <3>1. PICK i \in 1 .. Len(backlog') : backlog'[i] = w
      BY <2>4 DEF Queued
    <3>2. i + 1 \in 1 .. Len(backlog) /\ backlog[i + 1] = backlog[1] /\ backlog[1] \in Workers
      BY <1>4, <2>4, <3>1
    <3>3. i + 1 = 1
      BY <1>4, <3>2 DEF CInv, Lives
    <3>. QED  BY <1>4, <3>1, <3>3
  <2>. QED  BY <1>2, <2>2, <2>3, <2>4 DEF CInv, Lives
<1>. QED  BY <1>5, <1>6, <1>7 DEF CInv

\* A worker that says hello is registered under its boot id.
LEMMA RegisterWorkerStep == CInv /\ RegisterWorker => CInv'
<1>. SUFFICES ASSUME CInv, RegisterWorker PROVE CInv'
  OBVIOUS
<1>1. ~Awaits /\ ~Awaits'
  BY DEF RegisterWorker, Awaits, NextStage
<1>2. /\ peer \in Workers /\ greeted[peer] = Greeting /\ worker' = peer /\ peer' = Nobody
      /\ wstate' = wstate /\ greeted' = greeted /\ allocs' = allocs
      /\ to_worker' = to_worker /\ from_worker' = from_worker
      /\ g_alloc' = g_alloc /\ frames' = frames /\ used' = used
      /\ backlog' = backlog /\ ctrl' = ctrl /\ request' = request
      /\ pc' = "poll" \/ (pc' = "request" /\ ctrl # Nobody)
  BY DEF RegisterWorker, workers, controllers, NextStage
<1>3. peer # Nobody /\ \A w \in Workers : w # Nobody
  BY <1>2, PeersAssumption
<1>4. /\ Pending(peer) /\ wstate[peer] # "off" /\ ~Queued(peer)
      /\ wstate[peer] # "greeting" /\ allocs[peer] = NoAllocs
  BY <1>2 DEF CInv, Lives, Pending, Greeting
<1>5. wstate[peer] \in {"serving", "dead"}
  BY <1>2, <1>4 DEF CInv, Typed
<1>6. Typed'
  BY <1>1, <1>2 DEF CInv, Typed, CoordinatorTypeOK
<1>7. Flight'
  BY <1>1, <1>2, NothingUnderWay DEF CInv, Flight
<1>8. Lives'
  <2>1. \A w \in Workers : Queued(w)' <=> Queued(w)
    BY <1>2 DEF Queued
  <2>2. \A w \in Workers : Pending(w)' <=> Queued(w)
    BY <1>2, <1>3, <2>1 DEF Pending
  <2>. QED  BY <1>2, <1>3, <1>4, <1>5, <2>1, <2>2 DEF CInv, Lives, Pending
<1>9. Entries'
  BY <1>1, <1>2, <1>4 DEF CInv, Entries, NoAllocs, AwaitsRelease
<1>10. OnceOnly'
  <2>1. \A id : Untouched(id) => Untouched(id)'
    BY <1>1, <1>2 DEF Untouched, AwaitsAllocate
  <2>2. \A c, i : Asks(c, i)' <=> Asks(c, i)
    BY <1>2 DEF Asks
  <2>. QED  BY <1>2, <2>1, <2>2 DEF CInv, OnceOnly, FirstAsked, AskedOnce
<1>. QED  BY <1>6, <1>7, <1>8, <1>9, <1>10 DEF CInv

\* A controller accepted, a greeting that failed, a controller gone.
LEMMA ConnectionStep ==
    CInv /\ (AcceptController \/ AcceptFailed \/ ControllerGone) => CInv'
<1>. SUFFICES ASSUME CInv, AcceptController \/ AcceptFailed \/ ControllerGone PROVE CInv'
  OBVIOUS
<1>1. ~Awaits /\ ~Awaits'
  BY DEF AcceptController, AcceptFailed, ControllerGone, Awaits, NextStage
<1>2. /\ UNCHANGED <<workers, g_alloc, frames, used>> /\ worker' = worker
      /\ wstate' = wstate /\ greeted' = greeted /\ allocs' = allocs
      /\ to_worker' = to_worker /\ from_worker' = from_worker
      /\ backlog' = backlog /\ request' = request
      /\ peer' = peer \/ peer' = Nobody
  BY DEF AcceptController, AcceptFailed, ControllerGone, workers, controllers
<1>3. /\ ctrl' \in Controllers \cup {Nobody}
      /\ pc' = "poll" \/ (pc' = "request" /\ ctrl' # Nobody)
  BY DEF AcceptController, AcceptFailed, ControllerGone, NextStage, CInv, Typed, CoordinatorTypeOK
<1>4. Flight' /\ Entries' /\ OnceOnly'
  BY <1>1, <1>2, IdleStep
<1>5. Lives'
  BY <1>2, LivesKept DEF CInv
<1>6. Typed'
  BY <1>1, <1>2, <1>3 DEF CInv, Typed, CoordinatorTypeOK
<1>. QED  BY <1>4, <1>5, <1>6 DEF CInv

-----------------------------------------------------------------------------
(* Requests. *)

\* A controller's first frame taken: the ones behind it are still asked once,
\* and not for what the first one asks.
LEMMA FrameTaken ==
    ASSUME CInv, ctrl \in Controllers, frames[ctrl] # <<>>,
           frames' = [frames EXCEPT ![ctrl] = Tail(@)]
    PROVE  /\ frames' \in [Controllers -> Seq(SentType)]
           /\ Head(frames[ctrl]) \in SentType /\ Head(frames[ctrl]) = frames[ctrl][1]
           /\ (Asks(ctrl, 1) <=> Head(frames[ctrl]).type = "ALLOCATE")
           /\ ~ReuseIds => AskedOnce'
           /\ \A c \in Controllers, i \in Nat : Asks(c, i)' =>
                 \E k \in Nat : /\ Asks(c, k) /\ frames'[c][i] = frames[c][k]
                                /\ k = IF c = ctrl THEN i + 1 ELSE i
<1>. DEFINE q == frames[ctrl]
<1>1. frames \in [Controllers -> Seq(SentType)] /\ q \in Seq(SentType)
  BY DEF CInv, Typed
<1>2. /\ Head(q) \in SentType /\ Head(q) = q[1] /\ 1 \in 1 .. Len(q)
      /\ Tail(q) \in Seq(SentType) /\ Len(Tail(q)) = Len(q) - 1 /\ Len(q) \in Nat
      /\ \A i \in 1 .. Len(Tail(q)) : i + 1 \in 1 .. Len(q) /\ Tail(q)[i] = q[i + 1]
  BY <1>1, Behead
<1>3. /\ frames' \in [Controllers -> Seq(SentType)] /\ frames'[ctrl] = Tail(q)
      /\ \A c \in Controllers : c # ctrl => frames'[c] = frames[c]
  BY <1>1, <1>2
<1>4. Asks(ctrl, 1) <=> Head(q).type = "ALLOCATE"
  BY <1>2 DEF Asks
<1>5. ASSUME NEW c \in Controllers, NEW i \in Nat, Asks(c, i)'
      PROVE  \E k \in Nat : /\ Asks(c, k) /\ frames'[c][i] = frames[c][k]
                            /\ k = IF c = ctrl THEN i + 1 ELSE i
  <2>1. CASE c = ctrl
    <3>1. i \in 1 .. Len(Tail(q)) /\ Tail(q)[i].type = "ALLOCATE"
      BY <1>3, <1>5, <2>1 DEF Asks
    <3>2. i + 1 \in 1 .. Len(q) /\ Tail(q)[i] = q[i + 1]
      BY <1>2, <3>1
    <3>3. i + 1 \in Nat /\ Asks(c, i + 1) /\ frames'[c][i] = frames[c][i + 1]
      BY <1>3, <2>1, <3>1, <3>2 DEF Asks
    <3>. QED  BY <2>1, <3>3
  <2>2. CASE c # ctrl
    BY <1>3, <1>5, <2>2 DEF Asks
  <2>. QED  BY <2>1, <2>2
<1>6. ~ReuseIds => AskedOnce'
  <2>. SUFFICES ASSUME ~ReuseIds, NEW c \in Controllers, NEW d \in Controllers, NEW i \in Nat, NEW j \in Nat,
                       Asks(c, i)', Asks(d, j)', frames'[c][i].id = frames'[d][j].id
                PROVE  c = d /\ i = j
    BY DEF AskedOnce
  <2>1. PICK k \in Nat : /\ Asks(c, k) /\ frames'[c][i] = frames[c][k]
                         /\ k = IF c = ctrl THEN i + 1 ELSE i
    BY <1>5
  <2>2. PICK l \in Nat : /\ Asks(d, l) /\ frames'[d][j] = frames[d][l]
                         /\ l = IF d = ctrl THEN j + 1 ELSE j
    BY <1>5
  <2>3. c = d /\ k = l
    <3>1. AskedOnce
      BY DEF CInv, OnceOnly, FirstAsked
    <3>2. frames[c][k].id = frames[d][l].id
      BY <2>1, <2>2
    <3>3. \A i1, i2 \in Nat :
            Asks(c, i1) /\ Asks(d, i2) /\ frames[c][i1].id = frames[d][i2].id => c = d /\ i1 = i2
      BY <3>1 DEF AskedOnce
    <3>4. k \in Nat /\ l \in Nat /\ Asks(c, k) /\ Asks(d, l)
      BY <2>1, <2>2
    <3>. QED  BY <3>2, <3>3, <3>4, Zenon
  <2>. QED  BY <2>1, <2>2, <2>3
<1>. QED  BY <1>2, <1>3, <1>4, <1>5, <1>6

\* A request the coordinator answers itself, or the end of the deployment.
LEMMA RefuseStep ==
    ASSUME CInv, Dispatch, ~Awaits'
    PROVE  CInv'
<1>1. pc = "request" /\ ctrl \in Controllers /\ ~Awaits
  BY DEF Dispatch, CInv, Typed, CoordinatorTypeOK, Awaits
<1>2. /\ frames' = [frames EXCEPT ![ctrl] = Tail(@)] /\ frames[ctrl] # <<>>
      /\ wstate' = wstate /\ greeted' = greeted /\ allocs' = allocs
      /\ from_worker' = from_worker
      /\ backlog' = backlog /\ peer' = peer /\ ctrl' = ctrl /\ worker' = worker
      /\ g_alloc' = g_alloc /\ used' = used
  BY DEF Dispatch
<1>3. /\ to_worker' = to_worker /\ request' = request /\ pc' \in {"poll", "down"}
  BY DEF Dispatch, Forward, Refuse, Shutdown, Await, Awaits
<1>4. Typed'
  BY <1>1, <1>2, <1>3, FrameTaken DEF CInv, Typed, CoordinatorTypeOK
<1>5. Flight'
  BY <1>1, <1>2, <1>3, NothingUnderWay DEF CInv, Flight
<1>6. Lives'
  BY <1>2, LivesKept DEF CInv
<1>7. Entries'
  BY <1>1, <1>2, <1>3 DEF CInv, Entries, EntryFor, AwaitsAllocate, AwaitsRelease
<1>8. OnceOnly'
  <2>1. \A id : Untouched(id) => Untouched(id)'
    BY <1>2 DEF Untouched, AwaitsAllocate
  <2>2. \A c \in Controllers, i \in Nat : Asks(c, i)' =>
           \E k \in Nat : /\ Asks(c, k) /\ frames'[c][i] = frames[c][k]
                          /\ k = IF c = ctrl THEN i + 1 ELSE i
    BY <1>1, <1>2, FrameTaken
  <2>. SUFFICES ASSUME ~ReuseIds PROVE FirstAsked'
    BY DEF OnceOnly
  <2>3. \A id \in Ids \ used : Untouched(id)'
    BY <2>1 DEF CInv, OnceOnly, FirstAsked
  <2>4. ASSUME NEW c \in Controllers, NEW i \in Nat, NEW id \in Ids,
               Asks(c, i)', frames'[c][i].id = id
        PROVE  id \in used /\ Untouched(id)'
    <3>1. PICK k \in Nat : Asks(c, k) /\ frames'[c][i] = frames[c][k]
      BY <2>2, <2>4
    <3>2. id \in used /\ Untouched(id)
      BY <2>4, <3>1 DEF CInv, OnceOnly, FirstAsked
    <3>. QED  BY <2>1, <3>2
  <2>5. AskedOnce'
    BY <1>1, <1>2, FrameTaken
  <2>. QED  BY <1>2, <2>3, <2>4, <2>5 DEF FirstAsked
<1>. QED  BY <1>4, <1>5, <1>6, <1>7, <1>8 DEF CInv

\* A request forwarded to the registered worker.
LEMMA ForwardStep ==
    ASSUME CInv, Dispatch, Forward(Head(frames[ctrl]))
    PROVE  CInv'
<1>. DEFINE m == Head(frames[ctrl])
<1>1. pc = "request" /\ ctrl \in Controllers /\ ~Awaits
  BY DEF Dispatch, CInv, Typed, CoordinatorTypeOK, Awaits
<1>2. /\ frames' = [frames EXCEPT ![ctrl] = Tail(@)] /\ frames[ctrl] # <<>>
      /\ wstate' = wstate /\ greeted' = greeted /\ allocs' = allocs
      /\ from_worker' = from_worker
      /\ backlog' = backlog /\ peer' = peer /\ ctrl' = ctrl /\ worker' = worker
      /\ g_alloc' = g_alloc /\ used' = used
  BY DEF Dispatch
<1>3. /\ Forwarded(m) /\ request' = m /\ pc' = "await" /\ Awaits'
      /\ to_worker' = [to_worker EXCEPT ![worker] = IF Alive(worker) THEN Append(@, m) ELSE @]
  BY DEF Forward, Await, Awaits
<1>4. /\ frames' \in [Controllers -> Seq(SentType)] /\ m \in SentType
      /\ m = frames[ctrl][1] /\ (Asks(ctrl, 1) <=> m.type = "ALLOCATE") /\ (~ReuseIds => AskedOnce')
      /\ \A c \in Controllers, i \in Nat : Asks(c, i)' =>
            \E k \in Nat : /\ Asks(c, k) /\ frames'[c][i] = frames[c][k]
                           /\ k = IF c = ctrl THEN i + 1 ELSE i
  BY <1>1, <1>2, FrameTaken
<1>. HIDE DEF m
<1>5. /\ m.type \in {"ALLOCATE", "RELEASE"} /\ m \in MessageType /\ m.id \in Ids /\ m.gen \in Gens
  BY <1>3, <1>4 DEF Forwarded, SentType, Named
<1>6. worker \in Workers /\ worker # Nobody
  <2>1. worker \in Workers \cup {Nobody} /\ \A w \in Workers : w # Nobody
    BY PeersAssumption DEF CInv, Typed, CoordinatorTypeOK
  <2>2. CASE m.type = "ALLOCATE"
    BY <1>3, <2>1, <2>2 DEF Forwarded
  <2>3. CASE m.type = "RELEASE"
    <3>1. Releasable(m)
      BY <1>3, <2>3 DEF Forwarded
    <3>2. g_alloc[m.id].boot \in Workers
      BY <1>5, <3>1 DEF Releasable, CInv, Entries
    <3>. QED  BY <2>1, <3>1, <3>2 DEF Releasable
  <2>. QED  BY <1>5, <2>2, <2>3
<1>7. /\ to_worker \in [Workers -> Seq(SentType)]
      /\ \A w \in Workers : to_worker[w] = <<>> /\ from_worker[w] = <<>>
  BY <1>1, NothingUnderWay DEF CInv, Typed
<1>8. wstate[worker] \in {"serving", "dead"}
  BY <1>6 DEF CInv, Lives
<1>9. /\ to_worker'[worker] = IF wstate[worker] = "serving" THEN <<m>> ELSE <<>>
      /\ \A w \in Workers : w # worker => to_worker'[w] = <<>>
      /\ to_worker' \in [Workers -> Seq(SentType)]
  <2>1. Append(<<>>, m) = <<m>> /\ <<m>> \in Seq(SentType)
    BY <1>4, Single
  <2>2. Alive(worker) <=> wstate[worker] = "serving"
    BY <1>8 DEF Alive
  <2>. QED  BY <1>3, <1>6, <1>7, <2>1, <2>2
<1>10. Typed'
  BY <1>2, <1>3, <1>4, <1>5, <1>6, <1>9 DEF CInv, Typed, CoordinatorTypeOK
<1>11. m.type = "ALLOCATE" /\ ~ReuseIds => Untouched(m.id) /\ m.id \in used
  BY <1>1, <1>4, <1>5 DEF CInv, OnceOnly, FirstAsked
<1>12. Flight'
  <2>1. <<m>> # <<>>
    BY Single
  <2>2. m.type = "ALLOCATE" /\ ~ReuseIds => allocs[worker][m.id] = 0
    BY <1>6, <1>11 DEF Untouched
  <2>. QED  BY <1>2, <1>3, <1>6, <1>7, <1>9, <2>1, <2>2 DEF Flight
<1>13. Lives'
  BY <1>2, LivesKept DEF CInv
<1>14. Entries'
  <2>1. m.type = "RELEASE" => g_alloc[m.id].boot = worker /\ g_alloc[m.id].gen = m.gen
    BY <1>3 DEF Forwarded, Releasable
  <2>. QED  BY <1>1, <1>2, <1>3, <2>1 DEF CInv, Entries, EntryFor, AwaitsAllocate, AwaitsRelease
<1>15. OnceOnly'
  <2>1. \A id : Untouched(id) /\ ~(m.type = "ALLOCATE" /\ m.id = id) => Untouched(id)'
    BY <1>2, <1>3 DEF Untouched, AwaitsAllocate
  <2>. SUFFICES ASSUME ~ReuseIds PROVE FirstAsked'
    BY DEF OnceOnly
  <2>2. \A id \in Ids \ used : Untouched(id)'
    BY <1>11, <2>1 DEF CInv, OnceOnly, FirstAsked
  <2>3. ASSUME NEW c \in Controllers, NEW i \in Nat, NEW id \in Ids,
               Asks(c, i)', frames'[c][i].id = id
        PROVE  id \in used /\ Untouched(id)'
    <3>1. PICK k \in Nat : /\ Asks(c, k) /\ frames'[c][i] = frames[c][k]
                           /\ k = IF c = ctrl THEN i + 1 ELSE i
      BY <1>4, <2>3
    <3>2. id \in used /\ Untouched(id)
      BY <2>3, <3>1 DEF CInv, OnceOnly, FirstAsked
    <3>3. i \in 1 .. Len(frames'[c])
      BY <2>3 DEF Asks
    <3>4. ~(m.type = "ALLOCATE" /\ m.id = id)
      <4>. SUFFICES ASSUME m.type = "ALLOCATE", m.id = frames[c][k].id PROVE FALSE
        BY <2>3, <3>1
      <4>1. c = ctrl /\ k = 1
        BY <1>1, <1>4, <3>1 DEF CInv, OnceOnly, FirstAsked, AskedOnce
      <4>2. i + 1 = 1
        BY <3>1, <4>1
      <4>. QED  BY <3>3, <4>2
    <3>. QED  BY <2>1, <3>2, <3>4
  <2>. QED  BY <1>2, <1>4, <2>2, <2>3 DEF FirstAsked
<1>. QED  BY <1>10, <1>12, <1>13, <1>14, <1>15 DEF CInv

\* A controller's frame is forwarded, refused or obeyed.
LEMMA DispatchStep == CInv /\ Dispatch => CInv'
<1>. SUFFICES ASSUME CInv, Dispatch PROVE CInv'
  OBVIOUS
<1>1. CASE Forward(Head(frames[ctrl]))
  BY <1>1, ForwardStep
<1>2. CASE Refuse(Head(frames[ctrl])) \/ Shutdown(Head(frames[ctrl]))
  <2>1. ~Awaits'
    BY <1>2 DEF Refuse, Shutdown, Awaits
  <2>. QED  BY <2>1, RefuseStep
<1>. QED  BY <1>1, <1>2 DEF Dispatch

\* A step that leaves the requests alone and asks no worker for anything new.
LEMMA OnceKept ==
    ASSUME OnceOnly, frames' = frames, used' = used,
           \A id \in Ids : Untouched(id) => Untouched(id)'
    PROVE  OnceOnly'
<1>1. \A c, i : Asks(c, i)' <=> Asks(c, i)
  BY DEF Asks
<1>2. ~ReuseIds => AskedOnce'
  BY <1>1 DEF OnceOnly, FirstAsked, AskedOnce
<1>. QED  BY <1>1, <1>2 DEF OnceOnly, FirstAsked

\* What is known while the coordinator waits for an answer.
LEMMA Waiting ==
    ASSUME CInv, Awaits
    PROVE  /\ worker \in Workers /\ worker # Nobody /\ wstate[worker] \in {"serving", "dead"}
           /\ request \in MessageType /\ request.type \in {"ALLOCATE", "RELEASE"}
           /\ request.id \in Ids /\ request.gen \in Gens
           /\ \A w \in Workers : w # worker => to_worker[w] = <<>> /\ from_worker[w] = <<>>
<1>1. worker \in Workers /\ worker # Nobody
  BY DEF CInv, Typed, CoordinatorTypeOK, Awaits
<1>2. wstate[worker] \in {"serving", "dead"}
  BY <1>1 DEF CInv, Lives
<1>3. \A w \in Workers : w # worker => to_worker[w] = <<>> /\ from_worker[w] = <<>>
  BY DEF CInv, Flight
<1>. QED  BY <1>1, <1>2, <1>3 DEF CInv, Typed, SentType, Named

\* The answer of the worker, recorded and passed on.
LEMMA WorkerAnsweredStep == CInv /\ WorkerAnswered => CInv'
<1>. SUFFICES ASSUME CInv, WorkerAnswered PROVE CInv'
  OBVIOUS
<1>1. Awaits /\ ~Awaits'
  BY DEF WorkerAnswered, Awaits
<1>2. /\ worker \in Workers /\ worker # Nobody /\ wstate[worker] \in {"serving", "dead"}
      /\ request \in MessageType /\ request.type \in {"ALLOCATE", "RELEASE"}
      /\ request.id \in Ids /\ request.gen \in Gens
      /\ \A w \in Workers : w # worker => to_worker[w] = <<>> /\ from_worker[w] = <<>>
  BY <1>1, Waiting
<1>3. /\ wstate' = wstate /\ greeted' = greeted /\ allocs' = allocs /\ to_worker' = to_worker
      /\ backlog' = backlog /\ peer' = peer /\ ctrl' = ctrl /\ worker' = worker
      /\ frames' = frames /\ used' = used /\ request' = NoRequest /\ pc' = "poll"
      /\ from_worker[worker] # <<>>
      /\ from_worker' = [from_worker EXCEPT ![worker] = Tail(@)]
  BY DEF WorkerAnswered, controllers
<1>4. PICK a \in AnswerType : from_worker[worker] = <<a>> /\ Truthful(worker, a)
  BY <1>2, <1>3 DEF CInv, Flight
<1>5. a.ok \in BOOLEAN /\ Head(from_worker[worker]) = a /\ Tail(from_worker[worker]) = <<>>
  BY <1>4, Single DEF AnswerType
<1>6. g_alloc' = IF request.type = "ALLOCATE"
                 THEN [g_alloc EXCEPT ![request.id] = Entry(request, a.ok)] ELSE g_alloc
  BY <1>5 DEF WorkerAnswered
<1>7. /\ to_worker[worker] = <<>> /\ from_worker \in [Workers -> Seq(AnswerType)]
      /\ \A w \in Workers : from_worker'[w] = <<>> /\ to_worker'[w] = <<>>
      /\ from_worker' \in [Workers -> Seq(AnswerType)]
  <2>1. from_worker \in [Workers -> Seq(AnswerType)] /\ <<>> \in Seq(AnswerType)
    BY DEF CInv, Typed
  <2>2. to_worker[worker] = <<>>
    BY <1>2, <1>3 DEF CInv, Flight
  <2>. QED  BY <1>2, <1>3, <1>5, <2>1, <2>2
<1>8. /\ g_alloc \in [Ids -> [gen : Gens \cup {0}, boot : Workers \cup {Nobody}, current : BOOLEAN]]
      /\ \A id \in Ids : g_alloc'[id] =
            IF request.type = "ALLOCATE" /\ id = request.id
            THEN [gen |-> request.gen, boot |-> worker, current |-> a.ok] ELSE g_alloc[id]
      /\ g_alloc' \in [Ids -> [gen : Gens \cup {0}, boot : Workers \cup {Nobody}, current : BOOLEAN]]
  <2>1. g_alloc \in [Ids -> [gen : Gens \cup {0}, boot : Workers \cup {Nobody}, current : BOOLEAN]]
    BY DEF CInv, Typed, CoordinatorTypeOK
  <2>2. Entry(request, a.ok) = [gen |-> request.gen, boot |-> worker, current |-> a.ok]
    BY DEF Entry
  <2>3. Entry(request, a.ok) \in [gen : Gens \cup {0}, boot : Workers \cup {Nobody}, current : BOOLEAN]
    BY <1>2, <1>5, <2>2
  <2>. QED  BY <1>2, <1>6, <2>1, <2>2, <2>3
<1>9. Typed'
  <2>1. NoRequest \in MessageType
    BY DEF NoRequest, MessageType
  <2>. QED  BY <1>1, <1>3, <1>7, <1>8, <2>1 DEF CInv, Typed, CoordinatorTypeOK
<1>10. Flight'
  BY <1>1, <1>7 DEF Flight
<1>11. Lives'
  BY <1>3, LivesKept DEF CInv
<1>12. Entries'
  <2>1. \A id \in Ids : g_alloc'[id] = Unknown \/ g_alloc'[id].boot \in Workers
    BY <1>2, <1>8 DEF CInv, Entries
  <2>2. ASSUME ~ReuseIds, NEW id \in Ids, allocs[worker][id] # 0
        PROVE  g_alloc'[id] = EntryFor(worker, id)
    <3>1. g_alloc[id] = EntryFor(worker, id) \/ (AwaitsAllocate /\ id = request.id)
      BY <1>2, <2>2 DEF CInv, Entries
    <3>2. CASE request.type = "ALLOCATE" /\ id = request.id
      <4>1. wstate[worker] = "serving"
        BY <1>2, <2>2 DEF CInv, Lives, NoAllocs
      <4>2. a.ok = TRUE /\ allocs[worker][id] = request.gen
        BY <1>4, <1>5, <2>2, <3>2, <4>1 DEF Truthful
      <4>. QED  BY <1>8, <3>2, <4>2 DEF EntryFor
    <3>3. CASE ~(request.type = "ALLOCATE" /\ id = request.id)
      BY <1>8, <3>1, <3>3 DEF AwaitsAllocate
    <3>. QED  BY <3>2, <3>3
  <2>. QED  BY <1>1, <1>3, <2>1, <2>2 DEF Entries, EntryFor, AwaitsRelease
<1>13. OnceOnly'
  <2>1. \A id \in Ids : Untouched(id) => Untouched(id)'
    BY <1>1, <1>3 DEF Untouched, AwaitsAllocate
  <2>. QED  BY <1>3, <2>1, OnceKept DEF CInv
<1>. QED  BY <1>9, <1>10, <1>11, <1>12, <1>13 DEF CInv

\* The registered worker found dead while its answer was awaited.
LEMMA WorkerDeadStep == CInv /\ WorkerDead => CInv'
<1>. SUFFICES ASSUME CInv, WorkerDead PROVE CInv'
  OBVIOUS
<1>1. Awaits /\ ~Awaits'
  BY DEF WorkerDead, Awaits
<1>2. /\ worker \in Workers /\ worker # Nobody
      /\ request \in MessageType /\ request.type \in {"ALLOCATE", "RELEASE"}
      /\ request.id \in Ids /\ request.gen \in Gens
      /\ \A w \in Workers : w # worker => to_worker[w] = <<>> /\ from_worker[w] = <<>>
  BY <1>1, Waiting
<1>3. /\ wstate' = wstate /\ greeted' = greeted /\ allocs' = allocs /\ to_worker' = to_worker
      /\ backlog' = backlog /\ peer' = peer /\ ctrl' = ctrl
      /\ frames' = frames /\ used' = used /\ request' = NoRequest /\ pc' = "poll"
      /\ from_worker' = [from_worker EXCEPT ![worker] = IF Lost(worker) THEN <<>> ELSE Tail(@)]
      /\ worker' = IF request.type = "ALLOCATE" THEN Nobody ELSE worker
      /\ g_alloc' = IF request.type = "ALLOCATE" THEN Fenced(worker) ELSE g_alloc
  BY DEF WorkerDead, controllers
<1>4. Lost(worker) /\ wstate[worker] = "dead" /\ allocs[worker] = NoAllocs
  <2>1. from_worker[worker] # <<>> => Matching(Head(from_worker[worker]))
    <3>. SUFFICES ASSUME from_worker[worker] # <<>> PROVE Matching(Head(from_worker[worker]))
      OBVIOUS
    <3>1. PICK a \in AnswerType : from_worker[worker] = <<a>> /\ Truthful(worker, a)
      BY <1>2 DEF CInv, Flight
    <3>2. Head(from_worker[worker]) = a
      BY <3>1, Single
    <3>. QED  BY <3>1, <3>2 DEF Truthful
  <2>2. Lost(worker)
    BY <2>1 DEF WorkerDead, NoResult
  <2>. QED  BY <1>2, <2>2 DEF Lost, CInv, Lives
<1>5. /\ \A w \in Workers : from_worker'[w] = <<>> /\ to_worker'[w] = <<>>
      /\ from_worker' \in [Workers -> Seq(AnswerType)]
  <2>1. from_worker \in [Workers -> Seq(AnswerType)] /\ <<>> \in Seq(AnswerType)
    BY DEF CInv, Typed
  <2>2. to_worker[worker] = <<>>
    BY <1>2, <1>4 DEF CInv, Flight
  <2>. QED  BY <1>2, <1>3, <1>4, <2>1, <2>2
<1>6. /\ g_alloc' \in [Ids -> [gen : Gens \cup {0}, boot : Workers \cup {Nobody}, current : BOOLEAN]]
      /\ \A id \in Ids : g_alloc'[id] = Unknown \/ g_alloc'[id].boot \in Workers
  <2>. DEFINE T == [gen : Gens \cup {0}, boot : Workers \cup {Nobody}, current : BOOLEAN]
  <2>1. g_alloc \in [Ids -> T]
    BY DEF CInv, Typed, CoordinatorTypeOK
  <2>2. CASE request.type = "ALLOCATE"
    <3>1. ASSUME NEW id \in Ids
          PROVE  Fenced(worker)[id] \in T /\ (Fenced(worker)[id] = Unknown \/ Fenced(worker)[id].boot \in Workers)
      <4>1. CASE g_alloc[id].boot = worker
        <5>1. Fenced(worker)[id] = [g_alloc[id] EXCEPT !.current = FALSE]
          BY <4>1 DEF Fenced
        <5>2. g_alloc[id] \in T
          BY <2>1
        <5>3. [g_alloc[id] EXCEPT !.current = FALSE] \in T
              /\ [g_alloc[id] EXCEPT !.current = FALSE].boot = g_alloc[id].boot
          BY <5>2
        <5>. QED  BY <1>2, <4>1, <5>1, <5>3
      <4>2. CASE g_alloc[id].boot # worker
        BY <2>1, <4>2 DEF Fenced, CInv, Entries
      <4>. QED  BY <4>1, <4>2
    <3>2. Fenced(worker) \in [Ids -> T]
      BY <3>1 DEF Fenced
    <3>. QED  BY <1>3, <2>2, <3>1, <3>2
  <2>3. CASE request.type # "ALLOCATE"
    BY <1>3, <2>1, <2>3 DEF CInv, Entries
  <2>. QED  BY <2>2, <2>3
<1>7. Typed'
  <2>1. NoRequest \in MessageType
    BY DEF NoRequest, MessageType
  <2>. QED  BY <1>1, <1>3, <1>5, <1>6, <2>1 DEF CInv, Typed, CoordinatorTypeOK
<1>8. Flight'
  BY <1>1, <1>5 DEF Flight
<1>9. Lives'
  BY <1>3, LivesKept DEF CInv
<1>10. Entries'
  <2>1. \A id \in Ids : worker' # Nobody => allocs'[worker'][id] = 0
    BY <1>3, <1>4 DEF NoAllocs
  <2>. QED  BY <1>1, <1>6, <2>1 DEF Entries, AwaitsRelease
<1>11. OnceOnly'
  <2>1. \A id \in Ids : Untouched(id) => Untouched(id)'
    BY <1>1, <1>3 DEF Untouched, AwaitsAllocate
  <2>. QED  BY <1>3, <2>1, OnceKept DEF CInv
<1>. QED  BY <1>7, <1>8, <1>9, <1>10, <1>11 DEF CInv

-----------------------------------------------------------------------------
(* Worker processes: each step is the worker's own, at any moment of the   *)
(* coordinator's loop.                                                     *)

\* Everything of the deployment that is not a worker's.
Elsewhere == UNCHANGED <<loop, g_alloc, request, controllers, replies, history>>

\* A step of a worker alone leaves the coordinator's view of it as it is.
LEMMA ElsewhereKept ==
    ASSUME Elsewhere
    PROVE  /\ pc' = pc /\ peer' = peer /\ ctrl' = ctrl /\ worker' = worker /\ g_alloc' = g_alloc
           /\ request' = request /\ frames' = frames /\ used' = used /\ cstate' = cstate
           /\ (Awaits' <=> Awaits) /\ (AwaitsAllocate' <=> AwaitsAllocate)
           /\ (AwaitsRelease' <=> AwaitsRelease)
  BY DEF Elsewhere, loop, controllers, Awaits, AwaitsAllocate, AwaitsRelease

\* No worker's allocations change.
LEMMA HoldingsKept ==
    ASSUME CInv, allocs' = allocs, g_alloc' = g_alloc, worker' = worker, request' = request,
           pc' = pc, frames' = frames, used' = used
    PROVE  Entries' /\ OnceOnly'
<1>1. (AwaitsAllocate' <=> AwaitsAllocate) /\ (AwaitsRelease' <=> AwaitsRelease)
  BY DEF Awaits, AwaitsAllocate, AwaitsRelease
<1>2. Entries'
  BY <1>1 DEF CInv, Entries, EntryFor
<1>3. \A id \in Ids : Untouched(id) => Untouched(id)'
  BY <1>1 DEF Untouched
<1>. QED  BY <1>2, <1>3, OnceKept DEF CInv

\* A newcomer p at the end of the backlog.
LEMMA Joined ==
    ASSUME CInv, NEW p \in Processes, backlog' = Append(backlog, p), peer' = peer,
           ~Queued(p) \/ p \notin Workers
    PROVE  /\ backlog' \in Seq(Processes) /\ backlog' # <<>>
           /\ \A w \in Workers : Queued(w)' <=> (Queued(w) \/ w = p)
           /\ \A w \in Workers : Pending(w)' <=> (Pending(w) \/ w = p)
           /\ \A i, j \in 1 .. Len(backlog') :
                 backlog'[i] = backlog'[j] /\ backlog'[i] \in Workers => i = j
<1>1. backlog \in Seq(Processes)
  BY DEF CInv, Typed
<1>2. /\ backlog' \in Seq(Processes) /\ Len(backlog') = Len(backlog) + 1 /\ Len(backlog) \in Nat
      /\ backlog' # <<>> /\ backlog'[Len(backlog) + 1] = p
      /\ \A i \in 1 .. Len(backlog) : backlog'[i] = backlog[i]
  BY <1>1, Join
<1>3. \A i \in 1 .. Len(backlog') : i \in 1 .. Len(backlog) \/ i = Len(backlog) + 1
  BY <1>2
<1>4. \A w \in Workers : Queued(w)' <=> (Queued(w) \/ w = p)
  <2>. SUFFICES ASSUME NEW w \in Workers PROVE Queued(w)' <=> (Queued(w) \/ w = p)
    OBVIOUS
  <2>1. Queued(w)' => (Queued(w) \/ w = p)
    BY <1>2, <1>3 DEF Queued
  <2>2. Queued(w) => Queued(w)'
    BY <1>2 DEF Queued
  <2>3. w = p => Queued(w)'
    <3>1. Len(backlog) + 1 \in 1 .. Len(backlog')
      BY <1>2
    <3>. QED  BY <1>2, <3>1 DEF Queued
  <2>. QED  BY <2>1, <2>2, <2>3
<1>5. \A w \in Workers : Pending(w)' <=> (Pending(w) \/ w = p)
  BY <1>4 DEF Pending
<1>6. ASSUME NEW i \in 1 .. Len(backlog'), NEW j \in 1 .. Len(backlog'),
             backlog'[i] = backlog'[j], backlog'[i] \in Workers
      PROVE  i = j
  <2>1. CASE i \in 1 .. Len(backlog) /\ j \in 1 .. Len(backlog)
    BY <1>2, <1>6, <2>1 DEF CInv, Lives
  <2>2. CASE i \in 1 .. Len(backlog) /\ j = Len(backlog) + 1
    BY <1>2, <1>6, <2>2 DEF Queued
  <2>3. CASE i = Len(backlog) + 1 /\ j \in 1 .. Len(backlog)
    BY <1>2, <1>6, <2>3 DEF Queued
  <2>. QED  BY <1>3, <2>1, <2>2, <2>3
<1>. QED  BY <1>2, <1>4, <1>5, <1>6

\* A worker connects.
LEMMA WorkerConnectStep ==
    ASSUME CInv, NEW w \in Workers, WorkerConnect(w), Elsewhere
    PROVE  CInv'
<1>1. /\ pc' = pc /\ peer' = peer /\ ctrl' = ctrl /\ worker' = worker /\ g_alloc' = g_alloc
      /\ request' = request /\ frames' = frames /\ used' = used
      /\ (Awaits' <=> Awaits)
  BY ElsewhereKept
<1>2. /\ wstate[w] = "off" /\ wstate' = [wstate EXCEPT ![w] = "greeting"]
      /\ backlog' = Append(backlog, w) /\ greeted' = greeted /\ allocs' = allocs
      /\ to_worker' = to_worker /\ from_worker' = from_worker
  BY DEF WorkerConnect
<1>3. /\ w # worker /\ w # peer /\ ~Queued(w) /\ allocs[w] = NoAllocs /\ greeted[w] = 0
  BY <1>2 DEF CInv, Lives, Pending
<1>4. /\ wstate \in [Workers -> {"off", "greeting", "serving", "dead"}] /\ wstate'[w] = "greeting"
      /\ \A v \in Workers : v # w => wstate'[v] = wstate[v]
      /\ wstate' \in [Workers -> {"off", "greeting", "serving", "dead"}]
  BY <1>2 DEF CInv, Typed
<1>5. /\ backlog' \in Seq(Processes) /\ backlog' # <<>>
      /\ \A v \in Workers : Queued(v)' <=> (Queued(v) \/ v = w)
      /\ \A v \in Workers : Pending(v)' <=> (Pending(v) \/ v = w)
      /\ \A i, j \in 1 .. Len(backlog') :
            backlog'[i] = backlog'[j] /\ backlog'[i] \in Workers => i = j
  <2>1. w \in Processes
    BY DEF Processes
  <2>. QED  BY <1>1, <1>2, <1>3, <2>1, Joined
<1>6. Entries' /\ OnceOnly'
  BY <1>1, <1>2, HoldingsKept
<1>7. Typed'
  BY <1>1, <1>2, <1>4, <1>5 DEF CInv, Typed, CoordinatorTypeOK
<1>8. Flight'
  <2>1. Awaits => worker \in Workers
    BY Waiting
  <2>. QED  BY <1>1, <1>2, <1>3, <1>4, <2>1 DEF CInv, Flight, Truthful, Matching
<1>9. Lives'
  BY <1>1, <1>2, <1>3, <1>4, <1>5 DEF CInv, Lives, Greeting
<1>. QED  BY <1>6, <1>7, <1>8, <1>9 DEF CInv

\* A worker sends a frame of its greeting.
LEMMA WorkerGreetStep ==
    ASSUME CInv, NEW w \in Workers, WorkerGreet(w), Elsewhere
    PROVE  CInv'
<1>1. /\ pc' = pc /\ peer' = peer /\ ctrl' = ctrl /\ worker' = worker /\ g_alloc' = g_alloc
      /\ request' = request /\ frames' = frames /\ used' = used
      /\ (Awaits' <=> Awaits)
  BY ElsewhereKept
<1>2. /\ wstate[w] = "greeting" /\ greeted' = [greeted EXCEPT ![w] = @ + 1]
      /\ wstate' = [wstate EXCEPT ![w] = AfterGreeting(greeted[w] + 1)]
      /\ backlog' = backlog /\ allocs' = allocs
      /\ to_worker' = to_worker /\ from_worker' = from_worker
  BY DEF WorkerGreet
<1>3. w # worker /\ greeted[w] < Greeting
  BY <1>2 DEF CInv, Lives
<1>4. greeted \in [Workers -> 0 .. Greeting] /\ greeted[w] \in 0 .. Greeting
  BY DEF CInv, Typed, CoordinatorTypeOK
<1>5. /\ wstate \in [Workers -> {"off", "greeting", "serving", "dead"}]
      /\ wstate'[w] \in {"greeting", "serving"}
      /\ wstate'[w] = "greeting" => greeted'[w] < Greeting
      /\ \A v \in Workers : v # w => wstate'[v] = wstate[v] /\ greeted'[v] = greeted[v]
      /\ wstate' \in [Workers -> {"off", "greeting", "serving", "dead"}]
      /\ greeted' \in [Workers -> 0 .. Greeting]
  BY <1>2, <1>3, <1>4 DEF CInv, Typed, AfterGreeting, Greeting
<1>6. Entries' /\ OnceOnly'
  BY <1>1, <1>2, HoldingsKept
<1>7. Typed'
  BY <1>1, <1>2, <1>5 DEF CInv, Typed, CoordinatorTypeOK
<1>8. Flight'
  <2>1. Awaits => worker \in Workers
    BY Waiting
  <2>. QED  BY <1>1, <1>2, <1>3, <1>5, <2>1 DEF CInv, Flight, Truthful, Matching
<1>9. Lives'
  <2>1. \A v \in Workers : (Queued(v)' <=> Queued(v)) /\ (Pending(v)' <=> Pending(v))
    BY <1>1, <1>2 DEF Queued, Pending
  <2>. QED  BY <1>1, <1>2, <1>3, <1>5, <2>1 DEF CInv, Lives
<1>. QED  BY <1>6, <1>7, <1>8, <1>9 DEF CInv

\* A worker leaves: disconnected by the coordinator, or dead.
LEMMA GoneStep ==
    ASSUME CInv, NEW w \in Workers, Alive(w), Gone(w), Elsewhere
    PROVE  CInv'
<1>1. /\ pc' = pc /\ peer' = peer /\ ctrl' = ctrl /\ worker' = worker /\ g_alloc' = g_alloc
      /\ request' = request /\ frames' = frames /\ used' = used
      /\ (Awaits' <=> Awaits) /\ (AwaitsAllocate' <=> AwaitsAllocate)
      /\ (AwaitsRelease' <=> AwaitsRelease)
  BY ElsewhereKept
<1>2. /\ wstate' = [wstate EXCEPT ![w] = "dead"]
      /\ allocs' = [allocs EXCEPT ![w] = NoAllocs]
      /\ to_worker' = [to_worker EXCEPT ![w] = <<>>]
      /\ greeted' = greeted /\ from_worker' = from_worker /\ backlog' = backlog
  BY DEF Gone
<1>3. /\ wstate'[w] = "dead" /\ allocs'[w] = NoAllocs /\ to_worker'[w] = <<>>
      /\ \A v \in Workers : v # w =>
            wstate'[v] = wstate[v] /\ allocs'[v] = allocs[v] /\ to_worker'[v] = to_worker[v]
      /\ wstate' \in [Workers -> {"off", "greeting", "serving", "dead"}]
      /\ allocs' \in [Workers -> [Ids -> Gens \cup {0}]]
      /\ to_worker' \in [Workers -> Seq(SentType)]
  <2>1. NoAllocs \in [Ids -> Gens \cup {0}] /\ <<>> \in Seq(SentType)
    BY DEF NoAllocs
  <2>. QED  BY <1>2, <2>1 DEF CInv, Typed, CoordinatorTypeOK
<1>4. \A v \in Workers, id \in Ids : allocs'[v][id] = allocs[v][id] \/ allocs'[v][id] = 0
  BY <1>3, SMTT(30) DEF NoAllocs
<1>5. Typed'
  BY <1>1, <1>2, <1>3 DEF CInv, Typed, CoordinatorTypeOK
<1>6. Flight'
  <2>1. \A v \in Workers : to_worker'[v] # <<>> => v # w /\ to_worker[v] # <<>>
    BY <1>3
  <2>2. ASSUME NEW v \in Workers, from_worker'[v] # <<>>
        PROVE  /\ Awaits' /\ v = worker'
               /\ \E a \in AnswerType : from_worker'[v] = <<a>> /\ Truthful(v, a)'
    <3>1. Awaits /\ v = worker
      BY <1>2, <2>2 DEF CInv, Flight
    <3>2. PICK a \in AnswerType : from_worker[v] = <<a>> /\ Truthful(v, a)
      BY <1>2, <2>2 DEF CInv, Flight
    <3>3. Truthful(v, a)'
      BY <1>1, <1>3, <3>2 DEF Truthful, Matching
    <3>. QED  BY <1>1, <1>2, <3>1, <3>2, <3>3
  <2>3. Awaits' /\ wstate'[worker'] = "serving" =>
           to_worker'[worker'] # <<>> \/ from_worker'[worker'] # <<>>
    <3>1. Awaits => worker \in Workers
      BY Waiting
    <3>. QED  BY <1>1, <1>2, <1>3, <3>1 DEF CInv, Flight
  <2>4. \A v \in Workers : to_worker'[v] # <<>> =>
           /\ Awaits' /\ v = worker' /\ wstate'[v] = "serving"
           /\ to_worker'[v] = <<request'>> /\ from_worker'[v] = <<>>
           /\ request'.type = "ALLOCATE" /\ ~ReuseIds => allocs'[v][request'.id] = 0
    BY <1>1, <1>2, <1>3, <2>1 DEF CInv, Flight
  <2>. QED  BY <2>2, <2>3, <2>4 DEF Flight
<1>7. Lives'
  <2>1. \A v \in Workers : (Queued(v)' <=> Queued(v)) /\ (Pending(v)' <=> Pending(v))
    BY <1>1, <1>2 DEF Queued, Pending
  <2>2. wstate[w] # "off"
    BY DEF Alive
  <2>. QED  BY <1>1, <1>2, <1>3, <2>1, <2>2 DEF CInv, Lives
<1>8. Entries'
  <2>1. \A id \in Ids : g_alloc[id] = Unknown \/ g_alloc[id].boot \in Workers
    BY DEF CInv, Entries
  <2>2. ASSUME worker # Nobody, ~ReuseIds, NEW id \in Ids, allocs'[worker][id] # 0
        PROVE  g_alloc[id] = EntryFor(worker, id)' \/ (AwaitsAllocate /\ id = request.id)
    <3>1. worker \in Workers
      BY <2>2 DEF CInv, Typed, CoordinatorTypeOK
    <3>2. allocs'[worker][id] = allocs[worker][id]
      BY <1>4, <2>2, <3>1
    <3>. QED  BY <1>1, <2>2, <3>2 DEF CInv, Entries, EntryFor
  <2>3. AwaitsRelease => g_alloc[request.id].boot = worker /\ g_alloc[request.id].gen = request.gen
    BY DEF CInv, Entries
  <2>. QED  BY <1>1, <2>1, <2>2, <2>3 DEF Entries, EntryFor
<1>9. OnceOnly'
  <2>1. \A id \in Ids : Untouched(id) => Untouched(id)'
    BY <1>1, <1>4 DEF Untouched
  <2>. QED  BY <1>1, <2>1, OnceKept DEF CInv
<1>. QED  BY <1>5, <1>6, <1>7, <1>8, <1>9 DEF CInv

\* The worker answers the request it was sent.
LEMMA WorkerServeStep ==
    ASSUME CInv, NEW w \in Workers, WorkerServe(w), Elsewhere
    PROVE  CInv'
<1>1. /\ pc' = pc /\ peer' = peer /\ ctrl' = ctrl /\ worker' = worker /\ g_alloc' = g_alloc
      /\ request' = request /\ frames' = frames /\ used' = used
      /\ (Awaits' <=> Awaits) /\ (AwaitsAllocate' <=> AwaitsAllocate)
      /\ (AwaitsRelease' <=> AwaitsRelease)
  BY ElsewhereKept
<1>2. /\ wstate[w] = "serving" /\ to_worker[w] # <<>>
      /\ wstate' = wstate /\ greeted' = greeted /\ backlog' = backlog
  BY DEF WorkerServe
<1>3. /\ Awaits /\ w = worker /\ to_worker[w] = <<request>> /\ from_worker[w] = <<>>
      /\ request.type = "ALLOCATE" /\ ~ReuseIds => allocs[w][request.id] = 0
  BY <1>2 DEF CInv, Flight
<1>4. /\ worker \in Workers /\ worker # Nobody
      /\ request \in MessageType /\ request.type \in {"ALLOCATE", "RELEASE"}
      /\ request.id \in Ids /\ request.gen \in Gens
      /\ \A v \in Workers : v # w => to_worker[v] = <<>> /\ from_worker[v] = <<>>
  BY <1>3, Waiting
<1>5. /\ Head(to_worker[w]) = request /\ Tail(to_worker[w]) = <<>>
  BY <1>3, Single
<1>6. PICK type \in {"ALLOCATE_RESULT", "RELEASE_RESULT"}, ok \in BOOLEAN :
         /\ Answer(w, type, request, ok)
         /\ type = IF request.type = "ALLOCATE" THEN "ALLOCATE_RESULT" ELSE "RELEASE_RESULT"
         /\ request.type = "ALLOCATE" =>
               allocs' = IF ok THEN [allocs EXCEPT ![w][request.id] = request.gen] ELSE allocs
         /\ request.type = "RELEASE" =>
               allocs' = IF ok THEN [allocs EXCEPT ![w][request.id] = 0] ELSE allocs
  <2>1. CASE request.type = "ALLOCATE"
    BY <1>5, <2>1 DEF WorkerServe, ServeAllocate, ServeRelease
  <2>2. CASE request.type = "RELEASE"
    BY <1>5, <2>2 DEF WorkerServe, ServeAllocate, ServeRelease
  <2>. QED  BY <1>4, <2>1, <2>2
<1>7. PICK a \in AnswerType :
         /\ a = [type |-> type, id |-> request.id, gen |-> request.gen, ok |-> ok]
         /\ a.type = type /\ a.id = request.id /\ a.gen = request.gen /\ a.ok = ok
  <2>. DEFINE b == [type |-> type, id |-> request.id, gen |-> request.gen, ok |-> ok]
  <2>1. b \in AnswerType /\ b.type = type /\ b.id = request.id /\ b.gen = request.gen /\ b.ok = ok
    BY <1>4 DEF AnswerType
  <2>. QED  BY <2>1
<1>8. /\ to_worker' = [to_worker EXCEPT ![w] = Tail(@)]
      /\ from_worker' = [from_worker EXCEPT ![w] = Append(@, a)]
  BY <1>6, <1>7 DEF Answer
<1>9. /\ \A v \in Workers : to_worker'[v] = <<>>
      /\ from_worker'[w] = <<a>> /\ \A v \in Workers : v # w => from_worker'[v] = <<>>
      /\ to_worker' \in [Workers -> Seq(SentType)]
      /\ from_worker' \in [Workers -> Seq(AnswerType)]
  <2>1. Append(<<>>, a) = <<a>> /\ <<a>> \in Seq(AnswerType) /\ <<>> \in Seq(SentType)
    BY <1>7, Single
  <2>. QED  BY <1>3, <1>4, <1>5, <1>8, <2>1 DEF CInv, Typed
<1>10. allocs \in [Workers -> [Ids -> Gens \cup {0}]]
  BY DEF CInv, Typed, CoordinatorTypeOK
<1>11. /\ allocs' \in [Workers -> [Ids -> Gens \cup {0}]]
       /\ \A v \in Workers : v # w => allocs'[v] = allocs[v]
       /\ \A id \in Ids : id # request.id => allocs'[w][id] = allocs[w][id]
       /\ request.type = "ALLOCATE" /\ ok => allocs'[w][request.id] = request.gen
       /\ request.type = "ALLOCATE" /\ ~ok /\ ~ReuseIds => allocs'[w][request.id] = 0
       /\ request.type = "RELEASE" => \/ allocs'[w][request.id] = allocs[w][request.id]
                                      \/ allocs'[w][request.id] = 0
  <2>1. CASE request.type = "ALLOCATE"
    BY <1>3, <1>4, <1>6, <1>10, <2>1
  <2>2. CASE request.type = "RELEASE"
    BY <1>4, <1>6, <1>10, <2>2
  <2>. QED  BY <1>4, <2>1, <2>2
<1>12. Typed'
  BY <1>1, <1>2, <1>9, <1>11 DEF CInv, Typed, CoordinatorTypeOK
<1>13. Flight'
  <2>1. Truthful(w, a)'
    BY <1>1, <1>6, <1>7, <1>11 DEF Truthful, Matching
  <2>2. <<a>> # <<>>
    BY Single
  <2>3. \A v \in Workers : from_worker'[v] # <<>> =>
           /\ Awaits' /\ v = worker'
           /\ \E b \in AnswerType : from_worker'[v] = <<b>> /\ Truthful(v, b)'
    BY <1>1, <1>3, <1>7, <1>9, <2>1
  <2>. QED  BY <1>1, <1>3, <1>9, <2>2, <2>3 DEF Flight
<1>14. Lives'
  <2>1. \A v \in Workers : (Queued(v)' <=> Queued(v)) /\ (Pending(v)' <=> Pending(v))
    BY <1>1, <1>2 DEF Queued, Pending
  <2>2. ~Pending(w)
    BY <1>3, <1>4 DEF CInv, Lives
  <2>. QED  BY <1>1, <1>2, <1>11, <2>1, <2>2 DEF CInv, Lives
<1>15. Entries'
  <2>1. \A id \in Ids : g_alloc[id] = Unknown \/ g_alloc[id].boot \in Workers
    BY DEF CInv, Entries
  <2>2. ASSUME ~ReuseIds, NEW id \in Ids, allocs'[worker][id] # 0
        PROVE  g_alloc[id] = EntryFor(worker, id)' \/ (AwaitsAllocate /\ id = request.id)
    <3>1. CASE request.type = "ALLOCATE" /\ id = request.id
      BY <1>3, <3>1 DEF AwaitsAllocate
    <3>2. CASE ~(request.type = "ALLOCATE" /\ id = request.id)
      <4>1. allocs'[worker][id] = allocs[worker][id]
        BY <1>3, <1>4, <1>11, <2>2, <3>2
      <4>. QED  BY <1>1, <1>4, <2>2, <4>1 DEF CInv, Entries, EntryFor
    <3>. QED  BY <3>1, <3>2
  <2>3. AwaitsRelease => g_alloc[request.id].boot = worker /\ g_alloc[request.id].gen = request.gen
    BY DEF CInv, Entries
  <2>. QED  BY <1>1, <2>1, <2>2, <2>3 DEF Entries, EntryFor
<1>16. OnceOnly'
  <2>1. ASSUME NEW id \in Ids, Untouched(id) PROVE Untouched(id)'
    <3>1. \A v \in Workers : allocs'[v][id] = 0
      <4>1. \A v \in Workers : allocs[v][id] = 0
        BY <2>1 DEF Untouched
      <4>2. id = request.id => request.type = "RELEASE"
        BY <1>3, <1>4, <2>1 DEF Untouched, AwaitsAllocate
      <4>. QED  BY <1>11, <4>1, <4>2
    <3>. QED  BY <1>1, <2>1, <3>1 DEF Untouched
  <2>. QED  BY <1>1, <2>1, OnceKept DEF CInv
<1>. QED  BY <1>12, <1>13, <1>14, <1>15, <1>16 DEF CInv

-----------------------------------------------------------------------------
(* Controllers. *)

\* A step that leaves the workers and what the coordinator knows alone.
LEMMA FlightKept ==
    ASSUME CInv, UNCHANGED <<workers, loop, request>>
    PROVE  Flight'
  BY DEF CInv, Flight, Truthful, Matching, Awaits, workers, loop

\* A controller connects, takes a reply or leaves.
LEMMA ControllerStep ==
    ASSUME CInv, NEW c \in Controllers,
           \/ ControllerConnect(c) \/ ControllerReceive(c)
           \/ ControllerClose(c) \/ ControllerDisconnect(c)
    PROVE  CInv'
<1>1. /\ UNCHANGED <<workers, loop, request>> /\ g_alloc' = g_alloc
      /\ frames' = frames /\ used' = used
      /\ backlog' = backlog \/ backlog' = Append(backlog, c)
  BY DEF ControllerConnect, ControllerReceive, ControllerClose, ControllerDisconnect, Leave
<1>2. /\ pc' = pc /\ peer' = peer /\ ctrl' = ctrl /\ worker' = worker /\ request' = request
      /\ wstate' = wstate /\ greeted' = greeted /\ allocs' = allocs
      /\ to_worker' = to_worker /\ from_worker' = from_worker
  BY <1>1 DEF loop, workers
<1>3. Flight'
  BY <1>1, FlightKept
<1>4. Entries' /\ OnceOnly'
  BY <1>1, <1>2, HoldingsKept
<1>5. c \in Processes /\ c \notin Workers
  BY PeersAssumption DEF Processes
<1>6. /\ backlog' \in Seq(Processes) /\ (backlog # <<>> => backlog' # <<>>) /\ Lives'
  <2>1. CASE backlog' = backlog
    BY <1>2, <2>1, LivesKept DEF CInv, Typed
  <2>2. CASE backlog' = Append(backlog, c)
    <3>1. /\ backlog' \in Seq(Processes) /\ backlog' # <<>>
          /\ \A w \in Workers : Queued(w)' <=> (Queued(w) \/ w = c)
          /\ \A w \in Workers : Pending(w)' <=> (Pending(w) \/ w = c)
          /\ \A i, j \in 1 .. Len(backlog') :
                backlog'[i] = backlog'[j] /\ backlog'[i] \in Workers => i = j
      BY <1>2, <1>5, <2>2, Joined
    <3>. QED  BY <1>2, <1>5, <3>1 DEF CInv, Lives
  <2>. QED  BY <1>1, <2>1, <2>2
<1>7. Typed'
  BY <1>1, <1>2, <1>6 DEF CInv, Typed, CoordinatorTypeOK, Awaits
<1>. QED  BY <1>3, <1>4, <1>6, <1>7 DEF CInv

\* A controller sends a request; an ALLOCATE names an id it may ask for.
LEMMA SendStep ==
    ASSUME CInv, NEW c \in Controllers, NEW m \in SentType, Send(c, m),
           m.type = "ALLOCATE" => m.id \in Askable
    PROVE  CInv'
<1>1. /\ UNCHANGED <<workers, loop, request>> /\ g_alloc' = g_alloc /\ backlog' = backlog
      /\ frames' = [frames EXCEPT ![c] = Append(@, m)]
      /\ used' = IF m.type = "ALLOCATE" THEN used \cup {m.id} ELSE used
  BY DEF Send
<1>2. /\ pc' = pc /\ peer' = peer /\ ctrl' = ctrl /\ worker' = worker /\ request' = request
      /\ wstate' = wstate /\ greeted' = greeted /\ allocs' = allocs
      /\ to_worker' = to_worker /\ from_worker' = from_worker
      /\ (AwaitsAllocate' <=> AwaitsAllocate) /\ (AwaitsRelease' <=> AwaitsRelease)
  BY <1>1 DEF loop, workers, Awaits, AwaitsAllocate, AwaitsRelease
<1>. DEFINE q == frames[c]
            n == Len(frames[c]) + 1
<1>3. frames \in [Controllers -> Seq(SentType)] /\ q \in Seq(SentType)
  BY DEF CInv, Typed
<1>4. /\ Append(q, m) \in Seq(SentType) /\ Len(Append(q, m)) = Len(q) + 1 /\ Len(q) \in Nat
      /\ Append(q, m)[Len(q) + 1] = m
      /\ \A i \in 1 .. Len(q) : Append(q, m)[i] = q[i]
  BY <1>3, Join
<1>5. /\ frames' \in [Controllers -> Seq(SentType)] /\ frames'[c] = Append(q, m)
      /\ \A d \in Controllers : d # c => frames'[d] = frames[d]
  BY <1>1, <1>3, <1>4
<1>6. ASSUME NEW d \in Controllers, NEW i \in Nat, Asks(d, i)'
      PROVE  \/ Asks(d, i) /\ frames'[d][i] = frames[d][i]
             \/ d = c /\ i = n /\ frames'[d][i] = m /\ m.type = "ALLOCATE"
  <2>1. CASE d = c
    <3>1. i \in 1 .. Len(q) + 1 /\ frames'[d][i] = Append(q, m)[i] /\ frames'[d][i].type = "ALLOCATE"
      BY <1>4, <1>5, <1>6, <2>1 DEF Asks
    <3>2. CASE i \in 1 .. Len(q)
      BY <1>4, <2>1, <3>1, <3>2 DEF Asks
    <3>3. CASE i = Len(q) + 1
      BY <1>4, <2>1, <3>1, <3>3
    <3>. QED  BY <1>4, <3>1, <3>2, <3>3
  <2>2. CASE d # c
    BY <1>5, <1>6, <2>2 DEF Asks
  <2>. QED  BY <2>1, <2>2
<1>7. \A id : Untouched(id)' <=> Untouched(id)
  BY <1>2 DEF Untouched
<1>8. /\ used \subseteq used' /\ used' \subseteq Ids
      /\ m.type = "ALLOCATE" /\ ~ReuseIds =>
            m.id \in Ids /\ m.id \notin used /\ m.id \in used' /\ Untouched(m.id)
  BY <1>1 DEF CInv, Typed, OnceOnly, FirstAsked, Askable
<1>. HIDE DEF n
<1>9. OnceOnly'
  <2>. SUFFICES ASSUME ~ReuseIds PROVE FirstAsked'
    BY DEF OnceOnly
  <2>1. \A id \in Ids \ used' : Untouched(id)'
    BY <1>7, <1>8 DEF CInv, OnceOnly, FirstAsked
  <2>2. ASSUME NEW d \in Controllers, NEW i \in Nat, NEW id \in Ids,
               Asks(d, i)', frames'[d][i].id = id
        PROVE  id \in used' /\ Untouched(id)'
    BY <1>6, <1>7, <1>8, <2>2 DEF CInv, OnceOnly, FirstAsked
  <2>3. AskedOnce'
    <3>. SUFFICES ASSUME NEW d \in Controllers, NEW e \in Controllers, NEW i \in Nat, NEW j \in Nat,
                         Asks(d, i)', Asks(e, j)', frames'[d][i].id = frames'[e][j].id
                  PROVE  d = e /\ i = j
      BY DEF AskedOnce
    <3>1. \A b \in Controllers, k \in Nat :
             Asks(b, k) => m.type # "ALLOCATE" \/ frames[b][k].id # m.id
      BY <1>8 DEF CInv, OnceOnly, FirstAsked
    <3>. QED  BY <1>6, <3>1 DEF CInv, OnceOnly, FirstAsked, AskedOnce
  <2>. QED  BY <2>1, <2>2, <2>3 DEF FirstAsked
<1>10. Flight'
  BY <1>1, FlightKept
<1>11. Lives'
  BY <1>1, <1>2, LivesKept DEF CInv
<1>12. Entries'
  BY <1>1, <1>2 DEF CInv, Entries, EntryFor
<1>13. Typed'
  BY <1>1, <1>2, <1>5, <1>8 DEF CInv, Typed, CoordinatorTypeOK, Awaits
<1>. QED  BY <1>9, <1>10, <1>11, <1>12, <1>13 DEF CInv

\* A controller sends one of its requests.
LEMMA ControllerSendStep ==
    ASSUME CInv, NEW c \in Controllers, ControllerSend(c)
    PROVE  CInv'
<1>1. ASSUME NEW id \in Askable, NEW gen \in Gens, Send(c, Message("ALLOCATE", id, gen, Nobody))
      PROVE  CInv'
  <2>. DEFINE m == Message("ALLOCATE", id, gen, Nobody)
  <2>1. id \in Ids
    BY DEF Askable
  <2>2. m \in SentType /\ m.id \in Askable
    BY <2>1 DEF Message, SentType, MessageType, Named
  <2>. QED  BY <1>1, <2>2, SendStep
<1>2. ASSUME NEW id \in used, NEW gen \in Gens, NEW boot \in BootsOf(id),
             Send(c, Message("RELEASE", id, gen, boot))
      PROVE  CInv'
  <2>. DEFINE m == Message("RELEASE", id, gen, boot)
  <2>1. id \in Ids /\ boot \in Workers \cup {Nobody}
    BY DEF CInv, Typed, BootsOf
  <2>2. m \in SentType /\ m.type # "ALLOCATE"
    BY <2>1 DEF Message, SentType, MessageType, Named
  <2>. QED  BY <1>2, <2>2, SendStep
<1>3. ASSUME NEW type \in {"QUERY", "SHUTDOWN"}, Send(c, Message(type, 0, 0, Nobody))
      PROVE  CInv'
  <2>1. /\ Message(type, 0, 0, Nobody) \in SentType /\ Message(type, 0, 0, Nobody).type # "ALLOCATE"
    BY DEF Message, SentType, MessageType, Named
  <2>. QED  BY <1>3, <2>1, SendStep
<1>. QED  BY <1>1, <1>2, <1>3 DEF ControllerSend

-----------------------------------------------------------------------------
(* The specification. *)

\* The invariant holds when the coordinator starts.
LEMMA CoordinatorInitInv == CoordinatorInit => CInv
<1>. SUFFICES ASSUME CoordinatorInit PROVE CInv
  OBVIOUS
<1>1. /\ wstate = [w \in Workers |-> "off"] /\ greeted = [w \in Workers |-> 0]
      /\ allocs = [w \in Workers |-> NoAllocs]
      /\ to_worker = [w \in Workers |-> <<>>] /\ from_worker = [w \in Workers |-> <<>>]
      /\ backlog = <<>> /\ pc = "poll" /\ peer = Nobody /\ ctrl = Nobody /\ worker = Nobody
      /\ g_alloc = [id \in Ids |-> Unknown] /\ request = NoRequest
      /\ frames = [c \in Controllers |-> <<>>] /\ used = {}
  BY DEF CoordinatorInit, WorkersInit
<1>2. \A w \in Workers : w # Nobody
  BY PeersAssumption
<1>3. Len(<< >>) = 0 /\ 1 .. 0 = {}
  OBVIOUS
<1>4. Typed
  <2>1. NoRequest \in MessageType
    BY DEF NoRequest, MessageType
  <2>2. g_alloc \in [Ids -> [gen : Gens \cup {0}, boot : Workers \cup {Nobody}, current : BOOLEAN]]
    BY <1>1 DEF Unknown
  <2>3. allocs \in [Workers -> [Ids -> Gens \cup {0}]] /\ greeted \in [Workers -> 0 .. Greeting]
    BY <1>1 DEF NoAllocs, Greeting
  <2>4. CoordinatorTypeOK
    BY <1>1, <2>1, <2>2, <2>3 DEF CoordinatorTypeOK
  <2>. QED  BY <1>1, <2>4 DEF Typed, Awaits
<1>5. Flight
  BY <1>1 DEF Flight, Awaits
<1>6. Lives
  <2>1. \A w \in Workers : ~Queued(w) /\ ~Pending(w)
    BY <1>1, <1>2, <1>3 DEF Queued, Pending
  <2>2. \A w \in Workers : greeted[w] = 0 /\ wstate[w] = "off" /\ allocs[w] = NoAllocs
    BY <1>1
  <2>. QED  BY <1>1, <1>2, <1>3, <2>1, <2>2 DEF Lives
<1>7. Entries
  BY <1>1 DEF Entries, AwaitsRelease, Awaits
<1>8. OnceOnly
  <2>1. \A id \in Ids : Untouched(id)
    BY <1>1 DEF Untouched, NoAllocs, AwaitsAllocate, Awaits
  <2>2. \A c \in Controllers, i \in Nat : ~Asks(c, i)
    BY <1>1, <1>3 DEF Asks
  <2>. QED  BY <2>1, <2>2 DEF OnceOnly, FirstAsked, AskedOnce
<1>. QED  BY <1>4, <1>5, <1>6, <1>7, <1>8 DEF CInv

\* A step that changes nothing.
LEMMA CoordinatorStutter == CInv /\ UNCHANGED vars => CInv'
<1>. SUFFICES ASSUME CInv, UNCHANGED vars PROVE CInv'
  OBVIOUS
<1>1. /\ wstate' = wstate /\ greeted' = greeted /\ allocs' = allocs /\ to_worker' = to_worker
      /\ from_worker' = from_worker /\ backlog' = backlog /\ pc' = pc /\ peer' = peer
      /\ ctrl' = ctrl /\ worker' = worker /\ g_alloc' = g_alloc /\ request' = request
      /\ frames' = frames /\ used' = used /\ UNCHANGED <<workers, loop, request>>
  BY DEF vars, workers, loop, controllers
<1>2. Flight'
  BY <1>1, FlightKept
<1>3. Lives'
  BY <1>1, LivesKept DEF CInv
<1>4. Entries' /\ OnceOnly'
  BY <1>1, HoldingsKept
<1>5. Typed'
  BY <1>1 DEF CInv, Typed, CoordinatorTypeOK, Awaits
<1>. QED  BY <1>2, <1>3, <1>4, <1>5 DEF CInv

\* Every step of every process keeps the invariant.
LEMMA CoordinatorNextInv == CInv /\ [CoordinatorNext]_vars => CInv'
<1>. SUFFICES ASSUME CInv, [CoordinatorNext]_vars PROVE CInv'
  OBVIOUS
<1>1. CASE CoordinatorStep
  BY <1>1, PollStep, AcceptStep, RegisterWorkerStep, ConnectionStep, DispatchStep,
     WorkerAnsweredStep, WorkerDeadStep DEF CoordinatorStep
<1>2. CASE \E w \in Workers : OfWorker(pc # "down" /\ WorkerConnect(w))
  BY <1>2, WorkerConnectStep DEF OfWorker, Elsewhere
<1>3. CASE \E w \in Workers : OfWorker(WorkerStep(w))
  BY <1>3, WorkerGreetStep, WorkerServeStep, GoneStep
     DEF OfWorker, Elsewhere, WorkerStep, WorkerDisconnect
<1>4. CASE \E w \in Workers : OfWorker(WorkerDie(w))
  BY <1>4, GoneStep DEF OfWorker, Elsewhere, WorkerDie
<1>5. CASE \E c \in Controllers : ControllerSend(c)
  BY <1>5, ControllerSendStep
<1>6. CASE \E c \in Controllers : \/ ControllerConnect(c) \/ ControllerReceive(c)
                                  \/ ControllerClose(c) \/ ControllerDisconnect(c)
  BY <1>6, ControllerStep
<1>7. CASE UNCHANGED vars
  BY <1>7, CoordinatorStutter
<1>. QED  BY <1>1, <1>2, <1>3, <1>4, <1>5, <1>6, <1>7 DEF CoordinatorNext

(* The inductive invariant holds in every state of the deployment.         *)
THEOREM CoordinatorInvariant == CoordinatorSpec => []CInv
<1>. QED  BY CoordinatorInitInv, CoordinatorNextInv, PTL DEF CoordinatorSpec

(* Types of the deployment's state; the loop never waits for a worker, or  *)
(* reads from a controller, on INVALID_SOCKET.                             *)
THEOREM CoordinatorTypeCorrect == CoordinatorSpec => []CoordinatorTypeOK
<1>1. CInv => CoordinatorTypeOK
  BY DEF CInv, Typed
<1>. QED  BY <1>1, CoordinatorInvariant, PTL

(* forward_and_wait and the worker's loop stay in step: one frame between  *)
(* them while an answer is awaited, none otherwise, so the answer taken is *)
(* the answer to the request.                                              *)
THEOREM LockstepCorrect == CoordinatorSpec => []Lockstep
<1>1. CInv => Lockstep
  <2>. SUFFICES ASSUME CInv, worker # Nobody, wstate[worker] = "serving"
                PROVE  /\ InFlight(worker) = IF pc = "await" THEN 1 ELSE 0
                       /\ \A i \in DOMAIN from_worker[worker] :
                             /\ Matching(from_worker[worker][i])
                             /\ from_worker[worker][i].id = request.id
                             /\ from_worker[worker][i].gen = request.gen
    BY DEF Lockstep
  <2>1. worker \in Workers
    BY DEF CInv, Typed, CoordinatorTypeOK
  <2>2. Len(<< >>) = 0 /\ DOMAIN << >> = {}
    OBVIOUS
  <2>3. CASE from_worker[worker] # <<>>
    <3>1. Awaits /\ to_worker[worker] = <<>>
      BY <2>1, <2>3 DEF CInv, Flight
    <3>2. PICK a \in AnswerType : from_worker[worker] = <<a>> /\ Truthful(worker, a)
      BY <2>1, <2>3 DEF CInv, Flight
    <3>3. Len(<<a>>) = 1 /\ DOMAIN <<a>> = {1} /\ <<a>>[1] = a
      BY Single
    <3>. QED  BY <2>2, <3>1, <3>2, <3>3 DEF InFlight, Awaits, Truthful
  <2>4. CASE from_worker[worker] = <<>> /\ to_worker[worker] # <<>>
    <3>1. Awaits /\ to_worker[worker] = <<request>>
      BY <2>1, <2>4 DEF CInv, Flight
    <3>2. Len(<<request>>) = 1
      BY Single
    <3>. QED  BY <2>2, <2>4, <3>1, <3>2 DEF InFlight, Awaits
  <2>5. CASE from_worker[worker] = <<>> /\ to_worker[worker] = <<>>
    <3>1. ~Awaits
      BY <2>5 DEF CInv, Flight
    <3>. QED  BY <2>2, <2>5, <3>1 DEF InFlight, Awaits
  <2>. QED  BY <2>3, <2>4, <2>5
<1>. QED  BY <1>1, CoordinatorInvariant, PTL

(* Whatever the registered worker holds between requests has its entry in  *)
(* g_alloc, if ids are asked for once: no device memory is beyond a        *)
(* controller's reach.                                                     *)
THEOREM NoOrphansCorrect ==
    ASSUME ~ReuseIds
    PROVE  CoordinatorSpec => []NoOrphans
<1>1. CInv => NoOrphans
  BY DEF CInv, Entries, EntryFor, AwaitsAllocate, Awaits, NoOrphans
<1>. QED  BY <1>1, CoordinatorInvariant, PTL

-----------------------------------------------------------------------------
(* The boot a RELEASE names. A second inductive invariant ties it to the   *)
(* entry that Releasable compares: while ids are asked for once, an id has *)
(* been allocated under the boot of its entry and under no other.          *)

NamedRight(m) == m.type = "RELEASE" /\ m.boot # Nobody => <<m.id, m.boot>> \in granted

\* Asked for and not answered yet, or never asked for.
Unanswered(id) ==
    \/ id \notin used
    \/ AwaitsAllocate /\ request.id = id
    \/ \E c \in Controllers, i \in Nat : Asks(c, i) /\ frames[c][i].id = id

Grants ==
    /\ \A c \in Controllers : \A i \in 1 .. Len(frames[c]) : NamedRight(frames[c][i])
    /\ Awaits => NamedRight(request)
    /\ \A id \in Ids, w \in Workers : <<id, w>> \in granted =>
          g_alloc[id].boot = w /\ ~Unanswered(id)

\* A step that grants nothing, brings no new request and keeps every entry's boot.
LEMMA GrantsKept ==
    ASSUME Grants, frames' = frames, used' = used, granted' = granted,
           (request' = request /\ pc' = pc) \/ ~Awaits',
           \A id \in Ids : g_alloc'[id].boot = g_alloc[id].boot
    PROVE  Grants'
<1>1. \A m : NamedRight(m) => NamedRight(m)'
  BY DEF NamedRight
<1>2. \A c, i : Asks(c, i)' <=> Asks(c, i)
  BY DEF Asks
<1>3. (Awaits' => Awaits /\ request' = request) /\ (AwaitsAllocate' => AwaitsAllocate)
  BY DEF Awaits, AwaitsAllocate
<1>4. \A id : Unanswered(id)' => Unanswered(id)
  BY <1>2, <1>3 DEF Unanswered, AwaitsAllocate
<1>. QED  BY <1>1, <1>3, <1>4 DEF Grants, NamedRight

\* A request forwarded, refused or obeyed.
LEMMA GrantsDispatch ==
    ASSUME CInv, Grants, Dispatch
    PROVE  Grants'
<1>. DEFINE m == Head(frames[ctrl])
<1>1. pc = "request" /\ ctrl \in Controllers /\ ~Awaits
  BY DEF Dispatch, CInv, Typed, CoordinatorTypeOK, Awaits
<1>2. /\ frames' = [frames EXCEPT ![ctrl] = Tail(@)] /\ frames[ctrl] # <<>>
      /\ g_alloc' = g_alloc /\ used' = used /\ granted' = granted
  BY DEF Dispatch, history
<1>3. Awaits' => request' = m
  BY DEF Dispatch, Forward, Refuse, Shutdown, Awaits
<1>4. /\ (Asks(ctrl, 1) <=> m.type = "ALLOCATE") /\ m = frames[ctrl][1]
      /\ \A c \in Controllers, i \in Nat : Asks(c, i)' =>
            \E k \in Nat : /\ Asks(c, k) /\ frames'[c][i] = frames[c][k]
                           /\ k = IF c = ctrl THEN i + 1 ELSE i
  BY <1>1, <1>2, FrameTaken
<1>5. /\ 1 \in 1 .. Len(frames[ctrl]) /\ frames'[ctrl] = Tail(frames[ctrl])
      /\ \A i \in 1 .. Len(frames'[ctrl]) :
            i + 1 \in 1 .. Len(frames[ctrl]) /\ frames'[ctrl][i] = frames[ctrl][i + 1]
      /\ \A c \in Controllers : c # ctrl => frames'[c] = frames[c]
  <2>1. frames \in [Controllers -> Seq(SentType)] /\ frames[ctrl] \in Seq(SentType)
    BY <1>1 DEF CInv, Typed
  <2>. QED  BY <1>1, <1>2, <2>1, Behead
<1>. HIDE DEF m
<1>7. NamedRight(m)
  BY <1>1, <1>4, <1>5 DEF Grants
<1>8. \A c \in Controllers : \A i \in 1 .. Len(frames'[c]) : NamedRight(frames'[c][i])
  <2>. SUFFICES ASSUME NEW c \in Controllers, NEW i \in 1 .. Len(frames'[c])
                PROVE  NamedRight(frames'[c][i])
    OBVIOUS
  <2>1. CASE c = ctrl
    BY <1>1, <1>5, <2>1 DEF Grants
  <2>2. CASE c # ctrl
    BY <1>5, <2>2 DEF Grants
  <2>. QED  BY <2>1, <2>2
<1>9. ASSUME NEW id, Unanswered(id)'
      PROVE  Unanswered(id)
  <2>1. CASE id \notin used'
    BY <1>2, <2>1 DEF Unanswered
  <2>2. CASE AwaitsAllocate' /\ request'.id = id
    <3>1. request' = m /\ m.type = "ALLOCATE" /\ m.id = id
      BY <1>3, <2>2 DEF AwaitsAllocate, Awaits
    <3>. QED  BY <1>1, <1>4, <3>1 DEF Unanswered
  <2>3. CASE \E c \in Controllers, i \in Nat : Asks(c, i)' /\ frames'[c][i].id = id
    <3>1. PICK c \in Controllers, i \in Nat : Asks(c, i)' /\ frames'[c][i].id = id
      BY <2>3
    <3>2. PICK k \in Nat : Asks(c, k) /\ frames'[c][i] = frames[c][k]
      BY <1>4, <3>1
    <3>. QED  BY <3>1, <3>2 DEF Unanswered
  <2>. QED  BY <1>9, <2>1, <2>2, <2>3 DEF Unanswered
<1>10. (\A c \in Controllers : \A i \in 1 .. Len(frames[c]) : NamedRight(frames[c][i]))'
  BY <1>2, <1>8 DEF NamedRight
<1>11. (Awaits => NamedRight(request))'
  BY <1>2, <1>3, <1>7 DEF NamedRight
<1>. QED  BY <1>2, <1>9, <1>10, <1>11 DEF Grants

\* The answer of the worker: an allocation is granted to an id nobody holds.
LEMMA GrantsAnswered ==
    ASSUME ~ReuseIds, CInv, Grants, WorkerAnswered
    PROVE  Grants'
<1>1. Awaits /\ ~Awaits' /\ worker \in Workers /\ request.id \in Ids
  BY Waiting DEF WorkerAnswered, Awaits
<1>2. /\ frames' = frames /\ used' = used
      /\ \/ granted' = granted
         \/ request.type = "ALLOCATE" /\ granted' = granted \cup {<<request.id, worker>>}
  BY DEF WorkerAnswered, controllers
<1>3. /\ \A id \in Ids : g_alloc'[id] = g_alloc[id] \/ (AwaitsAllocate /\ id = request.id)
      /\ AwaitsAllocate => g_alloc'[request.id].boot = worker
  <2>1. PICK ok : g_alloc' = IF request.type = "ALLOCATE"
                             THEN [g_alloc EXCEPT ![request.id] = Entry(request, ok)] ELSE g_alloc
    BY DEF WorkerAnswered
  <2>2. g_alloc \in [Ids -> [gen : Gens \cup {0}, boot : Workers \cup {Nobody}, current : BOOLEAN]]
    BY DEF CInv, Typed, CoordinatorTypeOK
  <2>. QED  BY <1>1, <2>1, <2>2 DEF Entry, AwaitsAllocate
<1>4. \A c, i : Asks(c, i)' <=> Asks(c, i)
  BY <1>2 DEF Asks
<1>5. \A id : Unanswered(id)' => Unanswered(id)
  BY <1>1, <1>2, <1>4 DEF Unanswered, AwaitsAllocate
<1>6. ASSUME NEW id \in Ids, AwaitsAllocate, id = request.id, Unanswered(id)'
      PROVE  FALSE
  <2>1. ~Untouched(id)
    BY <1>6 DEF Untouched
  <2>2. \/ id \notin used
        \/ \E c \in Controllers, i \in Nat : Asks(c, i) /\ frames[c][i].id = id
    BY <1>1, <1>2, <1>4, <1>6 DEF Unanswered, AwaitsAllocate
  <2>. QED  BY <1>1, <2>1, <2>2 DEF CInv, OnceOnly, FirstAsked
<1>7. AwaitsAllocate => Unanswered(request.id)
  BY DEF Unanswered
<1>8. ASSUME NEW id \in Ids, NEW w \in Workers, <<id, w>> \in granted'
      PROVE  g_alloc'[id].boot = w /\ ~Unanswered(id)'
  <2>1. CASE <<id, w>> \in granted
    <3>1. g_alloc[id].boot = w /\ ~Unanswered(id)
      BY <2>1 DEF Grants
    <3>. QED  BY <1>3, <1>5, <1>7, <3>1
  <2>2. CASE <<id, w>> \notin granted
    <3>1. request.type = "ALLOCATE" /\ id = request.id /\ w = worker
      BY <1>2, <1>8, <2>2
    <3>. QED  BY <1>1, <1>3, <1>6, <3>1 DEF AwaitsAllocate
  <2>. QED  BY <2>1, <2>2
<1>9. (\A c \in Controllers : \A i \in 1 .. Len(frames[c]) : NamedRight(frames[c][i]))'
  BY <1>2 DEF Grants, NamedRight
<1>. QED  BY <1>1, <1>8, <1>9 DEF Grants

\* A controller sends a request: a release names a boot that granted the id.
LEMMA GrantsSend ==
    ASSUME ~ReuseIds, CInv, Grants, NEW c \in Controllers, ControllerSend(c)
    PROVE  Grants'
<1>1. PICK m \in SentType :
         /\ Send(c, m) /\ NamedRight(m)
         /\ m.type = "ALLOCATE" => m.id \in Ids \ used
  <2>1. ASSUME NEW id \in Askable, NEW gen \in Gens, Send(c, Message("ALLOCATE", id, gen, Nobody))
        PROVE  \E m \in SentType : /\ Send(c, m) /\ NamedRight(m)
                                   /\ m.type = "ALLOCATE" => m.id \in Ids \ used
    <3>. DEFINE m == Message("ALLOCATE", id, gen, Nobody)
    <3>1. id \in Ids \ used
      BY DEF Askable
    <3>2. m \in SentType /\ NamedRight(m) /\ m.id \in Ids \ used
      BY <3>1 DEF Message, SentType, MessageType, Named, NamedRight
    <3>. QED  BY <2>1, <3>2
  <2>2. ASSUME NEW id \in used, NEW gen \in Gens, NEW boot \in BootsOf(id),
               Send(c, Message("RELEASE", id, gen, boot))
        PROVE  \E m \in SentType : /\ Send(c, m) /\ NamedRight(m)
                                   /\ m.type = "ALLOCATE" => m.id \in Ids \ used
    <3>. DEFINE m == Message("RELEASE", id, gen, boot)
    <3>1. id \in Ids /\ boot \in Workers \cup {Nobody} /\ (boot # Nobody => <<id, boot>> \in granted)
      BY DEF CInv, Typed, BootsOf
    <3>2. m \in SentType /\ NamedRight(m) /\ m.type # "ALLOCATE"
      BY <3>1 DEF Message, SentType, MessageType, Named, NamedRight
    <3>. QED  BY <2>2, <3>2
  <2>3. ASSUME NEW type \in {"QUERY", "SHUTDOWN"}, Send(c, Message(type, 0, 0, Nobody))
        PROVE  \E m \in SentType : /\ Send(c, m) /\ NamedRight(m)
                                   /\ m.type = "ALLOCATE" => m.id \in Ids \ used
    <3>. DEFINE m == Message(type, 0, 0, Nobody)
    <3>1. m \in SentType /\ NamedRight(m) /\ m.type # "ALLOCATE"
      BY DEF Message, SentType, MessageType, Named, NamedRight
    <3>. QED  BY <2>3, <3>1
  <2>. QED  BY <2>1, <2>2, <2>3 DEF ControllerSend
<1>2. /\ UNCHANGED <<loop, request>> /\ g_alloc' = g_alloc /\ granted' = granted
      /\ frames' = [frames EXCEPT ![c] = Append(@, m)]
      /\ used' = IF m.type = "ALLOCATE" THEN used \cup {m.id} ELSE used
  BY <1>1 DEF Send, history
<1>3. (Awaits' <=> Awaits) /\ (AwaitsAllocate' <=> AwaitsAllocate) /\ request' = request
  BY <1>2 DEF loop, Awaits, AwaitsAllocate
<1>. DEFINE q == frames[c]
<1>4. frames \in [Controllers -> Seq(SentType)] /\ q \in Seq(SentType)
  BY DEF CInv, Typed
<1>5. /\ Append(q, m) \in Seq(SentType) /\ Len(Append(q, m)) = Len(q) + 1 /\ Len(q) \in Nat
      /\ Append(q, m)[Len(q) + 1] = m
      /\ \A i \in 1 .. Len(q) : Append(q, m)[i] = q[i]
  BY <1>4, Join
<1>6. /\ frames'[c] = Append(q, m) /\ \A d \in Controllers : d # c => frames'[d] = frames[d]
  BY <1>2, <1>4
<1>7. \A d \in Controllers, i \in Nat : i \in 1 .. Len(frames'[d]) =>
         \/ i \in 1 .. Len(frames[d]) /\ frames'[d][i] = frames[d][i]
         \/ frames'[d][i] = m
  BY <1>5, <1>6
<1>8. \A d \in Controllers : \A i \in 1 .. Len(frames'[d]) : NamedRight(frames'[d][i])
  BY <1>1, <1>7 DEF Grants
<1>9. ASSUME NEW id \in Ids, Unanswered(id)'
      PROVE  Unanswered(id)
  <2>1. CASE id \notin used'
    BY <1>2, <2>1 DEF Unanswered
  <2>2. CASE AwaitsAllocate' /\ request'.id = id
    BY <1>3, <2>2 DEF Unanswered
  <2>3. CASE \E d \in Controllers, i \in Nat : Asks(d, i)' /\ frames'[d][i].id = id
    <3>1. PICK d \in Controllers, i \in Nat : Asks(d, i)' /\ frames'[d][i].id = id
      BY <2>3
    <3>2. i \in 1 .. Len(frames'[d]) /\ frames'[d][i].type = "ALLOCATE"
      BY <3>1 DEF Asks
    <3>3. CASE i \in 1 .. Len(frames[d]) /\ frames'[d][i] = frames[d][i]
      BY <3>1, <3>2, <3>3 DEF Asks, Unanswered
    <3>4. CASE frames'[d][i] = m
      BY <1>1, <3>1, <3>2, <3>4 DEF Unanswered
    <3>. QED  BY <1>7, <3>2, <3>3, <3>4
  <2>. QED  BY <1>9, <2>1, <2>2, <2>3 DEF Unanswered
<1>10. (\A d \in Controllers : \A i \in 1 .. Len(frames[d]) : NamedRight(frames[d][i]))'
  BY <1>2, <1>8 DEF NamedRight
<1>11. (Awaits => NamedRight(request))'
  BY <1>2, <1>3 DEF Grants, NamedRight
<1>. QED  BY <1>2, <1>9, <1>10, <1>11 DEF Grants

\* Every step keeps it.
LEMMA GrantsNext ==
    ASSUME ~ReuseIds, CInv, Grants, [CoordinatorNext]_vars
    PROVE  Grants'
<1>1. CASE Dispatch
  BY <1>1, GrantsDispatch
<1>2. CASE WorkerAnswered
  BY <1>2, GrantsAnswered
<1>3. CASE \E c \in Controllers : ControllerSend(c)
  BY <1>3, GrantsSend
<1>4. CASE WorkerDead
  <2>1. /\ frames' = frames /\ used' = used /\ granted' = granted /\ ~Awaits'
        /\ g_alloc' = g_alloc \/ g_alloc' = Fenced(worker)
    BY <1>4 DEF WorkerDead, controllers, Awaits
  <2>2. ASSUME NEW id \in Ids
        PROVE  g_alloc'[id].boot = g_alloc[id].boot
    <3>1. g_alloc[id] \in [gen : Gens \cup {0}, boot : Workers \cup {Nobody}, current : BOOLEAN]
      BY DEF CInv, Typed, CoordinatorTypeOK
    <3>2. [g_alloc[id] EXCEPT !.current = FALSE].boot = g_alloc[id].boot
      BY <3>1
    <3>. QED  BY <2>1, <3>2 DEF Fenced
  <2>. QED  BY <2>1, <2>2, GrantsKept
<1>5. CASE \/ Poll \/ Accept \/ RegisterWorker \/ AcceptController \/ AcceptFailed
           \/ ControllerGone
  <2>1. /\ frames' = frames /\ used' = used /\ granted' = granted /\ ~Awaits'
        /\ g_alloc' = g_alloc
    BY <1>5 DEF Poll, Accept, RegisterWorker, AcceptController, AcceptFailed, ControllerGone,
       NextStage, controllers, history, Awaits
  <2>. QED  BY <2>1, GrantsKept
<1>6. CASE \/ \E w \in Workers : \/ OfWorker(pc # "down" /\ WorkerConnect(w))
                                 \/ OfWorker(WorkerStep(w)) \/ OfWorker(WorkerDie(w))
           \/ \E c \in Controllers :
                 \/ ControllerConnect(c) \/ ControllerReceive(c)
                 \/ ControllerClose(c) \/ ControllerDisconnect(c)
           \/ UNCHANGED vars
  <2>1. /\ frames' = frames /\ used' = used /\ granted' = granted /\ g_alloc' = g_alloc
        /\ request' = request /\ pc' = pc
    BY <1>6 DEF OfWorker, ControllerConnect, ControllerReceive, ControllerClose,
       ControllerDisconnect, Leave, vars, loop, controllers, history
  <2>. QED  BY <2>1, GrantsKept
<1>. QED  BY <1>1, <1>2, <1>3, <1>4, <1>5, <1>6 DEF CoordinatorNext, CoordinatorStep

(* A RELEASE that names the boot of its allocation never reaches another   *)
(* boot, if ids are asked for once: the entry it is compared with is then  *)
(* of the boot it names, although neither process compares that boot.      *)
THEOREM StaleBootCorrect ==
    ASSUME ~ReuseIds
    PROVE  CoordinatorSpec => []StaleBootRefused
<1>1. CoordinatorInit => Grants
  <2>. SUFFICES ASSUME CoordinatorInit PROVE Grants
    OBVIOUS
  <2>1. frames = [c \in Controllers |-> <<>>] /\ granted = {} /\ pc = "poll"
    BY DEF CoordinatorInit
  <2>2. Len(<< >>) = 0 /\ 1 .. 0 = {}
    OBVIOUS
  <2>. QED  BY <2>1, <2>2 DEF Grants, Awaits
<1>2. CInv /\ Grants /\ [CoordinatorNext]_vars => Grants'
  BY GrantsNext
<1>3. CInv /\ Grants => StaleBootRefused
  <2>. SUFFICES ASSUME CInv, Grants, NEW w \in Workers, NEW i \in DOMAIN to_worker[w],
                       to_worker[w][i].type = "RELEASE"
                PROVE  to_worker[w][i].boot \in {w, Nobody}
    BY DEF StaleBootRefused
  <2>1. to_worker[w] # <<>>
    OBVIOUS
  <2>2. Awaits /\ w = worker /\ to_worker[w] = <<request>>
    BY <2>1 DEF CInv, Flight
  <2>3. to_worker[w][i] = request
    BY <2>2, Single
  <2>4. /\ request.id \in Ids /\ g_alloc[request.id].boot = worker /\ NamedRight(request)
        /\ request.boot \in Workers \cup {Nobody}
    BY <2>2, <2>3, Waiting DEF CInv, Entries, AwaitsRelease, Grants, MessageType
  <2>. QED  BY <2>2, <2>3, <2>4 DEF Grants, NamedRight
<1>. QED  BY <1>1, <1>2, <1>3, CoordinatorInvariant, PTL DEF CoordinatorSpec

-----------------------------------------------------------------------------
(* An entry becomes current only on behalf of the registered worker, which *)
(* then holds the allocation or has died: a stale boot never publishes an  *)
(* allocation's completion.                                                *)
THEOREM CompletionsCorrect == CoordinatorSpec => CompletionsCurrent
<1>. DEFINE Fresh == \A id \in Ids : g_alloc'[id].current /\ ~g_alloc[id].current =>
                        /\ g_alloc'[id].boot = worker
                        /\ wstate[worker] = "serving" => allocs[worker][id] = g_alloc'[id].gen
<1>1. CInv /\ [CoordinatorNext]_vars => [Fresh]_vars
  <2>. SUFFICES ASSUME CInv, CoordinatorNext, NEW id \in Ids,
                       g_alloc'[id].current, ~g_alloc[id].current
                PROVE  /\ g_alloc'[id].boot = worker
                       /\ wstate[worker] = "serving" => allocs[worker][id] = g_alloc'[id].gen
    BY Zenon
  <2>0. g_alloc' # g_alloc
    OBVIOUS
  <2>1. CASE WorkerAnswered
    <3>1. Awaits /\ from_worker[worker] # <<>>
      BY <2>1 DEF WorkerAnswered, Awaits
    <3>2. worker \in Workers /\ request.id \in Ids
      BY <3>1, Waiting
    <3>3. PICK a \in AnswerType : from_worker[worker] = <<a>> /\ Truthful(worker, a)
      BY <3>1, <3>2 DEF CInv, Flight
    <3>4. a.ok \in BOOLEAN /\ Head(from_worker[worker]) = a
      BY <3>3, Single DEF AnswerType
    <3>5. /\ request.type = "ALLOCATE"
          /\ g_alloc' = [g_alloc EXCEPT ![request.id] = Entry(request, a.ok)]
      BY <2>0, <2>1, <3>4 DEF WorkerAnswered
    <3>6. g_alloc \in [Ids -> [gen : Gens \cup {0}, boot : Workers \cup {Nobody}, current : BOOLEAN]]
      BY DEF CInv, Typed, CoordinatorTypeOK
    <3>7. id = request.id /\ g_alloc'[id] = Entry(request, a.ok)
      BY <3>2, <3>5, <3>6
    <3>8. g_alloc'[id] = [gen |-> request.gen, boot |-> worker, current |-> a.ok]
      BY <3>7 DEF Entry
    <3>9. a.ok = TRUE
      <4>1. [gen |-> request.gen, boot |-> worker, current |-> a.ok].current
        BY <3>8
      <4>. QED  BY <3>4, <4>1
    <3>. QED  BY <3>3, <3>5, <3>7, <3>8, <3>9 DEF Truthful
  <2>2. CASE WorkerDead
    <3>1. request.type = "ALLOCATE" /\ g_alloc' = Fenced(worker)
      BY <2>0, <2>2 DEF WorkerDead
    <3>2. g_alloc \in [Ids -> [gen : Gens \cup {0}, boot : Workers \cup {Nobody}, current : BOOLEAN]]
      BY DEF CInv, Typed, CoordinatorTypeOK
    <3>3. g_alloc[id] \in [gen : Gens \cup {0}, boot : Workers \cup {Nobody}, current : BOOLEAN]
      BY <3>2
    <3>4. [g_alloc[id] EXCEPT !.current = FALSE].current = FALSE
      BY <3>3
    <3>5. g_alloc'[id] = g_alloc[id] \/ g_alloc'[id] = [g_alloc[id] EXCEPT !.current = FALSE]
      BY <3>1 DEF Fenced
    <3>6. g_alloc'[id].current = g_alloc[id].current \/ g_alloc'[id].current = FALSE
      BY <3>4, <3>5
    <3>. QED  BY <3>6
  <2>3. CASE \/ Poll \/ Accept \/ RegisterWorker \/ AcceptController \/ AcceptFailed
             \/ ControllerGone \/ Dispatch
    BY <2>0, <2>3 DEF Poll, Accept, RegisterWorker, AcceptController, AcceptFailed,
       ControllerGone, Dispatch
  <2>4. CASE \E w \in Workers : \/ OfWorker(pc # "down" /\ WorkerConnect(w))
                                \/ OfWorker(WorkerStep(w)) \/ OfWorker(WorkerDie(w))
    BY <2>0, <2>4 DEF OfWorker
  <2>5. CASE \E c \in Controllers :
                \/ ControllerConnect(c) \/ ControllerSend(c) \/ ControllerReceive(c)
                \/ ControllerClose(c) \/ ControllerDisconnect(c)
    BY <2>0, <2>5 DEF ControllerConnect, ControllerSend, Send, ControllerReceive,
       ControllerClose, ControllerDisconnect, Leave
  <2>. QED  BY <2>1, <2>2, <2>3, <2>4, <2>5 DEF CoordinatorNext, CoordinatorStep
<1>. QED  BY <1>1, CoordinatorInvariant, PTL DEF CoordinatorSpec, CompletionsCurrent
==============================================================================
