----------------------------- MODULE Persistence -----------------------------
(***************************************************************************)
(* Saving and restoring the governor through one file, across the ends of  *)
(* governors and processes. save() takes a snapshot under the governor's   *)
(* mutex and writes it outside of it: the file is truncated first, grows,  *)
(* and is whole at the end, and other calls run in between. A governor     *)
(* goes by its destructor or with its process, saved or not. The next one  *)
(* begins by loading the file, and a running one may load it too: load()   *)
(* decodes it and replaces the state, keeping every surviving record as    *)
(* retired (what it described was owned by a process that is gone); a file *)
(* that decode refuses leaves the governor as it is.                       *)
(*                                                                         *)
(* One save writes the file at a time. The code does not see to it, as it  *)
(* writes outside the mutex: callers that let two saves to one file        *)
(* overlap are left out, and so is the file that mixes both.               *)
(***************************************************************************)
EXTENDS SnapshotFile

CONSTANT CutPoints     \* bound: the lengths a file being written is seen at

ASSUME CutAssumption == CutPoints \subseteq Nat

VARIABLES
    file,           \* the snapshot file; empty if there is none
    writing,        \* save(): the file is being written
    saved,          \* save(): the snapshot to be written
    running,        \* there is a governor, and it has tried to load
    known,          \* handles of earlier governors this one has loaded
    lost            \* handles given out by earlier governors, or by this one
                    \* before a load, since the last that had nothing to load

persistence == <<file, writing, saved, running, known, lost>>
pvars == <<governor, persistence>>

-----------------------------------------------------------------------------
(* Snapshots. *)

snapshot ==
    [records |-> records, retired |-> retired,
     next_alloc_id |-> next_alloc_id, history_count |-> history_count]

NoSnapshot ==
    [records |-> NoBook, retired |-> NoBook, next_alloc_id |-> 1, history_count |-> 0]

NoFile == << >>

\* What write_file may have written of s when it is interrupted or fails.
Partial(s) == {SubSeq(encode(s), 1, k) : k \in {n \in CutPoints : n < Len(encode(s))}}

-----------------------------------------------------------------------------
(* Calls to the governor. *)

GovernorCall ==
    /\ running
    /\ Next
    /\ UNCHANGED <<file, writing, saved, running, known, lost>>

-----------------------------------------------------------------------------
(* save: snapshot and truncate, then write, which may fail half-way. *)

BeginSave ==
    /\ running /\ ~writing
    /\ saved' = snapshot
    /\ file' = NoFile
    /\ writing' = TRUE
    /\ UNCHANGED <<governor, running, known, lost>>

EndSave ==
    /\ writing
    /\ file' \in Partial(saved) \cup {encode(saved)}
    /\ writing' = FALSE
    /\ saved' = NoSnapshot
    /\ UNCHANGED <<governor, running, known, lost>>

-----------------------------------------------------------------------------
(* A governor is destroyed, or its process dies at any moment. *)

\* The handles snapshot s tells of: every generation up to the last.
HandlesOf(s) ==
    {h \in AllocIds \X (1 .. MaxGeneration) :
        h[2] <= s.records[h[1]].generation \/ h[2] <= s.retired[h[1]].generation}

\* What a new process starts from: a MemoryGovernor just constructed.
Fresh ==
    /\ regions' = {FreeRegion(0, Capacity)}
    /\ alloc_offset' = [i \in AllocIds |-> Absent]
    /\ free_slots' = {Slot(0, Capacity)}
    /\ live_bytes' = 0 /\ live_count' = 0
    /\ summary_dirty' = TRUE /\ free_count' = 0 /\ largest_free' = 0

\* The state of the governor to come; what the old one had is lost.
Succeeded ==
    /\ running /\ running' = FALSE
    /\ lost' = lost \cup HandlesOf(snapshot)
    /\ known' = {}
    /\ Fresh
    /\ records' = NoBook /\ retired' = NoBook
    /\ next_alloc_id' = 1 /\ history_count' = 0
    /\ initialized' = FALSE
    /\ current_committed' = 0 /\ current_movable' = 0 /\ current_pinned' = 0
    /\ pressure' = "UNKNOWN"
    /\ writing' = FALSE /\ saved' = NoSnapshot

\* ~MemoryGovernor. A governor that a save() is using is not destroyed.
Destroyed == ~writing /\ Succeeded /\ UNCHANGED file

ProcessDies ==
    /\ Succeeded
    /\ file' \in {file} \cup (IF writing THEN Partial(saved) ELSE {})

-----------------------------------------------------------------------------
(* load and restore. *)

\* Mutation: the id counter of the new process kept.
RestoreIdsFromOne(s) == next_alloc_id' = 1

RestoreIds(s) == next_alloc_id' = s.next_alloc_id

\* Records that were current survive as retired, to be revalidated.
Surviving(s) ==
    [id \in AllocIds |->
        IF s.records[id] # NoRecord
        THEN [s.records[id] EXCEPT !.lifecycle = "REVALIDATION_REQUIRED"] ELSE s.retired[id]]

\* Mutation: surviving records taken for current allocations.
RestoreBooksCurrent(s) == records' = s.records /\ retired' = s.retired

RestoreBooks(s) == records' = NoBook /\ retired' = Surviving(s)

restore(s) ==
    /\ RestoreBooks(s)
    /\ RestoreIds(s)
    /\ history_count' = s.history_count
    /\ Fresh
    /\ current_committed' = 0 /\ current_movable' = 0 /\ current_pinned' = 0
    /\ initialized' = FALSE
    /\ pressure' = "REVALIDATION_REQUIRED"

\* load(), the first call to a new governor or a call to one at work, whose
\* allocations and arena are then forgotten. (The arena is not given back.)
load ==
    /\ Accepts(file)
    /\ restore(decode(file))
    /\ known' = HandlesOf(decode(file))
    /\ running' = TRUE
    /\ lost' = lost \cup HandlesOf(snapshot)
    /\ UNCHANGED <<file, writing, saved>>

\* A new governor begins without a file. (Refused to one at work, a load
\* changes nothing.)
LoadRefused ==
    /\ ~running /\ ~Accepts(file)
    /\ running' = TRUE
    /\ lost' = {}
    /\ UNCHANGED <<governor, file, writing, saved, known>>

-----------------------------------------------------------------------------
PersistenceInit ==
    /\ Init
    /\ file = NoFile /\ writing = FALSE /\ saved = NoSnapshot
    /\ running = TRUE
    /\ known = {} /\ lost = {}

PersistenceNext ==
    \/ GovernorCall
    \/ BeginSave
    \/ EndSave
    \/ Destroyed
    \/ ProcessDies
    \/ load
    \/ LoadRefused

PersistenceSpec == PersistenceInit /\ [][PersistenceNext]_pvars

-----------------------------------------------------------------------------
(* Correctness. *)

\* A snapshot within the decoder's limits: no more records of a kind than it
\* reads, no text longer than it reads, and no region smaller than its request.
Loadable(s) ==
    \A book \in {s.records, s.retired} :
        /\ Cardinality(InBook(book)) <= MaxRecords
        /\ \A id \in InBook(book) : /\ book[id].requested_bytes <= book[id].region_size
                                    /\ book[id].backing_ref # "oversized"

(* What save() writes, load() reads back, except in three cases that       *)
(* save() lets by: more than kMaxRecords records current or retired        *)
(* (persistence.cpp:205, :213), a record with a text over 1 MiB (:48), and *)
(* one that apply_relocation() moved into a region smaller than its        *)
(* request (:163). In every state a governor reaches, however its records  *)
(* were made, moved, pinned and retired, the decoder accepts the file of   *)
(* its snapshot exactly when none of the three is the case, and then makes *)
(* the same snapshot of it.                                                *)
RoundTrip ==
    LET f == encode(snapshot)
    IN  /\ Accepts(f) <=> Loadable(snapshot)
        /\ Accepts(f) => decode(f) = snapshot

(* A save that was cut short is never loaded: while the file is anything   *)
(* but the whole of a snapshot it is refused. The file is also refused     *)
(* with any item damaged or with anything after its end ("truncation       *)
(* rejects", "checksum mismatch rejects", "trailing garbage rejects",      *)
(* test_persist.cpp), in every state a governor can be saved in.           *)
Damaged(item) ==
    CASE item[1] = "word"   -> {Word(item[2] + 1), Word(0)} \ {item}
      [] item[1] = "record" -> {RecordItem(item[2], [item[3] EXCEPT !.generation = @ + 1])}
      [] item[1] = "domain" -> {<<"domain", Capacity + 1, Low, High, Critical>>}
      [] OTHER              -> {Checksum(<< >>)}

DamageRefused ==
    LET f == encode(snapshot)
    IN  /\ \A k \in 0 .. Len(f) - 1 : ~Accepts(SubSeq(f, 1, k))
        /\ \A i \in 1 .. Len(f) : \A x \in Damaged(f[i]) : ~Accepts([f EXCEPT ![i] = x])
        /\ \A i \in 1 .. Len(f) : ~Accepts(Append(f, f[i]))

(* Recovery is conservative: nothing the governor has loaded is current.   *)
(* No handle of an earlier governor that the file told of is accepted, and *)
(* its allocation stays on record, so that a late release of it is told    *)
(* apart from one of an unknown id.                                        *)
KnownNeverHeld == \A h \in known : ~Holds(h[1], h[2]) /\ h[1] \in Retired

(* "A stale AllocationGeneration must not free or relocate current memory" *)
(* (README), across processes: a handle given out by an earlier governor   *)
(* is not accepted by a later one that was restored from the saved state,  *)
(* nor one given out before a load by the governor that loads.             *)
LostNeverHeld == \A h \in lost : ~Holds(h[1], h[2])
==============================================================================
