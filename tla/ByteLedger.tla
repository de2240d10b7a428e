------------------------------ MODULE ByteLedger ------------------------------
(***************************************************************************)
(* What an arena promises its clients, stated byte by byte: every byte of  *)
(* the device domain has at most one owner, an owner is an allocation      *)
(* together with its current generation, and ownership changes hands only  *)
(* by granting vacant bytes, by releasing all of an allocation's bytes     *)
(* under its current generation, or by moving it as a whole to vacant      *)
(* bytes under the next generation.                                        *)
(*                                                                         *)
(* There is no layout here, no index and no placement policy: module       *)
(* RegionAllocator is the detailed specification that implements this one, *)
(* and so do the records of module MemoryGovernor.                         *)
(***************************************************************************)
EXTENDS Integers

CONSTANTS Capacity, AllocIds, MaxGeneration

VARIABLE owner      \* owner[b]: <<id, generation>> or Nobody

Nobody == <<0, 0>>   \* no allocation has the id 0
Bytes == 0 .. Capacity - 1
Generations == 1 .. MaxGeneration
Interval(lo, n) == lo .. (lo + n - 1)

Holding(id) == {b \in Bytes : owner[b][1] = id}
HoldingUnder(id, gen) == {b \in Bytes : owner[b] = <<id, gen>>}

\* The bytes of S change hands; the bytes of S keep theirs.
Passes(S, from, to) == \A b \in S : owner[b] = from /\ owner'[b] = to
Keeps(S) == \A b \in S : owner'[b] = owner[b]

Grant(id, lo, n) ==
    /\ Interval(lo, n) \subseteq Bytes
    /\ Passes(Interval(lo, n), Nobody, <<id, 1>>)
    /\ Keeps(Bytes \ Interval(lo, n))

Release(id, gen) ==
    /\ Passes(HoldingUnder(id, gen), <<id, gen>>, Nobody)
    /\ Keeps(Bytes \ HoldingUnder(id, gen))

Move(id, gen, lo, n) ==
    /\ gen + 1 \in Generations
    /\ Interval(lo, n) \subseteq Bytes
    /\ Passes(Interval(lo, n), Nobody, <<id, gen + 1>>)
    /\ Passes(HoldingUnder(id, gen), <<id, gen>>, Nobody)
    /\ Keeps(Bytes \ (Interval(lo, n) \cup HoldingUnder(id, gen)))

Init == owner = [b \in Bytes |-> Nobody]

\* Every step changes hands.
Next ==
    /\ owner' # owner
    /\ DOMAIN owner' = Bytes
    /\ \E id \in AllocIds :
          \/ /\ Holding(id) = {}
             /\ \E lo \in Bytes, n \in 1 .. Capacity : Grant(id, lo, n)
          \/ \E gen \in Generations :
                /\ HoldingUnder(id, gen) # {}
                /\ \/ Release(id, gen)
                   \/ \E lo \in Bytes, n \in 1 .. Capacity : Move(id, gen, lo, n)

Spec == Init /\ [][Next]_owner
==============================================================================
