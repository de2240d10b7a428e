--------------------------- MODULE MCRegionAllocator ---------------------------
(* RegionAllocator on small arenas. Allocation ids are only compared for   *)
(* equality, so they are model values and may be permuted.                 *)
EXTENDS RegionAllocator, TLC

Symmetry == Permutations(AllocIds)
==============================================================================
