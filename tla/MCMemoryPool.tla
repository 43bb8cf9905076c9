---------------------------- MODULE MCMemoryPool ----------------------------
(* The memory pool with small regions and one or two size classes.         *)
EXTENDS MemoryPool

CONSTANTS c1, c2

OneClassPages == c1 :> 2
OneClassMove == c1 :> 2
TwoClassPages == c1 :> 1 @@ c2 :> 2
TwoClassMove == c1 :> 1 @@ c2 :> 2
Small == {}
\* Big objects that leave room in a region, and that exceed it.
Big == {2}
Huge == {6}
FitsAndHuge == {2, MaxPage + 1}
Symmetry == Permutations(Threads)
=============================================================================
