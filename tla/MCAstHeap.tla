----------------------------- MODULE MCAstHeap -----------------------------
(* Any permutation of the cells is as good as another: addresses are only   *)
(* compared for equality.                                                  *)
EXTENDS AstHeap, TLC

Cells == Permutations(Node)
=============================================================================
