---------------------------- MODULE MCPager ----------------------------
(* Pager on a file of a few pages, with every capacity that matters: no    *)
(* cache, a cache smaller than the file, and one as large as the file.     *)
EXTENDS Pager, TLC

\* Page contents are only compared for equality.
DataSymmetry == Permutations(Data)
==========================================================================
