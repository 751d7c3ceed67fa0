---------------------------- MODULE MCBspIndex ----------------------------
(* BspIndex with small pages, so that trees of two and three levels split  *)
(* and merge with a handful of keys.                                       *)
EXTENDS BspIndex

CONSTANTS
    NumKeys,     \* keys are 1 .. NumKeys
    LongKeys,    \* the keys that are strings of the maximal length
    LongLen,     \* their encoded length
    BulkSizes    \* bulk_build gets the keys 1 .. n, for these n

MCKeys == 1 .. NumKeys
\* An encoded integer has 9 bytes, and so has a string of four characters.
MCKeyLen == [k \in MCKeys |-> IF k \in LongKeys THEN LongLen ELSE 9]
MCBulkKeys == {1 .. n : n \in BulkSizes}
=============================================================================
