----------------------------- MODULE StringPool -----------------------------
(***************************************************************************)
(* The pool of interned strings (core/string_pool.cpp): a vector of the    *)
(* strings and a map from a string to its place in the vector, both        *)
(* guarded by the pool's own mutex.  A Value of type string is such an id. *)
(*                                                                         *)
(* get hands out a reference into the vector and unlocks.  The buffer of   *)
(* the vector is numbered here: a push_back that finds it full moves the   *)
(* strings to a new one, and references into the old one dangle.           *)
(***************************************************************************)
EXTENDS Integers, Sequences

CONSTANT Strings

VARIABLES
    by_id,       \* by_id_ without the sentinel: the string of every id from 1
    by_value,    \* by_value_: the id of every string, kInvalid for a new one
    buffer,      \* which buffer by_id_ lives in
    capacity     \* how many strings, sentinel included, that buffer holds

pool == <<by_id, by_value, buffer, capacity>>

kInvalid == 0
Ids == 1..Len(by_id)
IsInterned(s) == by_value[s] # kInvalid

\* push_back of the vector: the sentinel counts, and a full buffer is left
\* for one twice as large.
push_back(s) ==
    /\ by_id' = Append(by_id, s)
    /\ by_value' = [by_value EXCEPT ![s] = Len(by_id) + 1]
    /\ IF Len(by_id) + 1 = capacity
       THEN buffer' = buffer + 1 /\ capacity' = 2 * capacity
       ELSE UNCHANGED <<buffer, capacity>>

\* Mutant: the map is not asked.
intern_again(s) == push_back(s)

\* intern, in one step under mu_.
intern(s) == IF IsInterned(s) THEN UNCHANGED pool ELSE push_back(s)

\* The id that intern returns, in terms of the state after it.
InternedId(s) == by_value'[s]

\* get: a reference into the current buffer.
get(id) == [buffer |-> buffer, id |-> id]

Dangles(ref) == ref.buffer # buffer

\* The pool after load_all has interned the strings of the files, in some
\* order, each of them once.
PoolInit(loaded) ==
    /\ by_id = loaded
    /\ by_value = [s \in Strings |->
                     IF \E i \in 1..Len(loaded) : loaded[i] = s
                     THEN CHOOSE i \in 1..Len(loaded) : loaded[i] = s
                     ELSE kInvalid]
    /\ buffer = 0
    /\ capacity = CHOOSE n \in {1, 2, 4, 8} : n > Len(loaded) /\ n < 2 * (Len(loaded) + 1)

PoolTypeOK ==
    /\ by_id \in Seq(Strings)
    /\ by_value \in [Strings -> 0..Len(by_id)]
    /\ buffer \in Nat
    /\ Len(by_id) + 1 <= capacity
=============================================================================
