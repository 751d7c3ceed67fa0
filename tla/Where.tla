------------------------------- MODULE Where -------------------------------
(***************************************************************************)
(* How a statement finds its rows: the WHERE evaluation, the index hint    *)
(* and the row loops of exec_select, exec_update and exec_delete           *)
(* (sql/executor.cpp), over Value::compare (core/value.cpp) and the        *)
(* lookups of Table (storage/table.cpp).                                   *)
(*                                                                         *)
(* The table stands still while a statement looks for its rows: statements *)
(* run under the DBMS mutex, and UPDATE and DELETE collect the ids of all  *)
(* their rows before they change one (module Table models the changes).    *)
(* Every INDEXED column has an entry for every row, what IndexComplete and *)
(* NoNulls of module Table say, and an index yields its entries in the     *)
(* order of their keys, what ScanCorrect of module BspIndex says.          *)
(***************************************************************************)
EXTENDS Integers, Sequences, FiniteSets, FiniteSetsExt

CONSTANTS
    Columns,     \* columns are 1 .. number of columns, in schema order
    Type,        \* the type of every column: "int" or "str"
    Indexed,     \* INDEXED columns
    Tables,      \* the tables looked at: record id -> column -> value
    Exprs,       \* WHERE expressions, closed under the operands of AND and OR
    Depth,       \* how deep an expression is: they are finite trees
    Items,       \* select lists: sequences of items
    Regex,       \* pattern -> the strings it matches; no entry for a bad regex
    NotUtf8      \* strings that are not UTF-8: a literal may hold any bytes

Null == [tag |-> "null", n |-> 0]
IntVal(n) == [tag |-> "int", n |-> n]
StrVal(n) == [tag |-> "str", n |-> n]    \* n: place in lexicographic order
Values == {Null} \cup [tag : {"int", "str"}, n : Int]

\* The WHERE of a statement; NoWhere stands for the null pointer.
NoWhere == [kind |-> "nowhere"]
Wheres == Exprs \cup {NoWhere}

Col(c) == [kind |-> "col", col |-> c]
Lit(v) == [kind |-> "lit", v |-> v]
Cmp(op, l, r) == [kind |-> "cmp", op |-> op, lhs |-> l, rhs |-> r]
Between(v, lo, hi) == [kind |-> "between", value |-> v, lo |-> lo, hi |-> hi]
Like(v, p) == [kind |-> "like", value |-> v, pattern |-> p]
And(l, r) == [kind |-> "and", lhs |-> l, rhs |-> r]
Or(l, r) == [kind |-> "or", lhs |-> l, rhs |-> r]

Compares == {"Eq", "NotEq", "Lt", "Gt", "LtEq", "GtEq"}

\* The operands of an expression without AND and OR: columns, which need not
\* exist, and literals.
Atoms(e) ==
    CASE e.kind = "cmp"     -> {e.lhs, e.rhs}
      [] e.kind = "between" -> {e.value, e.lo, e.hi}
      [] e.kind = "like"    -> {e.value, e.pattern}
IsAtom(x) == x.kind = "col" \/ (x.kind = "lit" /\ x.v \in Values)

Star == [kind |-> "star"]
Plain(c) == [kind |-> "plain", col |-> c]
AggStar == [kind |-> "aggstar", fn |-> "Count"]
Agg(fn, c) == [kind |-> "agg", fn |-> fn, col |-> c]
SelectItems ==
    {Star, AggStar} \cup [kind : {"plain"}, col : Nat]
      \cup [kind : {"agg"}, fn : {"Count", "Sum", "Avg"}, col : Nat]

ASSUME WhereAssumption ==
    /\ Columns = 1 .. Cardinality(Columns)
    /\ Type \in [Columns -> {"int", "str"}]
    /\ Indexed \subseteq Columns
    /\ \A t \in Tables :
         /\ DOMAIN t \subseteq Nat /\ IsFiniteSet(DOMAIN t)
         /\ \A id \in DOMAIN t : t[id] \in [Columns -> Values]
         /\ \A c \in Indexed :
              /\ \A id \in DOMAIN t : t[id][c].tag = Type[c]
              /\ \A id, jd \in DOMAIN t : t[id][c] = t[jd][c] => id = jd
    /\ Depth \in [Wheres -> Nat]
    /\ \A e \in Exprs :
         \/ /\ e.kind \in {"and", "or"}
            /\ \A x \in {e.lhs, e.rhs} : x \in Wheres \ {NoWhere} /\ Depth[x] < Depth[e]
         \/ /\ e.kind \in {"cmp", "between", "like"}
            /\ e.kind = "cmp" => e.op \in Compares
            /\ \A x \in Atoms(e) : IsAtom(x)
    /\ Items \subseteq Seq(SelectItems)
    /\ NotUtf8 \subseteq [tag : {"str"}, n : Int]

VARIABLES
    records,     \* records_ of the table
    stmt,        \* the statement: its kind, WHERE and select list
    pc,          \* "idle", "rows" (in the row loop), "done" or "error"
    candidates,  \* what is left of the result of select_candidates
    matched,     \* ids of the rows found so far, in order
    count, sum   \* the accumulators of the aggregates

vars == <<records, stmt, pc, candidates, matched, count, sum>>

----------------------------------------------------------------------------
(* Values *)

Valid(a, b) == a.tag = b.tag /\ a.tag # "null"

compare(a, b) == IF a.n < b.n THEN -1 ELSE IF a.n > b.n THEN 1 ELSE 0

matches(v, type) == v.tag \in {"null", type}

----------------------------------------------------------------------------
(* Expressions *)

to_bool_three_valued(c, op) ==
    \/ op = "Eq" /\ c = 0
    \/ op = "NotEq" /\ c # 0
    \/ op \in {"Lt", "LtEq"} /\ c < 0
    \/ op \in {"Gt", "GtEq"} /\ c > 0
    \/ op \in {"LtEq", "GtEq"} /\ c = 0

\* TriBool.
Known(b) == [value |-> b, unknown |-> FALSE]
Unknown == [value |-> FALSE, unknown |-> TRUE]

tri_or(a, b) ==
    IF a.value \/ b.value THEN Known(TRUE)
    ELSE IF a.unknown \/ b.unknown THEN Unknown ELSE Known(FALSE)

\* An UNKNOWN operand wins over FALSE as well as over TRUE.
tri_and(a, b) ==
    IF a.unknown \/ b.unknown THEN Unknown ELSE Known(a.value /\ b.value)

eval_atom(e, row) == IF e.kind = "lit" THEN e.v ELSE row[e.col]
AtomThrows(e) == e.kind = "col" /\ e.col \notin Columns

\* eval_where of an expression that is neither AND nor OR, and when it throws:
\* an unknown column, LIKE on an int, a bad regular expression.
EvalClause(e, row) ==
    LET V(x) == eval_atom(x, row)
    IN  CASE e.kind = "cmp" ->
               IF Valid(V(e.lhs), V(e.rhs))
               THEN Known(to_bool_three_valued(compare(V(e.lhs), V(e.rhs)), e.op))
               ELSE Unknown
          [] e.kind = "between" ->
               IF Valid(V(e.value), V(e.lo)) /\ Valid(V(e.value), V(e.hi))
               THEN Known(/\ compare(V(e.value), V(e.lo)) >= 0
                          /\ compare(V(e.value), V(e.hi)) <= 0)
               ELSE Unknown
          [] e.kind = "like" ->
               IF Null \in {V(e.value), V(e.pattern)} THEN Unknown
               ELSE Known(V(e.value) \in Regex[V(e.pattern)])

ClauseThrows(e, row) ==
    \/ \E x \in Atoms(e) : AtomThrows(x)
    \/ /\ e.kind = "like"
       /\ LET v == eval_atom(e.value, row)
              pat == eval_atom(e.pattern, row)
          IN  /\ Null \notin {v, pat}
              /\ v.tag # "str" \/ pat.tag # "str" \/ pat \notin DOMAIN Regex

\* Both operands of AND and OR are always evaluated.
eval_where(where, row) ==
    LET eval[e \in Wheres] ==
          CASE e.kind = "and" -> tri_and(eval[e.lhs], eval[e.rhs])
            [] e.kind = "or"  -> tri_or(eval[e.lhs], eval[e.rhs])
            [] OTHER          -> EvalClause(e, row)
    IN  eval[where]

EvalThrows(where, row) ==
    LET throws[e \in Wheres] ==
          IF e.kind \in {"and", "or"} THEN throws[e.lhs] \/ throws[e.rhs]
          ELSE ClauseThrows(e, row)
    IN  throws[where]

----------------------------------------------------------------------------
(* The index hint *)

IsColumn(e, c) == e.kind = "col" /\ e.col = c
IsLiteral(e) == e.kind = "lit"

\* Mutant: OR is walked too.
WalkAll(where) ==
    LET walk[e \in Wheres] ==
          IF e.kind \in {"and", "or"} THEN walk[e.lhs] \o walk[e.rhs] ELSE <<e>>
    IN  walk[where]

\* The clauses of the conjunction at the top, in order.
Clauses(where) ==
    LET walk[e \in Wheres] ==
          IF e.kind = "and" THEN walk[e.lhs] \o walk[e.rhs] ELSE <<e>>
    IN  walk[where]

Swapped == [op \in Compares |->
              CASE op = "Lt" -> "Gt" [] op = "Gt" -> "Lt"
                [] op = "LtEq" -> "GtEq" [] op = "GtEq" -> "LtEq" [] OTHER -> op]

\* What a clause says of column c, as "c op literal".  The literals of a
\* BETWEEN are taken whatever their type.
Limits(e, c) ==
    LET cmp == IF IsColumn(e.lhs, c) /\ IsLiteral(e.rhs)
               THEN {[op |-> e.op, v |-> e.rhs.v]}
               ELSE IF IsColumn(e.rhs, c) /\ IsLiteral(e.lhs)
               THEN {[op |-> Swapped[e.op], v |-> e.lhs.v]}
               ELSE {}
    IN  CASE e.kind = "cmp" ->
               {l \in cmp : l.op # "NotEq" /\ matches(l.v, Type[c])}
          [] e.kind = "between" ->
               IF IsColumn(e.value, c) /\ IsLiteral(e.lo) /\ IsLiteral(e.hi)
               THEN {[op |-> "GtEq", v |-> e.lo.v], [op |-> "LtEq", v |-> e.hi.v]}
               ELSE {}
          [] OTHER -> {}

\* The limits with an operator of ops that the last clause to have any gives:
\* a later clause overwrites what an earlier one has set.
LastLimit(clauses, c, ops) ==
    LET Of(i) == {l \in Limits(clauses[i], c) : l.op \in ops}
    IN  {l \in UNION {Of(i) : i \in 1 .. Len(clauses)} :
           \E i \in 1 .. Len(clauses) :
             l \in Of(i) /\ \A j \in i + 1 .. Len(clauses) : Of(j) = {}}

\* The candidate hint of a column, every part a set of at most one limit.
HintFor(clauses, c) ==
    [col |-> c,
     eq |-> LastLimit(clauses, c, {"Eq"}),
     lo |-> LastLimit(clauses, c, {"Gt", "GtEq"}),
     hi |-> LastLimit(clauses, c, {"Lt", "LtEq"})]

\* The hints of the indexed columns that have one; the first of them wins.
Hints(where) ==
    {h \in {HintFor(Clauses(where), c) : c \in Indexed} :
       h.eq \cup h.lo \cup h.hi # {}}

derive_index_hint(where) ==
    IF where = NoWhere THEN {}
    ELSE {h \in Hints(where) : \A g \in Hints(where) : h.col <= g.col}

----------------------------------------------------------------------------
(* Candidates *)

\* The ids of S in the order of the keys of column c, and in insertion order.
InKeyOrder(S, c) ==
    LET Before(id) == {x \in S : compare(records[x][c], records[id][c]) < 0}
    IN  [i \in 1 .. Cardinality(S) |->
           CHOOSE id \in S : Cardinality(Before(id)) = i - 1]
InInsertionOrder(S) ==
    [i \in 1 .. Cardinality(S) |->
       CHOOSE id \in S : Cardinality({x \in S : x < id}) = i - 1]

\* A literal of another type, or NULL, compares as equal to every key of the
\* index, so the search ends in the rightmost leaf: first is its first entry.
index_find(c, v, first) ==
    {id \in DOMAIN records :
       IF Valid(records[id][c], v) THEN records[id][c] = v ELSE id = first}

AtOrAbove(c, lo, first) ==
    {id \in DOMAIN records :
       LET key == records[id][c]
       IN  \A l \in lo :
             IF Valid(key, l.v) THEN to_bool_three_valued(compare(key, l.v), l.op)
             ELSE l.op = "GtEq" /\ compare(key, records[first][c]) >= 0}
\* The scan stops at the first key that is past hi or does not compare with it.
UpTo(c, hi) ==
    {id \in DOMAIN records :
       \A l \in hi : /\ Valid(records[id][c], l.v)
                     /\ to_bool_three_valued(compare(records[id][c], l.v), l.op)}

\* Mutant: the ids are taken in the order of the table.
index_collect_unsorted(h, first) ==
    InInsertionOrder(AtOrAbove(h.col, h.lo, first) \cap UpTo(h.col, h.hi))
\* Mutant: what is above lo and what is below hi, one after the other.
index_collect_twice(h, first) ==
    InKeyOrder(AtOrAbove(h.col, h.lo, first), h.col)
      \o InKeyOrder(UpTo(h.col, h.hi), h.col)
index_collect_range(h, first) ==
    InKeyOrder(AtOrAbove(h.col, h.lo, first) \cap UpTo(h.col, h.hi), h.col)

select_candidates(where, first) ==
    LET hint == derive_index_hint(where)
        h == CHOOSE x \in hint : TRUE
    IN  IF hint = {} THEN InInsertionOrder(DOMAIN records)
        ELSE IF h.eq # {}
        THEN InInsertionOrder(UNION {index_find(h.col, l.v, first) : l \in h.eq})
        ELSE index_collect_range(h, first)

----------------------------------------------------------------------------
(* Statements *)

NoStmt == [kind |-> "none", where |-> NoWhere, items |-> <<>>]

IsAggregate(item) == item.kind \in {"agg", "aggstar"}
Aggregates(items) == \E i \in 1 .. Len(items) : IsAggregate(items[i])

\* Select lists that exec_select refuses: '*' next to other items, an unknown
\* column, aggregates mixed with plain columns.
BadItems(items) ==
    /\ items # <<Star>>
    /\ \E i \in 1 .. Len(items) :
         \/ items[i].kind = "star"
         \/ items[i].kind \in {"plain", "agg"} /\ items[i].col \notin Columns
         \/ Aggregates(items) /\ ~IsAggregate(items[i])

\* Mutant: rows with NULL in the column count too.
SkipsNothing(item, row) == FALSE
\* COUNT(column), SUM and AVG pass over NULL.
Skips(item, row) == item.kind = "agg" /\ row[item.col] = Null

NotSummable(item, row) ==
    item.kind = "agg" /\ item.fn # "Count" /\ row[item.col].tag = "str"

Init ==
    /\ records \in Tables
    /\ stmt = NoStmt /\ pc = "idle"
    /\ candidates = <<>> /\ matched = <<>>
    /\ count = <<>> /\ sum = <<>>

\* A statement starts: the select list is resolved, then select_candidates.
Start(kind, where, items, first) ==
    /\ stmt' = [kind |-> kind, where |-> where, items |-> items]
    /\ count' = [i \in 1 .. Len(items) |-> 0]
    /\ sum' = [i \in 1 .. Len(items) |-> 0]
    /\ IF BadItems(items)
       THEN pc' = "error" /\ UNCHANGED candidates
       ELSE pc' = "rows" /\ candidates' = select_candidates(where, first)
    /\ UNCHANGED <<records, matched>>

exec_select(where, items, first) == Start("select", where, items, first)
exec_change(where, first) == Start("change", where, <<>>, first)

\* One round of the row loop.
Matches(row) ==
    stmt.where = NoWhere \/ eval_where(stmt.where, row).value
\* Mutant: the type is looked at before the WHERE.
RowThrowsUnfiltered(row) ==
    \/ stmt.where # NoWhere /\ EvalThrows(stmt.where, row)
    \/ \E i \in DOMAIN stmt.items : NotSummable(stmt.items[i], row)
RowThrows(row) ==
    \/ stmt.where # NoWhere /\ EvalThrows(stmt.where, row)
    \/ /\ Matches(row)
       /\ \E i \in DOMAIN stmt.items : NotSummable(stmt.items[i], row)

Row ==
    /\ pc = "rows" /\ candidates # <<>>
    /\ LET id == Head(candidates)
           row == records[id]
           Counted(i) == IsAggregate(stmt.items[i]) /\ ~Skips(stmt.items[i], row)
           Added(i) == IF stmt.items[i].fn = "Count" THEN 0 ELSE row[stmt.items[i].col].n
       IN  IF RowThrows(row)
           THEN pc' = "error" /\ UNCHANGED <<candidates, matched, count, sum>>
           ELSE /\ candidates' = Tail(candidates)
                /\ IF Matches(row)
                   THEN /\ matched' = Append(matched, id)
                        /\ count' = [i \in DOMAIN count |->
                                       count[i] + IF Counted(i) THEN 1 ELSE 0]
                        /\ sum' = [i \in DOMAIN sum |->
                                       sum[i] + IF Counted(i) THEN Added(i) ELSE 0]
                   ELSE UNCHANGED <<matched, count, sum>>
                /\ UNCHANGED pc
    /\ UNCHANGED <<records, stmt>>

\* The values of a row that an item puts into the answer as they are; the
\* columns keep their names, which are ASCII (two items under one AS are left
\* out: the later one would hide the earlier).
Shown(item, row) ==
    CASE item.kind = "star"  -> {row[c] : c \in Columns}
      [] item.kind = "plain" -> {row[item.col]}
      [] OTHER               -> {}

\* Writing the answer as JSON throws: a string in it is not UTF-8.
DumpThrows(row) ==
    \E i \in DOMAIN stmt.items : Shown(stmt.items[i], row) \cap NotUtf8 # {}

Finish ==
    /\ pc = "rows" /\ candidates = <<>>
    /\ pc' = IF \E i \in DOMAIN matched : DumpThrows(records[matched[i]])
             THEN "error" ELSE "done"
    /\ UNCHANGED <<records, stmt, candidates, matched, count, sum>>

\* The value of aggregate i; an average is the pair it is the quotient of.
AggValue(i) ==
    LET fn == stmt.items[i].fn
    IN  IF fn = "Count" THEN IntVal(count[i])
        ELSE IF count[i] = 0 THEN Null
        ELSE IF fn = "Sum" THEN IntVal(sum[i])
        ELSE [tag |-> "avg", n |-> <<sum[i], count[i]>>]

\* The answer is sent and what the statement used is freed.
Answered ==
    /\ pc \in {"done", "error"}
    /\ stmt' = NoStmt /\ pc' = "idle"
    /\ candidates' = <<>> /\ matched' = <<>>
    /\ count' = <<>> /\ sum' = <<>>
    /\ UNCHANGED records

Firsts == IF DOMAIN records = {} THEN {0} ELSE DOMAIN records

Next ==
    \/ /\ pc = "idle"
       /\ \E where \in Wheres, first \in Firsts :
            \/ \E items \in Items : exec_select(where, items, first)
            \/ exec_change(where, first)
    \/ Row
    \/ Finish
    \/ Answered

Spec == Init /\ [][Next]_vars

----------------------------------------------------------------------------
(* What the statements should find, said without the code's ways: SQL's    *)
(* logic with FALSE = 0, UNKNOWN = 1 and TRUE = 2, applied to every row; a *)
(* clause that throws has no truth value, and counts as UNKNOWN.           *)

Holds(op, a, b) ==
    CASE op = "Eq" -> a = b [] op = "NotEq" -> a # b
      [] op = "Lt" -> a < b [] op = "LtEq"  -> a <= b
      [] op = "Gt" -> a > b [] op = "GtEq"  -> a >= b

Bool(b) == IF b THEN 2 ELSE 0
Least(a, b) == IF a < b THEN a ELSE b
Most(a, b) == IF a < b THEN b ELSE a

Rel(op, x, y) ==
    IF Null \in {x, y} \/ x.tag # y.tag THEN 1 ELSE Bool(Holds(op, x.n, y.n))

ClauseTruth(e, row) ==
    LET V(x) == IF x.kind = "lit" THEN x.v ELSE row[x.col]
    IN  CASE e.kind = "cmp" -> Rel(e.op, V(e.lhs), V(e.rhs))
          [] e.kind = "between" ->
               LET lo == Rel("GtEq", V(e.value), V(e.lo))
                   hi == Rel("LtEq", V(e.value), V(e.hi))
               IN  IF 1 \in {lo, hi} THEN 1 ELSE Least(lo, hi)
          [] e.kind = "like" ->
               IF Null \in {V(e.value), V(e.pattern)} THEN 1
               ELSE Bool(V(e.value) \in Regex[V(e.pattern)])

Truth(where, row) ==
    LET truth[e \in Wheres] ==
          CASE e.kind = "and" -> Least(truth[e.lhs], truth[e.rhs])
            [] e.kind = "or"  -> Most(truth[e.lhs], truth[e.rhs])
            [] OTHER          -> IF ClauseThrows(e, row) THEN 1 ELSE ClauseTruth(e, row)
    IN  IF where = NoWhere THEN 2 ELSE truth[where]

Wanted == {id \in DOMAIN records : Truth(stmt.where, records[id]) = 2}

RangeOf(s) == {s[i] : i \in 1 .. Len(s)}

(* What the variables hold: the candidates still to be looked at and the   *)
(* rows found are rows of the table, each at most once.                    *)
TypeOK ==
    /\ records \in Tables
    /\ pc \in {"idle", "rows", "done", "error"}
    /\ stmt.kind \in {"none", "select", "change"}
    /\ stmt.where \in Wheres /\ stmt.items \in Items \cup {<<>>}
    /\ RangeOf(matched \o candidates) \subseteq DOMAIN records
    /\ Cardinality(RangeOf(matched \o candidates)) = Len(matched \o candidates)
    /\ count \in [DOMAIN stmt.items -> Nat] /\ sum \in [DOMAIN stmt.items -> Int]

(* A statement that ends without an error has found exactly the rows whose *)
(* WHERE is TRUE in SQL's logic: neither the index hint, which lets later  *)
(* clauses overwrite earlier ones and searches with literals of any type,  *)
(* nor tri_and, whose UNKNOWN wins over FALSE, changes the answer.         *)
SelectsExactly == pc = "done" => RangeOf(matched) = Wanted

(* A scan of an index answers in the order of its keys, every other scan   *)
(* in the order of insertion (test 22 of tests/run_tests.py).              *)
AnswersInOrder ==
    pc = "done" =>
      LET hint == derive_index_hint(stmt.where)
      IN  \A i, j \in 1 .. Len(matched) : i < j =>
            IF \E h \in hint : h.eq = {}
            THEN \E h \in hint :
                   records[matched[i]][h.col].n < records[matched[j]][h.col].n
            ELSE matched[i] < matched[j]

(* A statement whose select list is resolved fails only for a reason that  *)
(* looking at every row of the table would find too: a row on which its    *)
(* WHERE throws, or a row wanted whose string SUM or AVG should add, or of *)
(* which the answer shows a string that is not UTF-8.                      *)
NoSpuriousError ==
    pc = "error" /\ ~BadItems(stmt.items) =>
      \E id \in DOMAIN records :
        \/ stmt.where # NoWhere /\ EvalThrows(stmt.where, records[id])
        \/ id \in Wanted /\ \E i \in DOMAIN stmt.items :
                              NotSummable(stmt.items[i], records[id])
        \/ id \in Wanted /\ DumpThrows(records[id])

(* Aggregates are those of the rows wanted: COUNT(column), SUM and AVG     *)
(* pass over NULL, SUM and AVG of no value are NULL.                       *)
AggregatesExact ==
    pc = "done" => \A i \in DOMAIN stmt.items :
      LET item == stmt.items[i]
          Seen == IF item.kind = "aggstar" THEN Wanted
                  ELSE {id \in Wanted : records[id][item.col] # Null}
          Total == MapThenSumSet(LAMBDA id : records[id][item.col].n, Seen)
      IN  IsAggregate(item) =>
            AggValue(i) = IF item.fn = "Count" THEN IntVal(Cardinality(Seen))
                          ELSE IF Seen = {} THEN Null
                          ELSE IF item.fn = "Sum" THEN IntVal(Total)
                          ELSE [tag |-> "avg", n |-> <<Total, Cardinality(Seen)>>]
=============================================================================
