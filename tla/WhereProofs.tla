---------------------------- MODULE WhereProofs ----------------------------
(***************************************************************************)
(* Proofs about Where, for every table, WHERE expression and select list.  *)
(*                                                                         *)
(* The evaluation of a WHERE and the walk over its clauses are recursive;  *)
(* TreeDefinition of module DataLemmas says that they are what their       *)
(* equations say, and TreeInduction then compares them node by node with   *)
(* SQL's logic.                                                            *)
(***************************************************************************)
EXTENDS Where, DataLemmas, SequenceTheorems

Inner == {e \in Wheres : e.kind \in {"and", "or"}}
Lhs == [e \in Inner |-> e.lhs]
Rhs == [e \in Inner |-> e.rhs]

\* What an expression that is neither AND nor OR is.
IsClause(e) ==
    /\ e.kind \in {"cmp", "between", "like"}
    /\ e.kind = "cmp" => e.op \in Compares
    /\ \A x \in Atoms(e) : IsAtom(x)

Rows == [Columns -> Values]

\* Columns are numbered, and the INDEXED ones are columns.
LEMMA ColumnFacts == Columns \subseteq Int /\ Indexed \subseteq Columns
<1>1. Columns = 1 .. Cardinality(Columns) /\ Indexed \subseteq Columns
  BY WhereAssumption
<1>. DEFINE n == Cardinality(Columns)
<1>2. 1 .. n \subseteq Int
  <2>. HIDE DEF n
  <2>. QED
    OBVIOUS
<1>. QED
  BY <1>1, <1>2

\* A table: its rows, and the keys of its INDEXED columns.
LEMMA TableFacts ==
    ASSUME NEW t \in Tables
    PROVE  /\ DOMAIN t \subseteq Nat /\ IsFiniteSet(DOMAIN t)
           /\ \A id \in DOMAIN t : t[id] \in Rows
           /\ \A c \in Indexed :
                /\ \A id \in DOMAIN t : t[id][c].tag = Type[c]
                /\ \A id, jd \in DOMAIN t : t[id][c] = t[jd][c] => id = jd
BY WhereAssumption DEF Rows

\* An expression is a clause, or AND or OR of two expressions; never a null pointer.
LEMMA ExprFacts ==
    /\ NoWhere \in Wheres /\ NoWhere \notin Inner
    /\ \A e \in Wheres \ {NoWhere} : e \in Inner \/ IsClause(e)
    /\ \A e \in Inner : /\ e \in Wheres \ {NoWhere}
                        /\ e.lhs \in Wheres \ {NoWhere} /\ e.rhs \in Wheres \ {NoWhere}
<1>1. NoWhere.kind = "nowhere"
  BY DEF NoWhere
<1>2. NoWhere \in Wheres /\ NoWhere \notin Inner
  BY <1>1 DEF Wheres, Inner
<1>3. ASSUME NEW e \in Wheres, e # NoWhere
      PROVE  \/ /\ e.kind \in {"and", "or"}
                /\ \A x \in {e.lhs, e.rhs} : x \in Wheres \ {NoWhere} /\ Depth[x] < Depth[e]
             \/ IsClause(e)
  BY <1>3, WhereAssumption DEF Wheres, IsClause
<1>4. ASSUME NEW e \in Inner PROVE e # NoWhere /\ ~IsClause(e)
  BY <1>1 DEF Inner, IsClause
<1>. QED
  BY <1>2, <1>3, <1>4 DEF Inner

\* The expressions are trees.
LEMMA WhereTree == IsTree(Wheres, Depth, Inner, Lhs, Rhs)
<1>1. Depth \in [Wheres -> Nat]
  BY WhereAssumption
<1>2. Lhs \in [Inner -> Wheres] /\ Rhs \in [Inner -> Wheres]
  BY ExprFacts DEF Lhs, Rhs
<1>3. ASSUME NEW e \in Inner PROVE Depth[e.lhs] < Depth[e] /\ Depth[e.rhs] < Depth[e]
  <2>1. e \in Exprs /\ e.kind \in {"and", "or"}
    BY ExprFacts DEF Inner, Wheres
  <2>. QED
    BY <2>1, WhereAssumption
<1>. QED
  BY <1>1, <1>2, <1>3 DEF IsTree, Lhs, Rhs, Inner

----------------------------------------------------------------------------
(* The recursive functions are what their equations say *)

\* f follows leaf on the clauses, and node, applied to what f is on the operands,
\* on AND and OR.
Follows(f, V, leaf, node) ==
    /\ f \in [Wheres -> V]
    /\ \A e \in Wheres \ Inner : f[e] = leaf[e]
    /\ \A e \in Inner : f[e.lhs] \in V /\ f[e.rhs] \in V /\ f[e] = node[e][f[e.lhs]][f[e.rhs]]

\* There is such a function.
LEMMA Recursion ==
    ASSUME NEW V, NEW leaf \in [Wheres -> V], NEW node \in [Wheres -> [V -> [V -> V]]]
    PROVE  \E f : Follows(f, V, leaf, node)
<1>. DEFINE tuple == [t \in Wheres \X V \X V |-> node[t[1]][t[2]][t[3]]]
<1>1. tuple \in [Wheres \X V \X V -> V]
  OBVIOUS
<1>2. PICK f : /\ f \in [Wheres -> V]
               /\ \A e \in Wheres : f[e] = IF e \in Inner
                                           THEN tuple[<<e, f[Lhs[e]], f[Rhs[e]]>>] ELSE leaf[e]
  <2>. HIDE DEF tuple
  <2>1. PICK f : Unfolds(f, Wheres, V, Inner, Lhs, Rhs, leaf, tuple)
    BY <1>1, WhereTree, TreeDefinition
  <2>2. /\ f \in [Wheres -> V]
        /\ \A e \in Wheres : f[e] = IF e \in Inner
                                    THEN tuple[<<e, f[Lhs[e]], f[Rhs[e]]>>] ELSE leaf[e]
    BY <2>1, Zenon DEF Unfolds
  <2>. QED
    BY <2>2, Zenon
<1>3. \A e \in Inner : Lhs[e] = e.lhs /\ Rhs[e] = e.rhs
  BY DEF Lhs, Rhs
<1>4. ASSUME NEW e \in Inner
      PROVE  f[e.lhs] \in V /\ f[e.rhs] \in V /\ f[e] = node[e][f[e.lhs]][f[e.rhs]]
  <2>1. f[e.lhs] \in V /\ f[e.rhs] \in V /\ e \in Wheres
    BY <1>2, ExprFacts
  <2>2. <<e, f[e.lhs], f[e.rhs]>> \in Wheres \X V \X V
    BY <2>1
  <2>3. tuple[<<e, f[e.lhs], f[e.rhs]>>] = node[e][f[e.lhs]][f[e.rhs]]
    BY <2>2
  <2>. HIDE DEF tuple
  <2>. QED
    BY <1>2, <1>3, <2>1, <2>3
<1>5. \A e \in Wheres \ Inner : f[e] = leaf[e]
  BY <1>2
<1>. QED
  BY <1>2, <1>4, <1>5 DEF Follows

TriBools == {Known(TRUE), Known(FALSE), Unknown}

\* tri_and and tri_or give a TriBool whatever their operands are.
LEMMA TriFacts ==
    ASSUME NEW a, NEW b
    PROVE  tri_and(a, b) \in TriBools /\ tri_or(a, b) \in TriBools
<1>1. Known(a.value /\ b.value) \in {Known(TRUE), Known(FALSE)}
  <2>1. (a.value /\ b.value) \in BOOLEAN
    OBVIOUS
  <2>2. CASE (a.value /\ b.value) = TRUE
    BY <2>2
  <2>3. CASE (a.value /\ b.value) = FALSE
    BY <2>3
  <2>. QED
    BY <2>1, <2>2, <2>3
<1>. QED
  BY <1>1 DEF tri_and, tri_or, TriBools

\* The evaluation of a WHERE.
LEMMA EvalEquation ==
    ASSUME NEW row, NEW e \in Wheres
    PROVE  eval_where(e, row) =
             CASE e.kind = "and" -> tri_and(eval_where(e.lhs, row), eval_where(e.rhs, row))
               [] e.kind = "or"  -> tri_or(eval_where(e.lhs, row), eval_where(e.rhs, row))
               [] OTHER          -> EvalClause(e, row)
<1>. DEFINE V == TriBools \cup {EvalClause(x, row) : x \in Wheres}
            leaf == [x \in Wheres |-> EvalClause(x, row)]
            both(x, a, b) == IF x.kind = "and" THEN tri_and(a, b) ELSE tri_or(a, b)
            node == [x \in Wheres |-> [a \in V |-> [b \in V |-> both(x, a, b)]]]
            Body(f, x) == CASE x.kind = "and" -> tri_and(f[x.lhs], f[x.rhs])
                            [] x.kind = "or"  -> tri_or(f[x.lhs], f[x.rhs])
                            [] OTHER          -> EvalClause(x, row)
            F == CHOOSE f : f = [x \in Wheres |-> Body(f, x)]
<1>1. \A x, a, b : both(x, a, b) \in V
  BY TriFacts
<1>2. leaf \in [Wheres -> V]
  OBVIOUS
<1>3. node \in [Wheres -> [V -> [V -> V]]]
  <2>. HIDE DEF both, V
  <2>. QED
    BY <1>1
<1>4. PICK f : Follows(f, V, leaf, node)
  <2>. HIDE DEF V, leaf, node
  <2>. QED
    BY <1>2, <1>3, Recursion
<1>5. ASSUME NEW x \in Wheres PROVE f[x] = Body(f, x)
  <2>1. CASE x \in Inner
    <3>1. /\ f[x.lhs] \in V /\ f[x.rhs] \in V /\ x \in Wheres
          /\ f[x] = node[x][f[x.lhs]][f[x.rhs]]
      BY <2>1, <1>4 DEF Follows
    <3>2. f[x] = both(x, f[x.lhs], f[x.rhs])
      <4>. HIDE DEF V, both
      <4>. QED
        BY <3>1
    <3>. QED
      BY <2>1, <3>2 DEF Inner
  <2>2. CASE x \notin Inner
    BY <2>2, <1>4 DEF Inner, Follows
  <2>. QED
    BY <2>1, <2>2
<1>6. f = [x \in Wheres |-> Body(f, x)]
  <2>. HIDE DEF V, Body
  <2>. QED
    BY <1>4, <1>5 DEF Follows
<1>7. F = [x \in Wheres |-> Body(F, x)]
  <2>. HIDE DEF Body
  <2>. QED
    BY <1>6
<1>8. \A x : eval_where(x, row) = F[x]
  BY DEF eval_where
<1>. HIDE DEF F
<1>9. F[e] = Body(F, e)
  <2>. HIDE DEF Body
  <2>. QED
    BY <1>7
<1>. QED
  BY <1>8, <1>9

\* When it throws.
LEMMA ThrowsEquation ==
    ASSUME NEW row, NEW e \in Wheres
    PROVE  EvalThrows(e, row) <=>
             IF e \in Inner THEN EvalThrows(e.lhs, row) \/ EvalThrows(e.rhs, row)
             ELSE ClauseThrows(e, row)
<1>. DEFINE V == BOOLEAN
            leaf == [x \in Wheres |-> ClauseThrows(x, row)]
            both(x, a, b) == a \/ b
            node == [x \in Wheres |-> [a \in V |-> [b \in V |-> both(x, a, b)]]]
            Body(f, x) == IF x.kind \in {"and", "or"} THEN f[x.lhs] \/ f[x.rhs]
                          ELSE ClauseThrows(x, row)
            F == CHOOSE f : f = [x \in Wheres |-> Body(f, x)]
<1>1. \A x, a, b : a \in V /\ b \in V => both(x, a, b) \in V
  OBVIOUS
<1>2. leaf \in [Wheres -> V]
  BY Zenon DEF ClauseThrows
<1>3. node \in [Wheres -> [V -> [V -> V]]]
  <2>. HIDE DEF both, V
  <2>. QED
    BY <1>1
<1>4. PICK f : Follows(f, V, leaf, node)
  <2>. HIDE DEF V, leaf, node
  <2>. QED
    BY <1>2, <1>3, Recursion
<1>5. ASSUME NEW x \in Wheres PROVE f[x] = Body(f, x)
  <2>1. CASE x \in Inner
    <3>1. /\ f[x.lhs] \in V /\ f[x.rhs] \in V /\ x \in Wheres
          /\ f[x] = node[x][f[x.lhs]][f[x.rhs]]
      BY <2>1, <1>4 DEF Follows
    <3>2. f[x] = both(x, f[x.lhs], f[x.rhs])
      <4>. HIDE DEF V, both
      <4>. QED
        BY <3>1
    <3>. QED
      BY <2>1, <3>2 DEF Inner
  <2>2. CASE x \notin Inner
    BY <2>2, <1>4 DEF Inner, Follows
  <2>. QED
    BY <2>1, <2>2
<1>6. f = [x \in Wheres |-> Body(f, x)]
  <2>. HIDE DEF V, Body
  <2>. QED
    BY <1>4, <1>5 DEF Follows
<1>7. F = [x \in Wheres |-> Body(F, x)]
  <2>. HIDE DEF Body
  <2>. QED
    BY <1>6
<1>8. \A x : EvalThrows(x, row) = F[x]
  BY DEF EvalThrows
<1>. HIDE DEF F
<1>9. F[e] = Body(F, e)
  <2>. HIDE DEF Body
  <2>. QED
    BY <1>7
<1>. QED
  BY <1>8, <1>9 DEF Inner

\* SQL's logic.
LEMMA TruthEquation ==
    ASSUME NEW row, NEW e \in Wheres \ {NoWhere}
    PROVE  Truth(e, row) =
             CASE e.kind = "and" -> Least(Truth(e.lhs, row), Truth(e.rhs, row))
               [] e.kind = "or"  -> Most(Truth(e.lhs, row), Truth(e.rhs, row))
               [] OTHER -> IF ClauseThrows(e, row) THEN 1 ELSE ClauseTruth(e, row)
<1>. DEFINE V == {IF ClauseThrows(x, row) THEN 1 ELSE ClauseTruth(x, row) : x \in Wheres}
            leaf == [x \in Wheres |-> IF ClauseThrows(x, row) THEN 1 ELSE ClauseTruth(x, row)]
            both(x, a, b) == IF x.kind = "and" THEN Least(a, b) ELSE Most(a, b)
            node == [x \in Wheres |-> [a \in V |-> [b \in V |-> both(x, a, b)]]]
            Body(f, x) == CASE x.kind = "and" -> Least(f[x.lhs], f[x.rhs])
                            [] x.kind = "or"  -> Most(f[x.lhs], f[x.rhs])
                            [] OTHER -> IF ClauseThrows(x, row) THEN 1 ELSE ClauseTruth(x, row)
            F == CHOOSE f : f = [x \in Wheres |-> Body(f, x)]
<1>1. \A x, a, b : a \in V /\ b \in V => both(x, a, b) \in V
  BY DEF Least, Most
<1>2. leaf \in [Wheres -> V]
  OBVIOUS
<1>3. node \in [Wheres -> [V -> [V -> V]]]
  <2>. HIDE DEF both, V
  <2>. QED
    BY <1>1
<1>4. PICK f : Follows(f, V, leaf, node)
  <2>. HIDE DEF V, leaf, node
  <2>. QED
    BY <1>2, <1>3, Recursion
<1>5. ASSUME NEW x \in Wheres PROVE f[x] = Body(f, x)
  <2>1. CASE x \in Inner
    <3>1. /\ f[x.lhs] \in V /\ f[x.rhs] \in V /\ x \in Wheres
          /\ f[x] = node[x][f[x.lhs]][f[x.rhs]]
      BY <2>1, <1>4 DEF Follows
    <3>2. f[x] = both(x, f[x.lhs], f[x.rhs])
      <4>. HIDE DEF V, both
      <4>. QED
        BY <3>1
    <3>. QED
      BY <2>1, <3>2 DEF Inner
  <2>2. CASE x \notin Inner
    BY <2>2, <1>4 DEF Inner, Follows
  <2>. QED
    BY <2>1, <2>2
<1>6. f = [x \in Wheres |-> Body(f, x)]
  <2>. HIDE DEF V, Body
  <2>. QED
    BY <1>4, <1>5 DEF Follows
<1>7. F = [x \in Wheres |-> Body(F, x)]
  <2>. HIDE DEF Body
  <2>. QED
    BY <1>6
<1>8. \A x : x # NoWhere => Truth(x, row) = F[x]
  BY DEF Truth
<1>. HIDE DEF F
<1>9. F[e] = Body(F, e)
  <2>. HIDE DEF Body
  <2>. QED
    BY <1>7
<1>. QED
  <2>1. CASE e \in Inner
    BY <2>1, <1>8, <1>9, ExprFacts
  <2>2. CASE e \notin Inner
    BY <2>2, <1>8, <1>9 DEF Inner
  <2>. QED
    BY <2>1, <2>2

\* The walk over the clauses.
LEMMA ClausesEquation ==
    ASSUME NEW e \in Wheres
    PROVE  Clauses(e) = IF e.kind = "and" THEN Clauses(e.lhs) \o Clauses(e.rhs) ELSE <<e>>
<1>. DEFINE V == Seq(Wheres)
            leaf == [x \in Wheres |-> <<x>>]
            both(x, a, b) == IF x.kind = "and" THEN a \o b ELSE <<x>>
            node == [x \in Wheres |-> [a \in V |-> [b \in V |-> both(x, a, b)]]]
            Body(f, x) == IF x.kind = "and" THEN f[x.lhs] \o f[x.rhs] ELSE <<x>>
            F == CHOOSE f : f = [x \in Wheres |-> Body(f, x)]
<1>1. \A x \in Wheres : \A a, b : a \in V /\ b \in V => both(x, a, b) \in V
  OBVIOUS
<1>2. leaf \in [Wheres -> V]
  OBVIOUS
<1>3. node \in [Wheres -> [V -> [V -> V]]]
  <2>. HIDE DEF both, V
  <2>. QED
    BY <1>1
<1>4. PICK f : Follows(f, V, leaf, node)
  <2>. HIDE DEF V, leaf, node
  <2>. QED
    BY <1>2, <1>3, Recursion
<1>5. ASSUME NEW x \in Wheres PROVE f[x] = Body(f, x)
  <2>1. CASE x \in Inner
    <3>1. /\ f[x.lhs] \in V /\ f[x.rhs] \in V /\ x \in Wheres
          /\ f[x] = node[x][f[x.lhs]][f[x.rhs]]
      BY <2>1, <1>4 DEF Follows
    <3>2. f[x] = both(x, f[x.lhs], f[x.rhs])
      <4>. HIDE DEF V, both
      <4>. QED
        BY <3>1
    <3>. QED
      BY <2>1, <3>2 DEF Inner
  <2>2. CASE x \notin Inner
    BY <2>2, <1>4 DEF Inner, Follows
  <2>. QED
    BY <2>1, <2>2
<1>6. f = [x \in Wheres |-> Body(f, x)]
  <2>. HIDE DEF V, Body
  <2>. QED
    BY <1>4, <1>5 DEF Follows
<1>7. F = [x \in Wheres |-> Body(F, x)]
  <2>. HIDE DEF Body
  <2>. QED
    BY <1>6
<1>8. \A x : Clauses(x) = F[x]
  BY DEF Clauses
<1>. HIDE DEF F
<1>9. F[e] = Body(F, e)
  <2>. HIDE DEF Body
  <2>. QED
    BY <1>7
<1>. QED
  BY <1>8, <1>9

----------------------------------------------------------------------------
(* Evaluation and SQL's logic *)

\* Induction over the expressions that are there.
LEMMA ExprInduction ==
    ASSUME NEW G,
           \A e \in Wheres \ {NoWhere} : (e \in Inner => e.lhs \in G /\ e.rhs \in G) => e \in G
    PROVE  Wheres \ {NoWhere} \subseteq G
<1>. DEFINE H == G \cup {NoWhere}
<1>1. ASSUME NEW e \in Wheres, e \in Inner => Lhs[e] \in H /\ Rhs[e] \in H PROVE e \in H
  <2>1. e \in Inner => Lhs[e] = e.lhs /\ Rhs[e] = e.rhs /\ e.lhs # NoWhere /\ e.rhs # NoWhere
    BY ExprFacts DEF Lhs, Rhs
  <2>2. e \in Inner => e.lhs \in G /\ e.rhs \in G
    BY <1>1, <2>1
  <2>. QED
    BY <2>2
<1>. HIDE DEF H
<1>2. Wheres \subseteq H
  BY <1>1, WhereTree, TreeInduction
<1>. QED
  BY <1>2 DEF H

\* SQL's logic has three truth values.
LEMMA TruthFacts ==
    ASSUME NEW e \in Wheres \ {NoWhere}, NEW row
    PROVE  Truth(e, row) \in {0, 1, 2}
<1>. DEFINE G == {x \in Wheres \ {NoWhere} : Truth(x, row) \in {0, 1, 2}}
<1>1. \A op, a, b : Rel(op, a, b) \in {0, 1, 2}
  BY DEF Rel, Bool
<1>2. ASSUME NEW x, IsClause(x) PROVE ClauseTruth(x, row) \in {0, 1, 2}
  <2>1. CASE x.kind = "cmp"
    BY <1>1, <2>1 DEF ClauseTruth
  <2>2. CASE x.kind = "between"
    BY <1>1, <2>2 DEF ClauseTruth, Least
  <2>3. CASE x.kind = "like"
    BY <2>3 DEF ClauseTruth, Bool
  <2>. QED
    BY <1>2, <2>1, <2>2, <2>3 DEF IsClause
<1>3. ASSUME NEW x \in Wheres \ {NoWhere}, x \in Inner => x.lhs \in G /\ x.rhs \in G
      PROVE  x \in G
  <2>1. CASE x \in Inner
    BY <1>3, <2>1, TruthEquation DEF Inner, Least, Most
  <2>2. CASE x \notin Inner
    <3>1. Truth(x, row) = IF ClauseThrows(x, row) THEN 1 ELSE ClauseTruth(x, row)
      BY <2>2, TruthEquation DEF Inner
    <3>. QED
      BY <1>2, <2>2, <3>1, ExprFacts
  <2>. QED
    BY <2>1, <2>2
<1>. HIDE DEF G
<1>4. Wheres \ {NoWhere} \subseteq G
  BY <1>3, ExprInduction
<1>. QED
  BY <1>4 DEF G

\* The elements of a concatenation.
LEMMA ConcatFacts ==
    ASSUME NEW S, NEW a \in Seq(S), NEW b \in Seq(S)
    PROVE  /\ a \o b \in Seq(S) /\ Len(a \o b) = Len(a) + Len(b)
           /\ \A i \in 1 .. Len(a \o b) :
                \/ i \in 1 .. Len(a) /\ (a \o b)[i] = a[i]
                \/ i - Len(a) \in 1 .. Len(b) /\ (a \o b)[i] = b[i - Len(a)]
BY ConcatProperties

\* The clauses are expressions, and all of them are TRUE where the WHERE is.
LEMMA ClausesFacts ==
    ASSUME NEW e \in Wheres \ {NoWhere}, NEW row
    PROVE  /\ Clauses(e) \in Seq(Wheres \ {NoWhere})
           /\ Truth(e, row) = 2 => \A i \in 1 .. Len(Clauses(e)) : Truth(Clauses(e)[i], row) = 2
<1>. DEFINE Good(x) == /\ Clauses(x) \in Seq(Wheres \ {NoWhere})
                       /\ Truth(x, row) = 2 =>
                            \A i \in 1 .. Len(Clauses(x)) : Truth(Clauses(x)[i], row) = 2
            G == {x \in Wheres \ {NoWhere} : Good(x)}
<1>1. ASSUME NEW x \in Wheres \ {NoWhere}, x \in Inner => x.lhs \in G /\ x.rhs \in G
      PROVE  x \in G
  <2>1. CASE x.kind = "and"
    <3>1. Good(x.lhs) /\ Good(x.rhs)
      BY <1>1, <2>1 DEF Inner
    <3>2. Clauses(x) = Clauses(x.lhs) \o Clauses(x.rhs)
      BY <2>1, ClausesEquation
    <3>3. Truth(x, row) = 2 => Truth(x.lhs, row) = 2 /\ Truth(x.rhs, row) = 2
      <4>1. x.lhs \in Wheres \ {NoWhere} /\ x.rhs \in Wheres \ {NoWhere}
        BY <2>1, ExprFacts DEF Inner
      <4>. HIDE DEF Good
      <4>. QED
        BY <2>1, <4>1, TruthEquation, TruthFacts DEF Least
    <3>4. /\ Clauses(x.lhs) \in Seq(Wheres \ {NoWhere})
          /\ Clauses(x.rhs) \in Seq(Wheres \ {NoWhere})
      BY <3>1
    <3>5. /\ Clauses(x) \in Seq(Wheres \ {NoWhere})
          /\ \A i \in 1 .. Len(Clauses(x)) :
               \/ i \in 1 .. Len(Clauses(x.lhs)) /\ Clauses(x)[i] = Clauses(x.lhs)[i]
               \/ /\ i - Len(Clauses(x.lhs)) \in 1 .. Len(Clauses(x.rhs))
                  /\ Clauses(x)[i] = Clauses(x.rhs)[i - Len(Clauses(x.lhs))]
      BY <3>2, <3>4, ConcatFacts
    <3>6. ASSUME Truth(x, row) = 2, NEW i \in 1 .. Len(Clauses(x))
          PROVE  Truth(Clauses(x)[i], row) = 2
      BY <3>1, <3>3, <3>5, <3>6
    <3>. QED
      BY <3>5, <3>6
  <2>2. CASE x.kind # "and"
    <3>1. Clauses(x) = <<x>>
      BY <2>2, ClausesEquation
    <3>2. <<x>> \in Seq(Wheres \ {NoWhere}) /\ Len(<<x>>) = 1 /\ <<x>>[1] = x
      OBVIOUS
    <3>3. \A i \in 1 .. 1 : i = 1
      OBVIOUS
    <3>. QED
      BY <3>1, <3>2, <3>3
  <2>. QED
    BY <2>1, <2>2
<1>. HIDE DEF G
<1>2. Wheres \ {NoWhere} \subseteq G
  BY <1>1, ExprInduction
<1>. QED
  BY <1>2 DEF G

\* The parts of a value; the tag tells NULL.
LEMMA ValueFacts ==
    ASSUME NEW v \in Values
    PROVE  v.tag \in {"null", "int", "str"} /\ v.n \in Int /\ (v.tag = "null" <=> v = Null)
BY DEF Values, Null

\* The comparison of two values in the code and in SQL.
LEMMA CompareRight ==
    ASSUME NEW a \in Values, NEW b \in Values, NEW op \in Compares
    PROVE  /\ Rel(op, a, b) \in {0, 1, 2}
           /\ Rel(op, a, b) = 1 <=> ~Valid(a, b)
           /\ Rel(op, a, b) = 2 <=> Valid(a, b) /\ to_bool_three_valued(compare(a, b), op)
<1>1. Valid(a, b) <=> ~(Null \in {a, b} \/ a.tag # b.tag)
  BY ValueFacts DEF Valid
<1>2. a.n \in Int /\ b.n \in Int
  BY ValueFacts
<1>3. Holds(op, a.n, b.n) <=> to_bool_three_valued(compare(a, b), op)
  <2>. DEFINE c == compare(a, b)
  <2>1. /\ c \in Int /\ a.n \in Int /\ b.n \in Int
        /\ (c = 0 <=> a.n = b.n) /\ (c < 0 <=> a.n < b.n) /\ (c > 0 <=> a.n > b.n)
    BY <1>2 DEF compare
  <2>2. compare(a, b) = c
    OBVIOUS
  <2>. HIDE DEF c
  <2>3. CASE op = "Eq"
    BY <2>1, <2>2, <2>3 DEF Holds, to_bool_three_valued
  <2>4. CASE op = "NotEq"
    BY <2>1, <2>2, <2>4 DEF Holds, to_bool_three_valued
  <2>5. CASE op = "Lt"
    BY <2>1, <2>2, <2>5 DEF Holds, to_bool_three_valued
  <2>6. CASE op = "Gt"
    BY <2>1, <2>2, <2>6 DEF Holds, to_bool_three_valued
  <2>7. CASE op = "LtEq"
    BY <2>1, <2>2, <2>7 DEF Holds, to_bool_three_valued
  <2>8. CASE op = "GtEq"
    BY <2>1, <2>2, <2>8 DEF Holds, to_bool_three_valued
  <2>. QED
    BY <2>3, <2>4, <2>5, <2>6, <2>7, <2>8 DEF Compares
<1>. QED
  BY <1>1, <1>3 DEF Rel, Bool

\* A column that exists and a literal have a value.
LEMMA AtomFacts ==
    ASSUME NEW x, IsAtom(x), ~AtomThrows(x), NEW row \in Rows
    PROVE  eval_atom(x, row) \in Values
BY DEF IsAtom, AtomThrows, eval_atom, Rows

\* The parts of a TriBool; UNKNOWN is not true.
LEMMA TriBoolFacts ==
    /\ \A b : Known(b).value = b /\ Known(b).unknown = FALSE
    /\ Unknown.value = FALSE /\ Unknown.unknown = TRUE /\ Unknown \in TriBools
    /\ \A b \in BOOLEAN : Known(b) \in TriBools
    /\ \A a \in TriBools : a.value \in BOOLEAN /\ a.unknown \in BOOLEAN /\ (a.value => ~a.unknown)
<1>1. \A b : Known(b).value = b /\ Known(b).unknown = FALSE
  BY DEF Known
<1>2. Unknown.value = FALSE /\ Unknown.unknown = TRUE
  BY DEF Unknown
<1>3. ASSUME NEW a \in TriBools
      PROVE  a.value \in BOOLEAN /\ a.unknown \in BOOLEAN /\ (a.value => ~a.unknown)
  <2>1. a = Known(TRUE) \/ a = Known(FALSE) \/ a = Unknown
    BY DEF TriBools
  <2>2. CASE a = Known(TRUE)
    BY <1>1, <2>2
  <2>3. CASE a = Known(FALSE)
    BY <1>1, <2>3
  <2>4. CASE a = Unknown
    BY <1>2, <2>4
  <2>. QED
    BY <2>1, <2>2, <2>3, <2>4
<1>4. ASSUME NEW b \in BOOLEAN PROVE Known(b) \in TriBools
  <2>1. CASE b = TRUE
    BY <2>1 DEF TriBools
  <2>2. CASE b = FALSE
    BY <2>2 DEF TriBools
  <2>. QED
    BY <2>1, <2>2
<1>. QED
  BY <1>1, <1>2, <1>3, <1>4 DEF TriBools

\* A clause that does not throw is TRUE in the code when it is in SQL.
LEMMA ClauseRight ==
    ASSUME NEW e, IsClause(e), NEW row \in Rows, ~ClauseThrows(e, row)
    PROVE  /\ EvalClause(e, row) \in TriBools
           /\ EvalClause(e, row).value <=> ClauseTruth(e, row) = 2
<1>1. \A x \in Atoms(e) : eval_atom(x, row) \in Values
  BY AtomFacts DEF IsClause, ClauseThrows
<1>2. CASE e.kind = "cmp"
  <2>. DEFINE a == eval_atom(e.lhs, row)
              b == eval_atom(e.rhs, row)
              t == to_bool_three_valued(compare(a, b), e.op)
  <2>1. a \in Values /\ b \in Values /\ e.op \in Compares
    BY <1>1, <1>2 DEF Atoms, IsClause
  <2>2. EvalClause(e, row) = IF Valid(a, b) THEN Known(t) ELSE Unknown
    BY <1>2 DEF EvalClause
  <2>3. ClauseTruth(e, row) = Rel(e.op, a, b)
    BY <1>2 DEF ClauseTruth, eval_atom
  <2>4. t \in BOOLEAN
    BY Zenon DEF to_bool_three_valued
  <2>5. Rel(e.op, a, b) = 2 <=> Valid(a, b) /\ t
    BY <2>1, CompareRight
  <2>. HIDE DEF a, b, t
  <2>. QED
    BY <2>2, <2>3, <2>4, <2>5, TriBoolFacts
<1>3. CASE e.kind = "between"
  <2>. DEFINE v == eval_atom(e.value, row)
              lo == eval_atom(e.lo, row)
              hi == eval_atom(e.hi, row)
              t == compare(v, lo) >= 0 /\ compare(v, hi) <= 0
  <2>1. v \in Values /\ lo \in Values /\ hi \in Values
    BY <1>1, <1>3 DEF Atoms
  <2>2. EvalClause(e, row) = IF Valid(v, lo) /\ Valid(v, hi) THEN Known(t) ELSE Unknown
    BY <1>3 DEF EvalClause
  <2>3. ClauseTruth(e, row) = IF 1 \in {Rel("GtEq", v, lo), Rel("LtEq", v, hi)} THEN 1
                              ELSE Least(Rel("GtEq", v, lo), Rel("LtEq", v, hi))
    BY <1>3 DEF ClauseTruth, eval_atom
  <2>4. t \in BOOLEAN
    OBVIOUS
  <2>5. /\ Rel("GtEq", v, lo) \in {0, 1, 2} /\ Rel("LtEq", v, hi) \in {0, 1, 2}
        /\ Rel("GtEq", v, lo) = 1 <=> ~Valid(v, lo)
        /\ Rel("LtEq", v, hi) = 1 <=> ~Valid(v, hi)
        /\ Rel("GtEq", v, lo) = 2 <=> Valid(v, lo) /\ to_bool_three_valued(compare(v, lo), "GtEq")
        /\ Rel("LtEq", v, hi) = 2 <=> Valid(v, hi) /\ to_bool_three_valued(compare(v, hi), "LtEq")
    BY <2>1, CompareRight DEF Compares
  <2>6. /\ to_bool_three_valued(compare(v, lo), "GtEq") <=> compare(v, lo) >= 0
        /\ to_bool_three_valued(compare(v, hi), "LtEq") <=> compare(v, hi) <= 0
    BY DEF to_bool_three_valued, compare
  <2>7. ClauseTruth(e, row) = 2 <=> Valid(v, lo) /\ Valid(v, hi) /\ t
    <3>. HIDE DEF v, lo, hi
    <3>. QED
      BY <2>3, <2>5, <2>6 DEF Least
  <2>. HIDE DEF v, lo, hi, t
  <2>. QED
    BY <2>2, <2>4, <2>7, TriBoolFacts
<1>4. CASE e.kind = "like"
  <2>. DEFINE v == eval_atom(e.value, row)
              p == eval_atom(e.pattern, row)
              t == v \in Regex[p]
  <2>2. EvalClause(e, row) = IF Null \in {v, p} THEN Unknown ELSE Known(t)
    BY <1>4 DEF EvalClause
  <2>3. ClauseTruth(e, row) = IF Null \in {v, p} THEN 1 ELSE Bool(t)
    BY <1>4 DEF ClauseTruth, eval_atom
  <2>4. t \in BOOLEAN
    OBVIOUS
  <2>5. Bool(t) = 2 <=> t
    BY DEF Bool
  <2>. HIDE DEF v, p, t
  <2>. QED
    BY <2>2, <2>3, <2>4, <2>5, TriBoolFacts
<1>. QED
  BY <1>2, <1>3, <1>4 DEF IsClause

\* So is a WHERE, although UNKNOWN wins over FALSE in tri_and.
LEMMA EvalRight ==
    ASSUME NEW e \in Wheres \ {NoWhere}, NEW row \in Rows, ~EvalThrows(e, row)
    PROVE  eval_where(e, row).value <=> Truth(e, row) = 2
<1>. DEFINE Good(x) == ~EvalThrows(x, row) => /\ eval_where(x, row) \in TriBools
                                              /\ eval_where(x, row).value <=> Truth(x, row) = 2
            G == {x \in Wheres \ {NoWhere} : Good(x)}
<1>1. ASSUME NEW x \in Wheres \ {NoWhere}, x \in Inner => x.lhs \in G /\ x.rhs \in G,
             ~EvalThrows(x, row)
      PROVE  Good(x)
  <2>1. CASE x \in Inner
    <3>. DEFINE a == eval_where(x.lhs, row)
                b == eval_where(x.rhs, row)
                ta == Truth(x.lhs, row)
                tb == Truth(x.rhs, row)
    <3>1. ~EvalThrows(x.lhs, row) /\ ~EvalThrows(x.rhs, row)
      BY <1>1, <2>1, ThrowsEquation
    <3>2. a \in TriBools /\ (a.value <=> ta = 2) /\ b \in TriBools /\ (b.value <=> tb = 2)
      BY <1>1, <2>1, <3>1
    <3>3. ta \in {0, 1, 2} /\ tb \in {0, 1, 2}
      BY <2>1, ExprFacts, TruthFacts
    <3>4. CASE x.kind = "and"
      <4>1. eval_where(x, row) = tri_and(a, b) /\ Truth(x, row) = Least(ta, tb)
        BY <3>4, EvalEquation, TruthEquation
      <4>2. tri_and(a, b) \in TriBools
        BY TriFacts
      <4>3. tri_and(a, b).value <=> a.value /\ b.value
        <5>. HIDE DEF a, b
        <5>. QED
          BY <3>2, TriBoolFacts DEF tri_and
      <4>4. Least(ta, tb) = 2 <=> ta = 2 /\ tb = 2
        BY <3>3 DEF Least
      <4>. HIDE DEF a, b, ta, tb
      <4>. QED
        BY <3>2, <4>1, <4>2, <4>3, <4>4
    <3>5. CASE x.kind = "or"
      <4>1. eval_where(x, row) = tri_or(a, b) /\ Truth(x, row) = Most(ta, tb)
        BY <3>5, EvalEquation, TruthEquation
      <4>2. tri_or(a, b) \in TriBools
        BY TriFacts
      <4>3. tri_or(a, b).value <=> a.value \/ b.value
        <5>. HIDE DEF a, b
        <5>. QED
          BY <3>2, TriBoolFacts DEF tri_or
      <4>4. Most(ta, tb) = 2 <=> ta = 2 \/ tb = 2
        BY <3>3 DEF Most
      <4>. HIDE DEF a, b, ta, tb
      <4>. QED
        BY <3>2, <4>1, <4>2, <4>3, <4>4
    <3>. QED
      BY <2>1, <3>4, <3>5 DEF Inner
  <2>2. CASE x \notin Inner
    <3>1. IsClause(x) /\ ~ClauseThrows(x, row)
      BY <1>1, <2>2, ExprFacts, ThrowsEquation
    <3>2. eval_where(x, row) = EvalClause(x, row) /\ Truth(x, row) = ClauseTruth(x, row)
      BY <2>2, <3>1, EvalEquation, TruthEquation DEF Inner
    <3>. QED
      BY <3>1, <3>2, ClauseRight
  <2>. QED
    BY <2>1, <2>2
<1>2. \A x \in Wheres \ {NoWhere} : (x \in Inner => x.lhs \in G /\ x.rhs \in G) => x \in G
  BY <1>1
<1>. HIDE DEF G
<1>3. Wheres \ {NoWhere} \subseteq G
  BY <1>2, ExprInduction
<1>. QED
  BY <1>3 DEF G

----------------------------------------------------------------------------
(* The hint: what the clauses of a WHERE that is TRUE say of a column *)

\* "literal op column" is "column Swapped[op] literal".
LEMMA SwapRight ==
    ASSUME NEW a \in Values, NEW b \in Values, NEW op \in Compares,
           Valid(a, b), to_bool_three_valued(compare(a, b), op)
    PROVE  /\ Swapped[op] \in Compares
           /\ Valid(b, a) /\ to_bool_three_valued(compare(b, a), Swapped[op])
<1>1. Valid(b, a)
  BY DEF Valid
<1>. DEFINE c == compare(a, b)
            d == compare(b, a)
<1>2. c \in Int /\ d \in Int /\ (c = 0 <=> d = 0) /\ (c < 0 <=> d > 0) /\ (c > 0 <=> d < 0)
  BY ValueFacts DEF compare
<1>3. to_bool_three_valued(c, op)
  OBVIOUS
<1>. HIDE DEF c, d
<1>4. to_bool_three_valued(d, Swapped[op]) /\ Swapped[op] \in Compares
  <2>1. CASE op \in {"Lt", "LtEq"}
    BY <1>2, <1>3, <2>1 DEF to_bool_three_valued, Swapped, Compares
  <2>2. CASE op \in {"Gt", "GtEq"}
    BY <1>2, <1>3, <2>2 DEF to_bool_three_valued, Swapped, Compares
  <2>3. CASE op \in {"Eq", "NotEq"}
    BY <1>2, <1>3, <2>3 DEF to_bool_three_valued, Swapped, Compares
  <2>. QED
    BY <2>1, <2>2, <2>3 DEF Compares
<1>. QED
  BY <1>1, <1>4 DEF d

\* A value that satisfies a limit.
Within(v, l) ==
    l.v \in Values /\ Valid(v, l.v) /\ to_bool_three_valued(compare(v, l.v), l.op)

\* What a clause that is TRUE of a row says of a column is so.
LEMMA LimitRight ==
    ASSUME NEW e \in Wheres \ {NoWhere}, NEW c \in Columns, NEW row \in Rows,
           Truth(e, row) = 2, NEW l \in Limits(e, c)
    PROVE  Within(row[c], l)
<1>1. CASE e \in Inner
  BY <1>1 DEF Inner, Limits
<1>2. CASE e \notin Inner
  <2>1. IsClause(e)
    BY <1>2, ExprFacts
  <2>2. ~ClauseThrows(e, row) /\ ClauseTruth(e, row) = 2
    BY <1>2, TruthEquation DEF Inner
  <2>3. \A x \in Atoms(e) : IsAtom(x) /\ eval_atom(x, row) \in Values
    BY <2>1, <2>2, AtomFacts DEF IsClause, ClauseThrows
  <2>4. \A x : IsColumn(x, c) => eval_atom(x, row) = row[c]
    BY DEF IsColumn, eval_atom
  <2>5. \A x : IsLiteral(x) => eval_atom(x, row) = x.v
    BY DEF IsLiteral, eval_atom
  <2>6. CASE e.kind = "cmp"
    <3>. DEFINE a == eval_atom(e.lhs, row)
                b == eval_atom(e.rhs, row)
    <3>1. a \in Values /\ b \in Values /\ e.op \in Compares
      BY <2>1, <2>3, <2>6 DEF Atoms, IsClause
    <3>2. Rel(e.op, a, b) = 2
      BY <2>2, <2>6 DEF ClauseTruth, eval_atom
    <3>3. Valid(a, b) /\ to_bool_three_valued(compare(a, b), e.op)
      BY <3>1, <3>2, CompareRight
    <3>4. Valid(b, a) /\ to_bool_three_valued(compare(b, a), Swapped[e.op])
      BY <3>1, <3>3, SwapRight
    <3>5. \/ /\ IsColumn(e.lhs, c) /\ IsLiteral(e.rhs)
             /\ l = [op |-> e.op, v |-> e.rhs.v]
          \/ /\ IsColumn(e.rhs, c) /\ IsLiteral(e.lhs)
             /\ l = [op |-> Swapped[e.op], v |-> e.lhs.v]
      BY <2>6 DEF Limits
    <3>6. \/ row[c] = a /\ l.v = b /\ l.op = e.op
          \/ row[c] = b /\ l.v = a /\ l.op = Swapped[e.op]
      BY <2>4, <2>5, <3>5
    <3>. HIDE DEF a, b
    <3>. QED
      BY <3>1, <3>3, <3>4, <3>6 DEF Within
  <2>7. CASE e.kind = "between"
    <3>. DEFINE v == eval_atom(e.value, row)
                lo == eval_atom(e.lo, row)
                hi == eval_atom(e.hi, row)
    <3>1. v \in Values /\ lo \in Values /\ hi \in Values
      BY <2>3, <2>7 DEF Atoms
    <3>2. ClauseTruth(e, row) = IF 1 \in {Rel("GtEq", v, lo), Rel("LtEq", v, hi)} THEN 1
                                ELSE Least(Rel("GtEq", v, lo), Rel("LtEq", v, hi))
      BY <2>7 DEF ClauseTruth, eval_atom
    <3>3. Rel("GtEq", v, lo) \in {0, 1, 2} /\ Rel("LtEq", v, hi) \in {0, 1, 2}
      BY <3>1, CompareRight DEF Compares
    <3>4. Rel("GtEq", v, lo) = 2 /\ Rel("LtEq", v, hi) = 2
      BY <2>2, <3>2, <3>3 DEF Least
    <3>5. /\ Valid(v, lo) /\ to_bool_three_valued(compare(v, lo), "GtEq")
          /\ Valid(v, hi) /\ to_bool_three_valued(compare(v, hi), "LtEq")
      BY <3>1, <3>4, CompareRight DEF Compares
    <3>6. /\ IsColumn(e.value, c) /\ IsLiteral(e.lo) /\ IsLiteral(e.hi)
          /\ l \in {[op |-> "GtEq", v |-> e.lo.v], [op |-> "LtEq", v |-> e.hi.v]}
      BY <2>7 DEF Limits
    <3>7. /\ row[c] = v
          /\ (l.v = lo /\ l.op = "GtEq") \/ (l.v = hi /\ l.op = "LtEq")
      BY <2>4, <2>5, <3>6
    <3>. HIDE DEF v, lo, hi
    <3>. QED
      BY <3>1, <3>5, <3>7 DEF Within
  <2>8. CASE e.kind = "like"
    BY <2>8 DEF Limits
  <2>. QED
    BY <2>1, <2>6, <2>7, <2>8 DEF IsClause
<1>. QED
  BY <1>1, <1>2

\* A hint is for an INDEXED column, and says so of every row that the WHERE
\* selects, whichever clause its limits come from.
LEMMA HintRight ==
    ASSUME NEW where \in Wheres \ {NoWhere}, NEW h \in Hints(where)
    PROVE  /\ h.col \in Indexed /\ h.col \in Columns /\ h = HintFor(Clauses(where), h.col)
           /\ \A l \in h.eq : l.op = "Eq"
           /\ \A row \in Rows : Truth(where, row) = 2 =>
                \A l \in h.eq \cup h.lo \cup h.hi : Within(row[h.col], l)
<1>. DEFINE cl == Clauses(where)
<1>1. PICK c \in Indexed : h = HintFor(cl, c)
  BY DEF Hints
<1>2. c \in Columns
  BY ColumnFacts
<1>3. /\ h.col = c /\ h.eq = LastLimit(cl, c, {"Eq"})
      /\ h.lo = LastLimit(cl, c, {"Gt", "GtEq"}) /\ h.hi = LastLimit(cl, c, {"Lt", "LtEq"})
  BY <1>1 DEF HintFor
<1>4. ASSUME NEW ops, NEW l \in LastLimit(cl, c, ops)
      PROVE  l.op \in ops /\ \E i \in 1 .. Len(cl) : l \in Limits(cl[i], c)
  BY DEF LastLimit
<1>5. ASSUME NEW row \in Rows, Truth(where, row) = 2, NEW l \in h.eq \cup h.lo \cup h.hi
      PROVE  Within(row[c], l)
  <2>1. PICK i \in 1 .. Len(cl) : l \in Limits(cl[i], c)
    BY <1>3, <1>4
  <2>2. cl \in Seq(Wheres \ {NoWhere}) /\ Truth(cl[i], row) = 2
    BY <1>5, ClausesFacts
  <2>3. cl[i] \in Wheres \ {NoWhere}
    BY <2>2, ElementOfSeq
  <2>. HIDE DEF cl
  <2>. QED
    BY <1>2, <2>1, <2>2, <2>3, LimitRight
<1>6. \A l \in h.eq : l.op = "Eq"
  BY <1>3, <1>4
<1>. HIDE DEF cl
<1>. QED
  BY <1>1, <1>2, <1>3, <1>5, <1>6 DEF cl

\* At most one hint is derived, and it is one of the hints.
LEMMA DerivedHint ==
    ASSUME NEW where \in Wheres
    PROVE  /\ derive_index_hint(where) # {} => where # NoWhere
           /\ \A h \in derive_index_hint(where) : h \in Hints(where)
           /\ \A h, g \in derive_index_hint(where) : h = g
<1>1. CASE where = NoWhere
  BY <1>1 DEF derive_index_hint
<1>2. CASE where # NoWhere
  <2>1. \A h \in derive_index_hint(where) :
          h \in Hints(where) /\ \A g \in Hints(where) : h.col <= g.col
    BY <1>2 DEF derive_index_hint
  <2>2. ASSUME NEW h \in derive_index_hint(where), NEW g \in derive_index_hint(where)
        PROVE  h = g
    <3>1. /\ h.col \in Columns /\ h = HintFor(Clauses(where), h.col)
          /\ g.col \in Columns /\ g = HintFor(Clauses(where), g.col)
      BY <1>2, <2>1, HintRight
    <3>2. h.col <= g.col /\ g.col <= h.col
      BY <2>1
    <3>3. h.col \in Int /\ g.col \in Int
      BY <3>1, ColumnFacts
    <3>4. h.col = g.col
      BY <3>2, <3>3
    <3>. QED
      BY <3>1, <3>4
  <2>. QED
    BY <1>2, <2>1, <2>2
<1>. QED
  BY <1>1, <1>2

----------------------------------------------------------------------------
(* The candidates *)

\* Values of the same type that compare as equal are equal.
LEMMA SameValue ==
    ASSUME NEW a \in Values, NEW b \in Values, a.tag = b.tag, a.n = b.n
    PROVE  a = b
BY DEF Values, Null

\* A scan of an index lists the ids, each once, in the order of the keys.
LEMMA KeyOrderRight ==
    ASSUME records \in Tables, NEW S \in SUBSET DOMAIN records, NEW c \in Indexed
    PROVE  Lists(InKeyOrder(S, c), S, [id \in S |-> records[id][c].n])
<1>. DEFINE k == [id \in S |-> records[id][c].n]
            n == Cardinality(S)
            q == InKeyOrder(S, c)
            Before(id) == {x \in S : compare(records[x][c], records[id][c]) < 0}
<1>1. /\ IsFiniteSet(S)
      /\ \A id \in S : records[id][c] \in Values /\ records[id][c].tag = Type[c]
      /\ \A id, jd \in S : records[id][c] = records[jd][c] => id = jd
  <2>1. IsFiniteSet(S)
    BY TableFacts, FS_Subset
  <2>2. c \in Columns
    BY ColumnFacts
  <2>3. \A id \in S : records[id] \in Rows /\ records[id][c].tag = Type[c]
    BY TableFacts
  <2>4. \A id \in S : records[id][c] \in Values
    BY <2>2, <2>3 DEF Rows
  <2>5. \A id, jd \in S : records[id][c] = records[jd][c] => id = jd
    BY TableFacts
  <2>. QED
    BY <2>1, <2>3, <2>4, <2>5
<1>2. k \in [S -> Int]
  BY <1>1, ValueFacts
<1>3. \A a, b \in S : k[a] = k[b] => a = b
  BY <1>1, SameValue
<1>4. ASSUME NEW a \in S PROVE Before(a) = Below(S, k, a)
  <2>1. ASSUME NEW x \in S
        PROVE  compare(records[x][c], records[a][c]) < 0 <=> k[x] < k[a]
    <3>1. records[x][c].n \in Int /\ records[a][c].n \in Int
      BY <1>1, ValueFacts
    <3>. QED
      BY <3>1 DEF compare
  <2>. HIDE DEF k
  <2>. QED
    BY <2>1 DEF Below
<1>. HIDE DEF k, Before
<1>5. Keyed(S, k)
  BY <1>1, <1>2, <1>3 DEF Keyed
<1>6. ASSUME NEW i \in 1 .. n PROVE \E a \in S : Cardinality(Before(a)) = i - 1
  BY <1>4, <1>5, RankFacts
<1>7. q = [i \in 1 .. n |-> CHOOSE id \in S : Cardinality(Before(id)) = i - 1]
  BY DEF InKeyOrder, Before
<1>. HIDE DEF q
<1>8. ASSUME NEW i \in 1 .. n PROVE q[i] \in S /\ Cardinality(Before(q[i])) = i - 1
  BY <1>6, <1>7
<1>9. q \in [1 .. n -> S]
  <2>. DEFINE pick(i) == CHOOSE id \in S : Cardinality(Before(id)) = i - 1
  <2>1. q = [i \in 1 .. n |-> pick(i)]
    BY <1>7
  <2>. HIDE DEF pick, n
  <2>. QED
    BY <1>8, <2>1
<1>10. \A i \in 1 .. n : Cardinality(Below(S, k, q[i])) = i - 1
  BY <1>4, <1>8
<1>11. Ranks(q, S, k)
  BY <1>9, <1>10 DEF Ranks
<1>12. Lists(q, S, k)
  BY <1>11, <1>5, RankFacts
<1>. QED
  BY <1>12 DEF k, q

\* A scan of the table lists the ids, each once, in the order of insertion.
LEMMA InsertionOrderRight ==
    ASSUME records \in Tables, NEW S \in SUBSET DOMAIN records
    PROVE  Lists(InInsertionOrder(S), S, [id \in S |-> id])
<1>. DEFINE k == [id \in S |-> id]
            n == Cardinality(S)
            q == InInsertionOrder(S)
            Before(id) == {x \in S : x < id}
<1>1. IsFiniteSet(S) /\ S \subseteq Int
  BY TableFacts, FS_Subset
<1>2. k \in [S -> Int]
  BY <1>1
<1>3. \A a, b \in S : k[a] = k[b] => a = b
  OBVIOUS
<1>4. ASSUME NEW a \in S PROVE Before(a) = Below(S, k, a)
  BY DEF Below
<1>. HIDE DEF k, Before
<1>5. Keyed(S, k)
  BY <1>1, <1>2, <1>3 DEF Keyed
<1>6. ASSUME NEW i \in 1 .. n PROVE \E a \in S : Cardinality(Before(a)) = i - 1
  BY <1>4, <1>5, RankFacts
<1>7. q = [i \in 1 .. n |-> CHOOSE id \in S : Cardinality(Before(id)) = i - 1]
  BY DEF InInsertionOrder, Before
<1>. HIDE DEF q
<1>8. ASSUME NEW i \in 1 .. n PROVE q[i] \in S /\ Cardinality(Before(q[i])) = i - 1
  BY <1>6, <1>7
<1>9. q \in [1 .. n -> S]
  <2>. DEFINE pick(i) == CHOOSE id \in S : Cardinality(Before(id)) = i - 1
  <2>1. q = [i \in 1 .. n |-> pick(i)]
    BY <1>7
  <2>. HIDE DEF pick, n
  <2>. QED
    BY <1>8, <2>1
<1>10. \A i \in 1 .. n : Cardinality(Below(S, k, q[i])) = i - 1
  BY <1>4, <1>8
<1>11. Ranks(q, S, k)
  BY <1>9, <1>10 DEF Ranks
<1>12. Lists(q, S, k)
  BY <1>11, <1>5, RankFacts
<1>. QED
  BY <1>12 DEF k, q

\* Row a of table t is answered before row b.
Ordered(t, where, a, b) ==
    IF \E h \in derive_index_hint(where) : h.eq = {}
    THEN \E h \in derive_index_hint(where) : t[a][h.col].n < t[b][h.col].n
    ELSE a < b

\* What the candidates of a statement are: rows in the order of the answer, and
\* every row that the WHERE selects among them.
CandidatesOf(t, where, q) ==
    /\ q \in Seq(DOMAIN t)
    /\ \A i, j \in 1 .. Len(q) : i < j => Ordered(t, where, q[i], q[j])
    /\ \A id \in DOMAIN t : Truth(where, t[id]) = 2 => id \in RangeOf(q)

\* So are those of select_candidates: the rows that an index is asked for, with
\* limits of any type, leave no row out that the WHERE selects.
LEMMA CandidatesRight ==
    ASSUME records \in Tables, NEW where \in Wheres, NEW first
    PROVE  CandidatesOf(records, where, select_candidates(where, first))
<1>. DEFINE hint == derive_index_hint(where)
            q == select_candidates(where, first)
<1>1. ASSUME NEW S \in SUBSET DOMAIN records, q = InInsertionOrder(S),
             ~\E h \in hint : h.eq = {},
             \A id \in DOMAIN records : Truth(where, records[id]) = 2 => id \in S
      PROVE  CandidatesOf(records, where, q)
  <2>. DEFINE k == [id \in S |-> id]
  <2>1. Lists(q, S, k)
    BY <1>1, InsertionOrderRight
  <2>2. q \in Seq(S) /\ RangeOf(q) = S /\ q \in Seq(DOMAIN records)
    BY <2>1 DEF Lists, RangeOf
  <2>3. ASSUME NEW i \in 1 .. Len(q), NEW j \in 1 .. Len(q), i < j PROVE q[i] < q[j]
    <3>1. k[q[i]] < k[q[j]] /\ q[i] \in S /\ q[j] \in S
      BY <2>1, <2>2, <2>3, ElementOfSeq DEF Lists
    <3>. QED
      BY <3>1
  <2>. QED
    BY <1>1, <2>2, <2>3 DEF CandidatesOf, Ordered
<1>2. CASE hint = {}
  <2>1. q = InInsertionOrder(DOMAIN records)
    BY <1>2 DEF select_candidates
  <2>. HIDE DEF q
  <2>2. CandidatesOf(records, where, q)
    BY <1>1, <1>2, <2>1
  <2>. QED
    BY <2>2 DEF q
<1>3. CASE hint # {}
  <2>. DEFINE h == CHOOSE x \in hint : TRUE
  <2>1. h \in hint
    BY <1>3
  <2>2. /\ q = IF h.eq # {}
               THEN InInsertionOrder(UNION {index_find(h.col, l.v, first) : l \in h.eq})
               ELSE index_collect_range(h, first)
    BY <1>3 DEF select_candidates
  <2>. HIDE DEF h, q, hint
  <2>3. where \in Wheres \ {NoWhere} /\ h \in Hints(where) /\ \A g \in hint : g = h
    BY <1>3, <2>1, DerivedHint DEF hint
  <2>4. /\ h.col \in Indexed /\ h.col \in Columns
        /\ \A l \in h.eq : l.op = "Eq"
        /\ \A row \in Rows : Truth(where, row) = 2 =>
             \A l \in h.eq \cup h.lo \cup h.hi : Within(row[h.col], l)
    BY <2>3, HintRight
  <2>5. ASSUME NEW id \in DOMAIN records
        PROVE  records[id] \in Rows /\ records[id][h.col] \in Values
    BY <2>4, TableFacts DEF Rows
  <2>6. CASE h.eq # {}
    <3>. DEFINE S == UNION {index_find(h.col, l.v, first) : l \in h.eq}
    <3>1. S \in SUBSET DOMAIN records
      BY DEF index_find
    <3>2. ASSUME NEW id \in DOMAIN records, Truth(where, records[id]) = 2 PROVE id \in S
      <4>1. PICK l \in h.eq : TRUE
        BY <2>6
      <4>2. Within(records[id][h.col], l) /\ l.op = "Eq"
        BY <2>4, <2>5, <3>2
      <4>3. records[id][h.col].n \in Int /\ l.v.n \in Int
        BY <2>5, <4>2, ValueFacts DEF Within
      <4>4. records[id][h.col].n = l.v.n /\ records[id][h.col].tag = l.v.tag
        BY <4>2, <4>3 DEF Within, to_bool_three_valued, compare, Valid
      <4>5. records[id][h.col] = l.v /\ Valid(records[id][h.col], l.v)
        BY <2>5, <4>2, <4>4, SameValue DEF Within
      <4>. QED
        BY <4>1, <4>5 DEF index_find
    <3>3. q = InInsertionOrder(S) /\ ~\E g \in hint : g.eq = {}
      BY <2>2, <2>3, <2>6
    <3>. HIDE DEF S
    <3>. QED
      BY <1>1, <3>1, <3>2, <3>3 DEF q
  <2>7. CASE h.eq = {}
    <3>. DEFINE S == AtOrAbove(h.col, h.lo, first) \cap UpTo(h.col, h.hi)
                k == [id \in S |-> records[id][h.col].n]
    <3>1. S \in SUBSET DOMAIN records
      BY DEF AtOrAbove, UpTo
    <3>2. ASSUME NEW id \in DOMAIN records, Truth(where, records[id]) = 2 PROVE id \in S
      <4>1. \A l \in h.lo \cup h.hi : Within(records[id][h.col], l)
        BY <2>4, <2>5, <3>2
      <4>. QED
        BY <4>1 DEF AtOrAbove, UpTo, Within
    <3>3. q = InKeyOrder(S, h.col)
      BY <2>2, <2>7 DEF index_collect_range
    <3>4. Lists(q, S, k)
      <4>. HIDE DEF S
      <4>. QED
        BY <2>4, <3>1, <3>3, KeyOrderRight
    <3>. HIDE DEF S
    <3>5. q \in Seq(S) /\ RangeOf(q) = S /\ q \in Seq(DOMAIN records)
      BY <3>1, <3>4 DEF Lists, RangeOf
    <3>6. ASSUME NEW i \in 1 .. Len(q), NEW j \in 1 .. Len(q), i < j
          PROVE  records[q[i]][h.col].n < records[q[j]][h.col].n
      <4>1. k[q[i]] < k[q[j]] /\ q[i] \in S /\ q[j] \in S
        BY <3>4, <3>5, <3>6, ElementOfSeq DEF Lists
      <4>. QED
        BY <4>1
    <3>7. CandidatesOf(records, where, q)
      BY <2>1, <2>7, <3>2, <3>5, <3>6 DEF CandidatesOf, Ordered, hint
    <3>. QED
      BY <3>7 DEF q
  <2>. QED
    BY <2>6, <2>7
<1>. QED
  BY <1>2, <1>3

----------------------------------------------------------------------------
(* Sums *)

Amounts(t, c) == [id \in DOMAIN t |-> t[id][c].n]

\* What SUM and AVG add is integers.
LEMMA AmountFacts ==
    ASSUME NEW t \in Tables, NEW c \in Columns
    PROVE  /\ IsFiniteSet(DOMAIN t)
           /\ \A id \in DOMAIN t : Amounts(t, c)[id] = t[id][c].n /\ Amounts(t, c)[id] \in Int
BY TableFacts, ValueFacts DEF Amounts, Rows

\* The fold of FiniteSetsExt is the sum.
LEMMA TotalRight ==
    ASSUME records \in Tables, NEW c \in Columns, NEW S \in SUBSET DOMAIN records
    PROVE  MapThenSumSet(LAMBDA id : records[id][c].n, S) = SumOf(Amounts(records, c), S)
<1>. DEFINE g == Amounts(records, c)
            Body(f, s) == IF s = {} THEN 0
                          ELSE records[CHOOSE x \in s : TRUE][c].n + f[s \ {CHOOSE x \in s : TRUE}]
            F == CHOOSE f : f = [s \in SUBSET S |-> Body(f, s)]
            H == CHOOSE f : Sums(f, g, S)
<1>1. IsFiniteSet(S) /\ \A x \in S : g[x] = records[x][c].n /\ g[x] \in Int
  BY AmountFacts, FS_Subset
<1>. HIDE DEF g
<1>2. \E f : Sums(f, g, S)
  BY <1>1, SumsExist
<1>3. Sums(H, g, S)
  BY <1>2
<1>. HIDE DEF H
<1>4. ASSUME NEW s \in SUBSET S PROVE H[s] = Body(H, s)
  <2>1. H[s] = IF s = {} THEN 0 ELSE g[Some(s)] + H[s \ {Some(s)}]
    BY <1>3 DEF Sums
  <2>2. s # {} => g[Some(s)] = records[Some(s)][c].n
    BY <1>1, SomeFacts
  <2>. QED
    BY <2>1, <2>2 DEF Some
<1>5. H = [s \in SUBSET S |-> Body(H, s)]
  <2>. HIDE DEF Body
  <2>. QED
    BY <1>3, <1>4 DEF Sums
<1>6. F = [s \in SUBSET S |-> Body(F, s)]
  <2>. HIDE DEF Body
  <2>. QED
    BY <1>5
<1>. HIDE DEF F
<1>7. \A s \in SUBSET S : F[s] = H[s]
  <2>. DEFINE inner == (SUBSET S) \ {{}}
              rest == [s \in (SUBSET S) \ {{}} |-> s \ {Some(s)}]
              depth == [s \in SUBSET S |-> Cardinality(s)]
              G == {s \in SUBSET S : F[s] = H[s]}
  <2>1. IsTree(SUBSET S, depth, inner, rest, rest)
    BY <1>1, SubsetTree
  <2>2. ASSUME NEW s \in SUBSET S, s \in inner => rest[s] \in G /\ rest[s] \in G PROVE s \in G
    <3>1. F[s] = Body(F, s) /\ H[s] = Body(H, s)
      <4>. HIDE DEF Body
      <4>. QED
        BY <1>4, <1>6
    <3>2. s # {} => F[s \ {Some(s)}] = H[s \ {Some(s)}]
      BY <2>2
    <3>. QED
      BY <3>1, <3>2 DEF Some
  <2>. HIDE DEF inner, rest, depth, G
  <2>3. SUBSET S \subseteq G
    BY <2>1, <2>2, TreeInduction
  <2>. QED
    BY <2>3 DEF G
<1>8. MapThenSumSet(LAMBDA id : records[id][c].n, S) = F[S]
  BY DEF MapThenSumSet, MapThenFoldSet, F
<1>9. SumOf(Amounts(records, c), S) = H[S]
  BY DEF SumOf, H, g
<1>. QED
  BY <1>7, <1>8, <1>9

----------------------------------------------------------------------------
(* The row loop: m has the rows found, q the candidates that are left *)

Chosen(t, where) == {id \in DOMAIN t : Truth(where, t[id]) = 2}

Scan(t, where, m, q) ==
    /\ m \in Seq(DOMAIN t) /\ q \in Seq(DOMAIN t)
    /\ \A i, j \in 1 .. Len(m) : i < j => Ordered(t, where, m[i], m[j])
    /\ \A i, j \in 1 .. Len(q) : i < j => Ordered(t, where, q[i], q[j])
    /\ \A i \in 1 .. Len(m), j \in 1 .. Len(q) : Ordered(t, where, m[i], q[j])
    /\ RangeOf(m) \subseteq Chosen(t, where)

Complete(t, where, m, q) == Chosen(t, where) \subseteq RangeOf(m) \cup RangeOf(q)

\* No row is answered before itself.
LEMMA OrderedFacts ==
    ASSUME NEW t \in Tables, NEW where \in Wheres, NEW id \in DOMAIN t
    PROVE  ~Ordered(t, where, id, id)
<1>1. ASSUME NEW h \in derive_index_hint(where) PROVE t[id][h.col].n \in Int
  <2>1. h.col \in Columns
    BY DerivedHint, HintRight
  <2>. QED
    BY <2>1, TableFacts, ValueFacts DEF Rows
<1>2. id \in Int
  BY TableFacts
<1>. QED
  BY <1>1, <1>2 DEF Ordered

\* The loop starts with all candidates and nothing found.
LEMMA ScanStart ==
    ASSUME NEW t \in Tables, NEW where, NEW q, CandidatesOf(t, where, q)
    PROVE  Scan(t, where, <<>>, q) /\ Complete(t, where, <<>>, q)
<1>1. <<>> \in Seq(DOMAIN t) /\ Len(<<>>) = 0 /\ RangeOf(<<>>) = {}
  BY DEF RangeOf
<1>. QED
  BY <1>1 DEF CandidatesOf, Scan, Complete, Chosen

\* Nothing found and nothing left.
LEMMA ScanNothing ==
    ASSUME NEW t, NEW where
    PROVE  Scan(t, where, <<>>, <<>>)
BY DEF Scan, RangeOf

\* The head of the candidates and the rest of them.
LEMMA TailFacts ==
    ASSUME NEW S, NEW q \in Seq(S), q # <<>>
    PROVE  /\ Head(q) \in S /\ Head(q) = q[1] /\ 1 \in 1 .. Len(q)
           /\ Tail(q) \in Seq(S) /\ Len(Tail(q)) = Len(q) - 1 /\ Len(q) \in Nat
           /\ \A i \in 1 .. Len(Tail(q)) : Tail(q)[i] = q[i + 1] /\ i + 1 \in 1 .. Len(q)
           /\ RangeOf(q) = RangeOf(Tail(q)) \cup {Head(q)}
<1>1. /\ Head(q) \in S /\ Head(q) = q[1] /\ 1 \in 1 .. Len(q)
      /\ Tail(q) \in Seq(S) /\ Len(Tail(q)) = Len(q) - 1 /\ Len(q) \in Nat
  BY EmptySeq, HeadTailProperties
<1>2. ASSUME NEW i \in 1 .. Len(Tail(q)) PROVE Tail(q)[i] = q[i + 1] /\ i + 1 \in 1 .. Len(q)
  BY <1>1, HeadTailProperties
<1>3. ASSUME NEW i \in 1 .. Len(q) PROVE q[i] = Head(q) \/ q[i] \in RangeOf(Tail(q))
  <2>1. CASE i = 1
    BY <1>1, <2>1
  <2>2. CASE i # 1
    <3>1. i - 1 \in 1 .. Len(Tail(q)) /\ (i - 1) + 1 = i
      BY <1>1, <2>2
    <3>2. Tail(q)[i - 1] = q[i]
      BY <1>2, <3>1
    <3>. QED
      BY <3>1, <3>2 DEF RangeOf
  <2>. QED
    BY <2>1, <2>2
<1>4. RangeOf(q) \subseteq RangeOf(Tail(q)) \cup {Head(q)}
  BY <1>3 DEF RangeOf
<1>5. ASSUME NEW i \in 1 .. Len(Tail(q)) PROVE Tail(q)[i] \in RangeOf(q)
  BY <1>2 DEF RangeOf
<1>6. RangeOf(Tail(q)) \subseteq RangeOf(q) /\ Head(q) \in RangeOf(q)
  BY <1>1, <1>5 DEF RangeOf
<1>. QED
  BY <1>1, <1>2, <1>4, <1>6

\* A sequence with one element more.
LEMMA AppendFacts ==
    ASSUME NEW S, NEW m \in Seq(S), NEW x \in S
    PROVE  /\ Append(m, x) \in Seq(S) /\ Len(Append(m, x)) = Len(m) + 1 /\ Len(m) \in Nat
           /\ \A i \in 1 .. Len(m) : Append(m, x)[i] = m[i]
           /\ Append(m, x)[Len(m) + 1] = x
           /\ RangeOf(Append(m, x)) = RangeOf(m) \cup {x}
<1>1. /\ Append(m, x) \in Seq(S) /\ Len(Append(m, x)) = Len(m) + 1 /\ Len(m) \in Nat
      /\ \A i \in 1 .. Len(m) : Append(m, x)[i] = m[i]
      /\ Append(m, x)[Len(m) + 1] = x
  BY AppendProperties
<1>2. \A i \in 1 .. Len(m) + 1 : i \in 1 .. Len(m) \/ i = Len(m) + 1
  BY <1>1
<1>. QED
  BY <1>1, <1>2 DEF RangeOf

\* A candidate is passed over.
LEMMA ScanSkip ==
    ASSUME NEW t, NEW where, NEW m, NEW q, Scan(t, where, m, q), q # <<>>
    PROVE  /\ Scan(t, where, m, Tail(q))
           /\ Head(q) \notin Chosen(t, where) /\ Complete(t, where, m, q) =>
                Complete(t, where, m, Tail(q))
<1>1. q \in Seq(DOMAIN t)
  BY DEF Scan
<1>2. /\ Tail(q) \in Seq(DOMAIN t) /\ RangeOf(q) = RangeOf(Tail(q)) \cup {Head(q)}
      /\ \A i \in 1 .. Len(Tail(q)) : Tail(q)[i] = q[i + 1] /\ i + 1 \in 1 .. Len(q)
  BY <1>1, TailFacts
<1>3. ASSUME NEW i \in 1 .. Len(Tail(q)), NEW j \in 1 .. Len(Tail(q)), i < j
      PROVE  Ordered(t, where, Tail(q)[i], Tail(q)[j])
  BY <1>2, <1>3 DEF Scan
<1>4. ASSUME NEW i \in 1 .. Len(m), NEW j \in 1 .. Len(Tail(q))
      PROVE  Ordered(t, where, m[i], Tail(q)[j])
  BY <1>2 DEF Scan
<1>5. Scan(t, where, m, Tail(q))
  BY <1>2, <1>3, <1>4 DEF Scan
<1>. QED
  BY <1>2, <1>5 DEF Complete

\* A candidate is found.
LEMMA ScanTake ==
    ASSUME NEW t \in Tables, NEW where \in Wheres, NEW m, NEW q, Scan(t, where, m, q),
           q # <<>>, Head(q) \in Chosen(t, where)
    PROVE  /\ Scan(t, where, Append(m, Head(q)), Tail(q))
           /\ Complete(t, where, m, q) => Complete(t, where, Append(m, Head(q)), Tail(q))
           /\ RangeOf(Append(m, Head(q))) = RangeOf(m) \cup {Head(q)}
           /\ Head(q) \notin RangeOf(m)
<1>. DEFINE x == Head(q)
            n == Append(m, x)
<1>1. q \in Seq(DOMAIN t) /\ m \in Seq(DOMAIN t)
  BY DEF Scan
<1>2. /\ x \in DOMAIN t /\ x = q[1] /\ 1 \in 1 .. Len(q) /\ Len(q) \in Nat
      /\ RangeOf(q) = RangeOf(Tail(q)) \cup {x}
      /\ \A i \in 1 .. Len(Tail(q)) : Tail(q)[i] = q[i + 1] /\ i + 1 \in 1 .. Len(q)
  BY <1>1, TailFacts
<1>3. /\ n \in Seq(DOMAIN t) /\ Len(n) = Len(m) + 1 /\ Len(m) \in Nat /\ n[Len(m) + 1] = x
      /\ \A i \in 1 .. Len(m) : n[i] = m[i]
      /\ RangeOf(n) = RangeOf(m) \cup {x}
  BY <1>1, <1>2, AppendFacts
<1>. HIDE DEF x, n
<1>4. Scan(t, where, m, Tail(q))
  BY ScanSkip
<1>5. \A i \in 1 .. Len(n) : i \in 1 .. Len(m) \/ (i = Len(m) + 1 /\ n[i] = x)
  BY <1>3
<1>6. ASSUME NEW i \in 1 .. Len(m) PROVE Ordered(t, where, m[i], x)
  BY <1>2 DEF Scan
<1>7. ASSUME NEW i \in 1 .. Len(n), NEW j \in 1 .. Len(n), i < j
      PROVE  Ordered(t, where, n[i], n[j])
  <2>1. CASE j \in 1 .. Len(m)
    BY <1>3, <1>7, <2>1 DEF Scan
  <2>2. CASE j = Len(m) + 1 /\ n[j] = x
    <3>1. i \in 1 .. Len(m)
      BY <1>3, <1>7, <2>2
    <3>. QED
      BY <1>3, <1>6, <2>2, <3>1
  <2>. QED
    BY <1>5, <2>1, <2>2
<1>8. ASSUME NEW i \in 1 .. Len(n), NEW j \in 1 .. Len(Tail(q))
      PROVE  Ordered(t, where, n[i], Tail(q)[j])
  <2>1. CASE i \in 1 .. Len(m)
    BY <1>3, <1>4, <2>1 DEF Scan
  <2>2. CASE i = Len(m) + 1 /\ n[i] = x
    <3>1. Tail(q)[j] = q[j + 1] /\ j + 1 \in 1 .. Len(q) /\ 1 < j + 1
      BY <1>2
    <3>. QED
      BY <1>2, <2>2, <3>1 DEF Scan
  <2>. QED
    BY <1>5, <2>1, <2>2
<1>9. Scan(t, where, n, Tail(q))
  BY <1>3, <1>4, <1>7, <1>8 DEF Scan, x
<1>10. x \notin RangeOf(m)
  <2>1. ~Ordered(t, where, x, x)
    BY <1>2, OrderedFacts
  <2>. QED
    BY <1>6, <2>1 DEF RangeOf
<1>11. Complete(t, where, m, q) => Complete(t, where, n, Tail(q))
  BY <1>2, <1>3 DEF Complete
<1>. QED
  BY <1>3, <1>9, <1>10, <1>11 DEF n, x

\* No row is found, or left to be looked at, twice.
LEMMA ScanDistinct ==
    ASSUME NEW t \in Tables, NEW where \in Wheres, NEW m, NEW q, Scan(t, where, m, q)
    PROVE  /\ RangeOf(m \o q) \subseteq DOMAIN t
           /\ Cardinality(RangeOf(m \o q)) = Len(m \o q)
<1>. DEFINE s == m \o q
<1>1. m \in Seq(DOMAIN t) /\ q \in Seq(DOMAIN t)
  BY DEF Scan
<1>2. /\ s \in Seq(DOMAIN t) /\ Len(s) = Len(m) + Len(q) /\ Len(m) \in Nat /\ Len(q) \in Nat
      /\ \A i \in 1 .. Len(s) :
           \/ i \in 1 .. Len(m) /\ s[i] = m[i]
           \/ i - Len(m) \in 1 .. Len(q) /\ s[i] = q[i - Len(m)]
  BY <1>1, ConcatFacts, LenProperties
<1>. HIDE DEF s
<1>3. \A i \in 1 .. Len(s) : s[i] \in DOMAIN t
  BY <1>2, ElementOfSeq
<1>4. ASSUME NEW i \in 1 .. Len(s), NEW j \in 1 .. Len(s), i < j
      PROVE  Ordered(t, where, s[i], s[j])
  <2>1. CASE j \in 1 .. Len(m) /\ s[j] = m[j]
    <3>1. i \in 1 .. Len(m) /\ ~(i - Len(m) \in 1 .. Len(q))
      BY <1>2, <1>4, <2>1
    <3>. QED
      BY <1>2, <1>4, <2>1, <3>1 DEF Scan
  <2>2. CASE j - Len(m) \in 1 .. Len(q) /\ s[j] = q[j - Len(m)]
    <3>1. CASE i \in 1 .. Len(m) /\ s[i] = m[i]
      BY <2>2, <3>1 DEF Scan
    <3>2. CASE i - Len(m) \in 1 .. Len(q) /\ s[i] = q[i - Len(m)]
      <4>1. i - Len(m) < j - Len(m)
        BY <1>2, <1>4
      <4>. QED
        BY <2>2, <3>2, <4>1 DEF Scan
    <3>. QED
      BY <1>2, <3>1, <3>2
  <2>. QED
    BY <1>2, <2>1, <2>2
<1>5. \A i, j \in 1 .. Len(s) : i < j => s[i] # s[j]
  BY <1>3, <1>4, OrderedFacts
<1>6. Cardinality({s[i] : i \in 1 .. Len(s)}) = Len(s)
  BY <1>2, <1>5, DistinctLength
<1>. QED
  BY <1>3, <1>6 DEF RangeOf, s

----------------------------------------------------------------------------
(* The aggregates *)

SeenBy(t, item, R) ==
    IF item.kind = "aggstar" THEN R ELSE {id \in R : t[id][item.col] # Null}

\* The accumulators hold what the rows R give.
Summed(t, items, R, cnt, total) ==
    \A i \in DOMAIN items : IsAggregate(items[i]) =>
      /\ cnt[i] = Cardinality(SeenBy(t, items[i], R))
      /\ items[i].fn # "Count" =>
           total[i] = SumOf(Amounts(t, items[i].col), SeenBy(t, items[i], R))

\* A select list that exec_select does not refuse, or none.
IsResolved(items) ==
    \A i \in DOMAIN items : IsAggregate(items[i]) =>
      /\ items[i].fn \in {"Count", "Sum", "Avg"}
      /\ items[i].kind = "agg" => items[i].col \in Columns
      /\ items[i].kind = "aggstar" => items[i].fn = "Count"

\* What exec_select has checked when it starts to look at rows.
LEMMA ResolvedItems ==
    ASSUME NEW items \in Items \cup {<<>>}
    PROVE  /\ DOMAIN items = 1 .. Len(items) /\ Len(items) \in Nat
           /\ ~BadItems(items) => IsResolved(items)
           /\ items = <<>> => ~BadItems(items)
<1>1. items \in Seq(SelectItems)
  <2>1. Items \subseteq Seq(SelectItems)
    BY WhereAssumption
  <2>2. CASE items \in Items
    BY <2>1, <2>2
  <2>3. CASE items = <<>>
    BY <2>3
  <2>. QED
    BY <2>2, <2>3
<1>2. DOMAIN items = 1 .. Len(items) /\ Len(items) \in Nat
  BY <1>1
<1>3. ASSUME ~BadItems(items), NEW i \in DOMAIN items, IsAggregate(items[i])
      PROVE  /\ items[i].fn \in {"Count", "Sum", "Avg"}
             /\ items[i].kind = "agg" => items[i].col \in Columns
             /\ items[i].kind = "aggstar" => items[i].fn = "Count"
  <2>1. items[i] \in SelectItems
    BY <1>1, <1>2, <1>3, ElementOfSeq
  <2>2. /\ items[i].fn \in {"Count", "Sum", "Avg"}
        /\ items[i].kind = "aggstar" => items[i].fn = "Count"
    BY <1>3, <2>1 DEF SelectItems, IsAggregate, Star, AggStar
  <2>3. items # <<Star>>
    <3>1. <<Star>>[1].kind = "star" /\ Len(<<Star>>) = 1
      BY DEF Star
    <3>2. items = <<Star>> => i = 1
      BY <1>2, <1>3, <3>1
    <3>. QED
      BY <1>3, <3>1, <3>2 DEF IsAggregate
  <2>4. items[i].kind = "agg" => items[i].col \in Columns
    BY <1>2, <1>3, <2>3 DEF BadItems
  <2>. QED
    BY <2>2, <2>4
<1>4. items = <<>> => ~BadItems(items)
  BY DEF BadItems
<1>. QED
  BY <1>2, <1>3, <1>4 DEF IsResolved

\* One row more for an aggregate.
LEMMA SeenMore ==
    ASSUME NEW t \in Tables, NEW items, IsResolved(items), NEW i \in DOMAIN items,
           IsAggregate(items[i]), NEW R \in SUBSET DOMAIN t, NEW id \in DOMAIN t, id \notin R
    PROVE  LET item == items[i]
               S == SeenBy(t, item, R)
               T == SeenBy(t, item, R \cup {id})
           IN  /\ IF Skips(item, t[id]) THEN T = S
                  ELSE /\ Cardinality(T) = Cardinality(S) + 1
                       /\ item.fn # "Count" =>
                            /\ t[id][item.col].n \in Int
                            /\ SumOf(Amounts(t, item.col), T) =
                                 SumOf(Amounts(t, item.col), S) + t[id][item.col].n
               /\ Cardinality(S) \in Nat
<1>. DEFINE item == items[i]
            S == SeenBy(t, item, R)
            T == SeenBy(t, item, R \cup {id})
<1>1. /\ S \in SUBSET DOMAIN t /\ id \notin S
      /\ Skips(item, t[id]) => T = S
      /\ ~Skips(item, t[id]) => T = S \cup {id}
  BY DEF SeenBy, Skips, IsAggregate
<1>2. IsFiniteSet(DOMAIN t)
  BY TableFacts
<1>3. IsFiniteSet(S) /\ Cardinality(S) \in Nat /\ Cardinality(S \cup {id}) = Cardinality(S) + 1
  <2>. HIDE DEF S
  <2>1. IsFiniteSet(S)
    BY <1>1, <1>2, FS_Subset
  <2>. QED
    BY <1>1, <2>1, FS_CardinalityType, FS_AddElement
<1>4. ASSUME item.fn # "Count"
      PROVE  /\ t[id][item.col].n \in Int
             /\ SumOf(Amounts(t, item.col), S \cup {id}) =
                  SumOf(Amounts(t, item.col), S) + t[id][item.col].n
  <2>1. item.col \in Columns
    BY <1>4 DEF IsResolved, IsAggregate
  <2>. DEFINE g == Amounts(t, item.col)
  <2>2. /\ \A x \in DOMAIN t : g[x] \in Int
        /\ g[id] = t[id][item.col].n /\ g[id] \in Int
    BY <2>1, AmountFacts
  <2>. HIDE DEF g, S, item
  <2>3. SumOf(g, S \cup {id}) = SumOf(g, S) + g[id]
    BY <1>1, <1>2, <2>2, SumFacts
  <2>. QED
    BY <2>2, <2>3 DEF g
<1>. HIDE DEF S, T, item
<1>5. /\ IF Skips(item, t[id]) THEN T = S
         ELSE /\ Cardinality(T) = Cardinality(S) + 1
              /\ item.fn # "Count" =>
                   /\ t[id][item.col].n \in Int
                   /\ SumOf(Amounts(t, item.col), T) =
                        SumOf(Amounts(t, item.col), S) + t[id][item.col].n
      /\ Cardinality(S) \in Nat
  BY <1>1, <1>3, <1>4
<1>. QED
  BY <1>5 DEF S, T, item

\* The accumulators start with what no row gives.
LEMMA SummedNothing ==
    ASSUME NEW t, NEW items, NEW cnt, NEW total,
           \A i \in DOMAIN items : cnt[i] = 0 /\ total[i] = 0
    PROVE  Summed(t, items, {}, cnt, total)
<1>1. Cardinality({}) = 0
  BY FS_EmptySet
<1>2. \A g : SumOf(g, {}) = 0
  BY SumFacts, FS_EmptySet
<1>3. \A item : SeenBy(t, item, {}) = {}
  BY DEF SeenBy
<1>. QED
  BY <1>1, <1>2, <1>3 DEF Summed

\* What a row adds to the accumulators of an aggregate.
CountAdds(item, row) == IF IsAggregate(item) /\ ~Skips(item, row) THEN 1 ELSE 0
SumAdds(item, row) ==
    IF IsAggregate(item) /\ ~Skips(item, row)
    THEN IF item.fn = "Count" THEN 0 ELSE row[item.col].n ELSE 0
Adds(items, row, cnt, total, newcnt, newtotal) ==
    /\ newcnt = [i \in DOMAIN items |-> cnt[i] + CountAdds(items[i], row)]
    /\ newtotal = [i \in DOMAIN items |-> total[i] + SumAdds(items[i], row)]

\* A row found keeps the accumulators right.
LEMMA SummedMore ==
    ASSUME NEW t \in Tables, NEW items, IsResolved(items),
           NEW R \in SUBSET DOMAIN t, NEW id \in DOMAIN t, id \notin R,
           NEW cnt \in [DOMAIN items -> Nat], NEW total \in [DOMAIN items -> Int],
           Summed(t, items, R, cnt, total), NEW newcnt, NEW newtotal,
           Adds(items, t[id], cnt, total, newcnt, newtotal)
    PROVE  /\ newcnt \in [DOMAIN items -> Nat] /\ newtotal \in [DOMAIN items -> Int]
           /\ Summed(t, items, R \cup {id}, newcnt, newtotal)
<1>1. ASSUME NEW i \in DOMAIN items
      PROVE  CountAdds(items[i], t[id]) \in Nat /\ SumAdds(items[i], t[id]) \in Int
  <2>1. IsAggregate(items[i]) /\ items[i].fn # "Count" => t[id][items[i].col].n \in Int
    <3>1. IsAggregate(items[i]) /\ items[i].fn # "Count" => items[i].col \in Columns
      BY DEF IsResolved, IsAggregate
    <3>. QED
      BY <3>1, AmountFacts
  <2>. QED
    BY <2>1 DEF CountAdds, SumAdds
<1>2. newcnt \in [DOMAIN items -> Nat] /\ newtotal \in [DOMAIN items -> Int]
  BY <1>1 DEF Adds
<1>3. ASSUME NEW i \in DOMAIN items, IsAggregate(items[i])
      PROVE  /\ newcnt[i] = Cardinality(SeenBy(t, items[i], R \cup {id}))
             /\ items[i].fn # "Count" =>
                  newtotal[i] = SumOf(Amounts(t, items[i].col), SeenBy(t, items[i], R \cup {id}))
  <2>. DEFINE item == items[i]
              S == SeenBy(t, item, R)
              T == SeenBy(t, item, R \cup {id})
  <2>1. /\ IF Skips(item, t[id]) THEN T = S
           ELSE /\ Cardinality(T) = Cardinality(S) + 1
                /\ item.fn # "Count" =>
                     /\ t[id][item.col].n \in Int
                     /\ SumOf(Amounts(t, item.col), T) =
                          SumOf(Amounts(t, item.col), S) + t[id][item.col].n
        /\ Cardinality(S) \in Nat
    BY <1>3, SeenMore
  <2>2. /\ cnt[i] = Cardinality(S) /\ cnt[i] \in Nat /\ total[i] \in Int
        /\ item.fn # "Count" => total[i] = SumOf(Amounts(t, item.col), S)
    BY <1>3 DEF Summed
  <2>3. /\ newcnt[i] = cnt[i] + CountAdds(item, t[id])
        /\ newtotal[i] = total[i] + SumAdds(item, t[id])
    BY DEF Adds
  <2>4. IsAggregate(item)
    BY <1>3
  <2>. HIDE DEF item, S, T
  <2>5. CASE Skips(item, t[id])
    BY <2>1, <2>2, <2>3, <2>5 DEF CountAdds, SumAdds, item, S, T
  <2>6. CASE ~Skips(item, t[id])
    <3>1. newcnt[i] = cnt[i] + 1
      BY <2>3, <2>4, <2>6 DEF CountAdds
    <3>2. item.fn # "Count" => newtotal[i] = total[i] + t[id][item.col].n
      BY <2>3, <2>4, <2>6 DEF SumAdds
    <3>3. newcnt[i] = Cardinality(T)
      BY <2>1, <2>2, <2>6, <3>1
    <3>4. item.fn # "Count" => newtotal[i] = SumOf(Amounts(t, item.col), T)
      BY <2>1, <2>2, <2>6, <3>2
    <3>. QED
      BY <3>3, <3>4 DEF item, T
  <2>. QED
    BY <2>5, <2>6
<1>. QED
  BY <1>2, <1>3 DEF Summed

----------------------------------------------------------------------------
(* The inductive invariant *)

\* Writing a row in the answer throws, as DumpThrows says it of the statement.
Unwritable(items, row) ==
    \E i \in DOMAIN items : Shown(items[i], row) \cap NotUtf8 # {}

\* A reason for an error that looking at every row of the table would find.
Reason(t, where, items) ==
    \E id \in DOMAIN t :
      \/ where # NoWhere /\ EvalThrows(where, t[id])
      \/ id \in Chosen(t, where) /\ \E i \in DOMAIN items : NotSummable(items[i], t[id])
      \/ id \in Chosen(t, where) /\ Unwritable(items, t[id])

Typed ==
    /\ records \in Tables
    /\ pc \in {"idle", "rows", "done", "error"}
    /\ stmt.kind \in {"none", "select", "change"}
    /\ stmt.where \in Wheres /\ stmt.items \in Items \cup {<<>>}
    /\ count \in [DOMAIN stmt.items -> Nat] /\ sum \in [DOMAIN stmt.items -> Int]

Idle == pc = "idle" => candidates = <<>> /\ matched = <<>>

\* The rows found are rows wanted, in order, and no row wanted is neither found
\* nor still a candidate; the accumulators are those of the rows found.
Looped ==
    /\ Scan(records, stmt.where, matched, candidates)
    /\ pc \in {"rows", "done"} =>
         /\ ~BadItems(stmt.items)
         /\ Complete(records, stmt.where, matched, candidates)
         /\ Summed(records, stmt.items, RangeOf(matched), count, sum)
    /\ pc = "done" => candidates = <<>>

Failed ==
    pc = "error" /\ ~BadItems(stmt.items) => Reason(records, stmt.where, stmt.items)

Inv == Typed /\ Idle /\ Looped /\ Failed

\* The code's test of a row that does not throw is that of SQL's logic.
LEMMA MatchesRight ==
    ASSUME stmt.where \in Wheres, NEW row \in Rows,
           ~(stmt.where # NoWhere /\ EvalThrows(stmt.where, row))
    PROVE  Matches(row) <=> Truth(stmt.where, row) = 2
<1>1. CASE stmt.where = NoWhere
  BY <1>1 DEF Matches, Truth
<1>2. CASE stmt.where # NoWhere
  BY <1>2, EvalRight DEF Matches
<1>. QED
  BY <1>1, <1>2

\* It holds before the first statement.
LEMMA InitInv == Init => Inv
<1>. SUFFICES ASSUME Init PROVE Inv
  OBVIOUS
<1>1. NoStmt.kind = "none" /\ NoStmt.where = NoWhere /\ NoStmt.items = <<>>
  BY DEF NoStmt
<1>2. NoWhere \in Wheres
  BY ExprFacts
<1>3. <<>> \in [DOMAIN <<>> -> Nat] /\ <<>> \in [DOMAIN <<>> -> Int]
  OBVIOUS
<1>4. Typed
  BY <1>1, <1>2, <1>3 DEF Init, Typed
<1>5. Idle /\ Failed
  BY DEF Init, Idle, Failed
<1>6. Looped
  BY ScanNothing DEF Init, Looped
<1>. QED
  BY <1>4, <1>5, <1>6 DEF Inv

\* A statement starts: resolving the select list and select_candidates.
LEMMA StartInv ==
    ASSUME Inv, pc = "idle", NEW kind \in {"select", "change"}, NEW where \in Wheres,
           NEW items \in Items \cup {<<>>}, NEW first, Start(kind, where, items, first)
    PROVE  Inv'
<1>1. stmt'.kind = kind /\ stmt'.where = where /\ stmt'.items = items
  BY DEF Start
<1>2. /\ records \in Tables /\ candidates = <<>> /\ matched = <<>>
      /\ records' = records /\ matched' = <<>>
  BY DEF Inv, Typed, Idle, Start
<1>3. DOMAIN items = 1 .. Len(items)
  BY ResolvedItems
<1>4. /\ count' = [i \in DOMAIN items |-> 0] /\ sum' = [i \in DOMAIN items |-> 0]
      /\ pc' \in {"rows", "error"}
  BY <1>3 DEF Start
<1>5. Typed'
  BY <1>1, <1>2, <1>4 DEF Typed
<1>6. CASE BadItems(items)
  <2>1. pc' = "error" /\ candidates' = <<>>
    BY <1>2, <1>6 DEF Start
  <2>2. Looped' /\ Idle' /\ Failed'
    BY <1>1, <1>2, <1>6, <2>1, ScanNothing DEF Looped, Idle, Failed
  <2>. QED
    BY <1>5, <2>2 DEF Inv
<1>7. CASE ~BadItems(items)
  <2>1. pc' = "rows" /\ candidates' = select_candidates(where, first)
    BY <1>7 DEF Start
  <2>. DEFINE q == select_candidates(where, first)
  <2>2. CandidatesOf(records, where, q)
    BY <1>2, CandidatesRight
  <2>3. Scan(records, where, <<>>, q) /\ Complete(records, where, <<>>, q)
    BY <1>2, <2>2, ScanStart
  <2>4. RangeOf(<<>>) = {}
    BY DEF RangeOf
  <2>5. Summed(records, items, {}, count', sum')
    BY <1>4, SummedNothing
  <2>. HIDE DEF q
  <2>6. candidates' = q
    BY <2>1 DEF q
  <2>7. Looped' /\ Idle' /\ Failed'
    BY <1>1, <1>2, <1>7, <2>1, <2>3, <2>4, <2>5, <2>6 DEF Looped, Idle, Failed
  <2>. QED
    BY <1>5, <2>7 DEF Inv
<1>. QED
  BY <1>6, <1>7

\* One round of the row loop.
LEMMA RowInv == ASSUME Inv, Row PROVE Inv'
<1>. DEFINE id == Head(candidates)
            row == records[id]
<1>1. /\ pc = "rows" /\ candidates # <<>> /\ records' = records /\ stmt' = stmt
      /\ records \in Tables /\ stmt.where \in Wheres /\ stmt.items \in Items \cup {<<>>}
      /\ count \in [DOMAIN stmt.items -> Nat] /\ sum \in [DOMAIN stmt.items -> Int]
      /\ Scan(records, stmt.where, matched, candidates)
      /\ ~BadItems(stmt.items)
      /\ Complete(records, stmt.where, matched, candidates)
      /\ Summed(records, stmt.items, RangeOf(matched), count, sum)
  BY DEF Row, Inv, Typed, Looped
<1>2. id \in DOMAIN records /\ candidates \in Seq(DOMAIN records)
  BY <1>1, TailFacts DEF Scan
<1>3. row \in Rows
  BY <1>1, <1>2, TableFacts
<1>4. CASE RowThrows(row)
  <2>1. pc' = "error" /\ UNCHANGED <<candidates, matched, count, sum>>
    BY <1>4 DEF Row
  <2>2. Reason(records, stmt.where, stmt.items)
    <3>1. CASE stmt.where # NoWhere /\ EvalThrows(stmt.where, row)
      BY <1>2, <3>1 DEF Reason
    <3>2. CASE ~(stmt.where # NoWhere /\ EvalThrows(stmt.where, row))
      <4>1. Matches(row) /\ \E i \in DOMAIN stmt.items : NotSummable(stmt.items[i], row)
        BY <1>4, <3>2 DEF RowThrows
      <4>2. id \in Chosen(records, stmt.where)
        BY <1>1, <1>2, <1>3, <3>2, <4>1, MatchesRight DEF Chosen
      <4>. QED
        BY <1>2, <4>1, <4>2 DEF Reason
    <3>. QED
      BY <3>1, <3>2
  <2>3. Typed'
    BY <1>1, <2>1 DEF Inv, Typed
  <2>. QED
    BY <1>1, <2>1, <2>2, <2>3 DEF Inv, Idle, Looped, Failed
<1>5. CASE ~RowThrows(row) /\ ~Matches(row)
  <2>1. pc' = "rows" /\ candidates' = Tail(candidates) /\ UNCHANGED <<matched, count, sum>>
    BY <1>1, <1>5 DEF Row
  <2>2. id \notin Chosen(records, stmt.where)
    BY <1>1, <1>3, <1>5, MatchesRight DEF Chosen, RowThrows
  <2>3. /\ Scan(records, stmt.where, matched, Tail(candidates))
        /\ Complete(records, stmt.where, matched, Tail(candidates))
    BY <1>1, <2>2, ScanSkip
  <2>4. Typed'
    BY <1>1, <2>1 DEF Inv, Typed
  <2>. QED
    BY <1>1, <2>1, <2>3, <2>4 DEF Inv, Idle, Looped, Failed
<1>6. CASE ~RowThrows(row) /\ Matches(row)
  <2>1. /\ pc' = "rows" /\ candidates' = Tail(candidates) /\ matched' = Append(matched, id)
        /\ Adds(stmt.items, row, count, sum, count', sum')
    BY <1>1, <1>6 DEF Row, Adds, CountAdds, SumAdds
  <2>2. id \in Chosen(records, stmt.where)
    BY <1>1, <1>2, <1>3, <1>6, MatchesRight DEF Chosen, RowThrows
  <2>3. /\ Scan(records, stmt.where, matched', Tail(candidates))
        /\ Complete(records, stmt.where, matched', Tail(candidates))
        /\ RangeOf(matched') = RangeOf(matched) \cup {id}
        /\ id \notin RangeOf(matched)
    BY <1>1, <2>1, <2>2, ScanTake
  <2>4. RangeOf(matched) \in SUBSET DOMAIN records
    BY <1>1 DEF Scan, Chosen
  <2>5. IsResolved(stmt.items)
    BY <1>1, ResolvedItems
  <2>6. /\ count' \in [DOMAIN stmt.items -> Nat] /\ sum' \in [DOMAIN stmt.items -> Int]
        /\ Summed(records, stmt.items, RangeOf(matched) \cup {id}, count', sum')
    BY <1>1, <1>2, <2>1, <2>3, <2>4, <2>5, SummedMore
  <2>7. Typed'
    BY <1>1, <2>1, <2>6 DEF Inv, Typed
  <2>. QED
    BY <1>1, <2>1, <2>3, <2>6, <2>7 DEF Inv, Idle, Looped, Failed
<1>. QED
  BY <1>4, <1>5, <1>6

\* Every step preserves it.
LEMMA NextInv == Inv /\ [Next]_vars => Inv'
<1>. SUFFICES ASSUME Inv, [Next]_vars PROVE Inv'
  OBVIOUS
<1>1. ASSUME pc = "idle", NEW where \in Wheres, NEW first \in Firsts, NEW items \in Items,
             exec_select(where, items, first)
      PROVE  Inv'
  BY <1>1, StartInv DEF exec_select
<1>2. ASSUME pc = "idle", NEW where \in Wheres, NEW first \in Firsts, exec_change(where, first)
      PROVE  Inv'
  BY <1>2, StartInv DEF exec_change
<1>3. CASE Row
  BY <1>3, RowInv
<1>4. CASE Finish
  <2>1. /\ pc = "rows" /\ candidates = <<>>
        /\ UNCHANGED <<records, stmt, candidates, matched, count, sum>>
    BY <1>4 DEF Finish
  <2>2. CASE \E i \in DOMAIN matched : DumpThrows(records[matched[i]])
    <3>1. pc' = "error"
      BY <1>4, <2>2 DEF Finish
    <3>2. PICK i \in DOMAIN matched : DumpThrows(records[matched[i]])
      BY <2>2
    <3>3. matched \in Seq(DOMAIN records) /\ RangeOf(matched) \subseteq Chosen(records, stmt.where)
      BY DEF Inv, Looped, Scan
    <3>4. matched[i] \in DOMAIN records /\ matched[i] \in Chosen(records, stmt.where)
      BY <3>2, <3>3 DEF RangeOf
    <3>5. Unwritable(stmt.items, records[matched[i]])
      BY <3>2 DEF DumpThrows, Unwritable
    <3>6. Reason(records, stmt.where, stmt.items)
      BY <3>4, <3>5 DEF Reason
    <3>. QED
      BY <2>1, <3>1, <3>6 DEF Inv, Typed, Idle, Looped, Failed
  <2>3. CASE ~\E i \in DOMAIN matched : DumpThrows(records[matched[i]])
    <3>1. pc' = "done"
      BY <1>4, <2>3 DEF Finish
    <3>. QED
      BY <2>1, <3>1 DEF Inv, Typed, Idle, Looped, Failed
  <2>. QED
    BY <2>2, <2>3
<1>5. CASE Answered
  <2>1. /\ stmt'.kind = "none" /\ stmt'.where = NoWhere /\ stmt'.items = <<>>
        /\ pc' = "idle" /\ candidates' = <<>> /\ matched' = <<>> /\ count' = <<>> /\ sum' = <<>>
        /\ records' = records
    BY <1>5 DEF Answered, NoStmt
  <2>2. <<>> \in [DOMAIN <<>> -> Nat] /\ <<>> \in [DOMAIN <<>> -> Int]
    OBVIOUS
  <2>3. Typed'
    BY <2>1, <2>2, ExprFacts DEF Inv, Typed
  <2>4. Idle' /\ Looped' /\ Failed'
    BY <2>1, ScanNothing DEF Idle, Looped, Failed
  <2>. QED
    BY <2>3, <2>4 DEF Inv
<1>6. CASE UNCHANGED vars
  BY <1>6 DEF vars, Inv, Typed, Idle, Looped, Failed
<1>. QED
  BY <1>1, <1>2, <1>3, <1>4, <1>5, <1>6 DEF Next

\* The inductive invariant holds in every reachable state.
THEOREM WhereInvariant == Spec => []Inv
BY InitInv, NextInv, PTL DEF Spec

----------------------------------------------------------------------------
(* What follows from it *)

\* The types, and that no row comes twice.
LEMMA InvTypeOK == Inv => TypeOK
<1>. SUFFICES ASSUME Inv PROVE TypeOK
  OBVIOUS
<1>1. /\ RangeOf(matched \o candidates) \subseteq DOMAIN records
      /\ Cardinality(RangeOf(matched \o candidates)) = Len(matched \o candidates)
  BY ScanDistinct DEF Inv, Typed, Looped
<1>. QED
  BY <1>1 DEF TypeOK, Inv, Typed

\* A statement that is done has found all rows that SQL's logic selects.
LEMMA FoundAll == Inv /\ pc = "done" => RangeOf(matched) = Chosen(records, stmt.where)
<1>1. RangeOf(<<>>) = {}
  BY DEF RangeOf
<1>. QED
  BY <1>1 DEF Inv, Looped, Scan, Complete

\* The rows found are those wanted.
LEMMA InvSelects == Inv => SelectsExactly
BY FoundAll DEF SelectsExactly, Wanted, Chosen

\* They are in order.
LEMMA InvInOrder == Inv => AnswersInOrder
BY DEF Inv, Looped, Scan, Ordered, AnswersInOrder

\* Errors have a reason.
LEMMA InvNoSpurious == Inv => NoSpuriousError
BY DEF Inv, Failed, Reason, Chosen, NoSpuriousError, Wanted, Unwritable, DumpThrows

\* The accumulators give the aggregates of the rows wanted.
LEMMA InvAggregates == Inv => AggregatesExact
<1>. SUFFICES ASSUME Inv, pc = "done", NEW i \in DOMAIN stmt.items, IsAggregate(stmt.items[i])
              PROVE  LET item == stmt.items[i]
                         Seen == IF item.kind = "aggstar" THEN Wanted
                                 ELSE {id \in Wanted : records[id][item.col] # Null}
                         Total == MapThenSumSet(LAMBDA id : records[id][item.col].n, Seen)
                     IN  AggValue(i) =
                           IF item.fn = "Count" THEN IntVal(Cardinality(Seen))
                           ELSE IF Seen = {} THEN Null
                           ELSE IF item.fn = "Sum" THEN IntVal(Total)
                           ELSE [tag |-> "avg", n |-> <<Total, Cardinality(Seen)>>]
  BY DEF AggregatesExact
<1>. DEFINE item == stmt.items[i]
            Seen == IF item.kind = "aggstar" THEN Wanted
                    ELSE {id \in Wanted : records[id][item.col] # Null}
            Total == MapThenSumSet(LAMBDA id : records[id][item.col].n, Seen)
<1>1. Seen = SeenBy(records, item, RangeOf(matched)) /\ Seen \in SUBSET DOMAIN records
  BY FoundAll DEF Wanted, Chosen, SeenBy
<1>2. /\ records \in Tables /\ ~BadItems(stmt.items) /\ stmt.items \in Items \cup {<<>>}
      /\ Summed(records, stmt.items, RangeOf(matched), count, sum)
  BY DEF Inv, Typed, Looped
<1>3. IsResolved(stmt.items)
  BY <1>2, ResolvedItems
<1>4. /\ item.fn \in {"Count", "Sum", "Avg"}
      /\ item.fn # "Count" => item.col \in Columns
  BY <1>3 DEF IsResolved, IsAggregate
<1>5. item.fn # "Count" => Total = SumOf(Amounts(records, item.col), Seen)
  <2>. HIDE DEF Seen, item
  <2>. QED
    BY <1>1, <1>2, <1>4, TotalRight
<1>. HIDE DEF Seen, Total
<1>6. /\ count[i] = Cardinality(Seen)
      /\ item.fn # "Count" => sum[i] = Total
  BY <1>1, <1>2, <1>5 DEF Summed
<1>7. Cardinality(Seen) = 0 <=> Seen = {}
  <2>1. IsFiniteSet(Seen)
    BY <1>1, <1>2, TableFacts, FS_Subset
  <2>. QED
    BY <2>1, FS_EmptySet
<1>8. AggValue(i) = IF item.fn = "Count" THEN IntVal(count[i])
                    ELSE IF count[i] = 0 THEN Null
                    ELSE IF item.fn = "Sum" THEN IntVal(sum[i])
                    ELSE [tag |-> "avg", n |-> <<sum[i], count[i]>>]
  BY DEF AggValue
<1>9. AggValue(i) = IF item.fn = "Count" THEN IntVal(Cardinality(Seen))
                    ELSE IF Seen = {} THEN Null
                    ELSE IF item.fn = "Sum" THEN IntVal(Total)
                    ELSE [tag |-> "avg", n |-> <<Total, Cardinality(Seen)>>]
  <2>. HIDE DEF item
  <2>. QED
    BY <1>6, <1>7, <1>8
<1>. QED
  BY <1>9 DEF Seen, Total

\* The candidates and the rows found are rows of the table, each at most once.
THEOREM TypesHold == Spec => []TypeOK
BY WhereInvariant, InvTypeOK, PTL

\* For every table and every WHERE: what SELECT, UPDATE and DELETE find is what
\* SQL's logic selects, with or without an index.
THEOREM SelectionIsExact == Spec => []SelectsExactly
BY WhereInvariant, InvSelects, PTL

\* Answers come in the order of the index that was scanned, or of insertion.
THEOREM AnswersAreInOrder == Spec => []AnswersInOrder
BY WhereInvariant, InvInOrder, PTL

\* A statement whose select list is resolved fails only for a reason that a scan
\* of the table would find.
THEOREM ErrorsHaveReasons == Spec => []NoSpuriousError
BY WhereInvariant, InvNoSpurious, PTL

\* COUNT, SUM and AVG are those of the rows wanted.
THEOREM AggregatesAreExact == Spec => []AggregatesExact
BY WhereInvariant, InvAggregates, PTL
=============================================================================
