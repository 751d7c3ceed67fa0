------------------------------ MODULE MCWhere ------------------------------
(* Where on a table (id int INDEXED, name string INDEXED, v int) with up to *)
(* three rows, inserted in another order than that of their keys.           *)
EXTENDS Where, TLC

MCType == <<"int", "str", "int">>

MCRow(id, name, v) == <<IntVal(id), StrVal(name), v>>
MCTables ==
    {<<>>,
     <<MCRow(2, 1, Null)>>,
     <<MCRow(3, 1, IntVal(1)), MCRow(1, 2, Null), MCRow(2, 3, IntVal(3))>>,
     <<MCRow(2, 3, IntVal(2)), MCRow(3, 2, IntVal(2)), MCRow(1, 1, IntVal(1))>>}

MCRegex == (StrVal(9) :> {StrVal(1), StrVal(3)})
MCNotUtf8 == {StrVal(3)}

\* Comparisons of the first column with int literals, in both orders.
MCRanges ==
    {Cmp(op, Col(1), Lit(IntVal(n))) : op \in Compares, n \in {1, 2}}
    \cup {Cmp(op, Lit(IntVal(2)), Col(1)) : op \in Compares}
    \cup {Between(Col(1), Lit(IntVal(2)), Lit(IntVal(3)))}

\* Clauses on other columns, or with literals of other types, that make a
\* hint useless, that are UNKNOWN, or that throw.
MCOthers ==
    {Cmp(op, Col(1), Lit(Null)) : op \in {"Eq", "Lt", "GtEq"}}
    \cup {Between(Col(1), Lit(StrVal(1)), Lit(IntVal(3))),
          Between(Col(1), Lit(IntVal(1)), Lit(Null)),
          Between(Lit(IntVal(2)), Col(1), Col(3)),
          Cmp("Eq", Col(1), Lit(StrVal(2))),
          Cmp("GtEq", Col(1), Col(3)),
          Cmp("Gt", Col(2), Lit(StrVal(1))),
          Cmp("Eq", Lit(StrVal(2)), Col(2)),
          Cmp("NotEq", Col(3), Lit(IntVal(1))),
          Cmp("LtEq", Lit(IntVal(2)), Col(3)),
          Like(Col(2), Lit(StrVal(9))),
          Like(Col(2), Lit(StrVal(8))),
          Like(Col(3), Lit(StrVal(9))),
          Cmp("Eq", Col(4), Lit(IntVal(1)))}

MCClauses == MCRanges \cup MCOthers
MCPairs == {And(a, b) : a, b \in MCClauses} \cup {Or(a, b) : a, b \in MCClauses}
MCMixed == {And(Cmp("Gt", Col(1), Lit(IntVal(n))), Or(a, b)) :
              n \in {1, 2}, a \in MCRanges, b \in MCOthers}
           \cup {Or(a, Cmp("Lt", Col(1), Lit(IntVal(2)))) :
                   a \in {And(x, y) : x \in MCRanges, y \in MCOthers}}
MCExprs == MCClauses \cup MCPairs \cup MCMixed
MCDeep(e) == e.kind \in {"and", "or"}
MCDepth ==
    [e \in Wheres |-> IF ~MCDeep(e) THEN 0
                       ELSE IF ~MCDeep(e.lhs) /\ ~MCDeep(e.rhs) THEN 1 ELSE 2]

MCItems ==
    {<<Star>>,
     <<AggStar, Agg("Count", 3), Agg("Sum", 3), Agg("Avg", 3)>>,
     <<Plain(1), AggStar>>, <<Agg("Sum", 2)>>}
=============================================================================
