------------------------------ MODULE MCShell -------------------------------
(* Two files, a table t(a, b) with primary key a, and the texts of a       *)
(* session: what is run on t, and what is only parsed.                     *)
EXTENDS Shell

Explain == Piece("EXPLAIN")
Stop == Piece(";")

Number(n) == [t |-> "int", val |-> n]
Col(name) == [t |-> "column", table |-> Null, name |-> name]
Flat(first) == [first |-> first, rest |-> <<>>]
With(w, op, arg) == [w EXCEPT !.rest = Append(@, [op |-> op, arg |-> arg])]
Test(op, e1, e2) == [t |-> op, expr1 |-> Flat(e1), expr2 |-> Flat(e2)]
From(name) == [first |-> [name |-> name, alias |-> Null], rest |-> <<>>]
As(e, alias) == [expr |-> e, alias |-> alias]

ColumnDec(name, type, size, cons) == [name |-> name, type |-> type, size |-> size, constraints |-> cons]
PrimaryKey == [t |-> "primary_key"]
Create(columns) == [l |-> "create_table", name |-> "t", columns |-> columns, keys |-> <<>>]
CreateT == Create(<<ColumnDec("a", "int", NoSize, <<PrimaryKey>>), ColumnDec("b", "int", NoSize, <<>>)>>)
InsertT(columns, a, b) == [l |-> "insert", table |-> "t", columns |-> columns, values |-> <<Number(a), Number(b)>>]

Statement(exprs, where, options) ==
    [distinct |-> FALSE, exprs |-> exprs, from |-> From("t"), where |-> where, options |-> options]
Query(statement) == [l |-> "select", first |-> statement, unions |-> <<>>]
SelectT == Query(Statement(<<As(Flat(Col("*")), Null)>>, Null, <<>>))
DeleteT == [l |-> "delete", table |-> "t", where |-> Flat(Test("=", Col("a"), Number(1)))]

(* A table that is there, with a row in it or with none.                   *)
WithT(page) == << << [name |-> "t", root_page |-> 2, sql |-> <<Line(CreateT), Stop>>] >>, page >>

MCInitialFiles == {NoFile, Corrupt, WithT((7 :> <<Null, 1>>))}

MCSqls ==
    { <<Line(CreateT), Stop>>,
      <<Line(CreateT), Stop, Piece("--")>>,
      <<Line(InsertT(<<>>, 1, 5))>>,
      <<Piece("/*"), Line(DeleteT), Piece("*/"), Line(InsertT(<<"a", "b">>, 2, 5)), Stop>>,
      <<Line(InsertT(<<>>, 1, 6)), Stop, Line(InsertT(<<>>, 1, 7)), Stop>>,
      <<Line(InsertT(<<"a">>, 3, 5))>>,
      <<Explain, Line(InsertT(<<>>, 3, 8)), Stop>>,
      <<Explain, Line(CreateT)>>,
      <<Line(SelectT), Stop>>,
      <<Line(DeleteT)>>,
      <<Stop>>,
      <<Piece("--"), Line(SelectT), Piece("newline"), Line(InsertT(<<>>, 4, 5))>> }

(* What follows an EXPLAIN and its semicolon is a query of its own.        *)
MCSpacedSqls == { <<Line(CreateT)>>, <<Explain, Line(InsertT(<<>>, 3, 8)), Stop, Piece("blank")>> }
NoTexts == {}

A == Col("a")
B == Col("b")
Subtractions == With(With(With(Flat(A), "-", B), "-", Number(1)), "+", [t |-> "neg", arg |-> A])
Products == With(With(With(Flat(A), "-", B), "*", Number(3)), "-",
                 [t |-> "paren", expr |-> With(Flat(A), "-", Number(2))])
Conjunction == With(With(Flat(Test("<", A, Number(3))), "and", Test("!=", B, Number(2))),
                    "and", [t |-> "in", expr |-> Flat(A), values |-> <<Number(1), Number(0)>>])
Disjunction == With(With(Flat([t |-> "not", arg |-> Test(">", A, B)]), "or",
                         [t |-> "paren", cond |-> Conjunction]), "or", Test("=", A, B))
Joined == [kind |-> "inner_join", table |-> [name |-> "u", alias |-> "x"],
           cond |-> [t |-> "on", cond |-> Flat(Test("=", A, B))]]
Crossed == [kind |-> "natural_join", table |-> [name |-> "v", alias |-> Null], cond |-> Null]
Sums == [Statement(<<As(Subtractions, Null), As(Products, "p")>>, Conjunction,
                   <<[t |-> "order", expr |-> Flat(A), dir |-> "desc"], [t |-> "group", expr |-> Flat(B)]>>)
         EXCEPT !.distinct = TRUE]
Join == [Statement(<<As(Flat(A), Null), As(Flat(B), "x")>>, Disjunction, <<>>)
         EXCEPT !.from.rest = <<Joined, Crossed>>]
IndexB == [l |-> "create_index", name |-> "tb", table |-> "t", column |-> "b", unique |-> FALSE]
Constrained ==
    Create(<<ColumnDec("a", "int", 4, <<PrimaryKey, [t |-> "not_null"]>>),
             ColumnDec("b", "text", 20, <<>>), ColumnDec("c", "text", NoSize, <<[t |-> "unique"]>>)>>)

MCTexts ==
    { <<Line([l |-> "select", first |-> Sums, unions |-> <<Join, Sums>>])>>,
      <<Explain, Line(Query(Join)), Stop, Line([DeleteT EXCEPT !.where = Disjunction]), Stop>>,
      <<Line(IndexB), Stop, Piece("/*")>>,
      <<Line(Constrained)>>,
      <<Line(Create(<<ColumnDec("a", "int", 0, <<>>)>>))>>,
      <<Line(SelectT), Line(SelectT), Stop>>,
      <<Explain, Explain, Line(SelectT)>>,
      <<Explain, Stop>>,
      <<Garbled(8), Stop>> }

(* A SELECT of all columns is read as that of one column, the star.        *)
MCRows == {[c \in {"a", "b", "*"} |-> IF c = "a" THEN x ELSE y] : x, y \in 0 .. 3}
=============================================================================
