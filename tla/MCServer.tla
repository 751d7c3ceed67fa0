------------------------------ MODULE MCServer ------------------------------
(* Server with two clients, two databases and two strings.                 *)
EXTENDS Server

CONSTANTS d1, d2, s1, s2

SomeStatements ==
    {Ddl("use", d1), Ddl("use", d2), Ddl("drop", d1), Ddl("create", d1),
     Query("insert", None, s2), Query("select", d1, s1), Bad(s2), Empty}

\* A literal and, after it, a character that the lexer refuses: its first
\* byte is in the error message, which is then not UTF-8.
GarbledStatements == {Bad(s2)}
=============================================================================
