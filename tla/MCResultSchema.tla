-------------------------- MODULE MCResultSchema ---------------------------
(* Instances of ResultSchema: up to three columns under two names.         *)
EXTENDS ResultSchema

Plain(n, t) == [name |-> n, type |-> t, primitive |-> TRUE, qualified |-> TRUE]
ServerColumns ==
    {Plain("a", t) : t \in {"INT", "TIMESTAMP", "DECIMAL", "VARCHAR", "DATE"}}
    \cup {Plain("b", "DECIMAL"), Plain("b", "STRING"),
          [Plain("b", "DECIMAL") EXCEPT !.qualified = FALSE],
          [Plain("b", "CHAR") EXCEPT !.qualified = FALSE],
          [Plain("b", "unknown") EXCEPT !.primitive = FALSE]}
=============================================================================
