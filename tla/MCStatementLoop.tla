---------------------------- MODULE MCStatementLoop ----------------------------
(* Texts of up to three statements: a query, a START BATCH, which newNode    *)
(* does not wrap, and an IF, which only a script may contain.                *)
EXTENDS StatementLoop

MCKinds       == {"QueryStatement", "StarBatchStatement", "IfStatement"}
MCScriptKinds == {"IfStatement"}
=============================================================================
