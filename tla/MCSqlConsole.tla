---------------------------- MODULE MCSqlConsole ----------------------------
(***************************************************************************)
(* Instances of SqlConsole: two requests, so that the second meets what    *)
(* the first leaves behind, and executions of one or two statements.       *)
(***************************************************************************)
EXTENDS SqlConsole

MCPlans == { <<"table">>, <<"table", "error">> }
=============================================================================
