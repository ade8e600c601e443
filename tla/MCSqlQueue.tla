----------------------------- MODULE MCSqlQueue -----------------------------
(* Three queries, one of them more urgent and one larger than the others;  *)
(* the queue holds two of them, or one if it is the large one.             *)
EXTENDS SqlQueue, TLC

CONSTANTS a, b, c

MCTasks == {a, b, c}
MCPriority == (a :> 1) @@ (b :> 1) @@ (c :> 0)
MCByteLength == (a :> 1) @@ (b :> 2) @@ (c :> 1)
=============================================================================
