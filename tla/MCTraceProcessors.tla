--------------------------- MODULE MCTraceProcessors ---------------------------
(* One trace with its shared processor, or with that of a lease as well.   *)
EXTENDS TraceProcessors
=============================================================================
