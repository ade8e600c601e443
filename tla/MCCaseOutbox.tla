---------------------------- MODULE MCCaseOutbox ----------------------------
(* Keys of up to three candidates: the third repeats the first.  With one  *)
(* candidate there are five events, say two appends, two projections and a *)
(* rederivation; with two candidates there is one.                         *)
EXTENDS CaseOutbox, TLC

MCKey == <<1, 2, 1>>
MCEvents == <<5, 1>>
=============================================================================
