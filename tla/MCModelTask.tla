---------------------------- MODULE MCModelTask ----------------------------
(***************************************************************************)
(* Instance of ModelTask for TLC: every adapter, and a child that writes   *)
(* up to four lines -- enough for an answer, a boundary, a message after   *)
(* the boundary, and the settled line.                                     *)
(***************************************************************************)
EXTENDS ModelTask

MCAdapters == {"pi", "codex", "claude_fg", "claude"}
=============================================================================
