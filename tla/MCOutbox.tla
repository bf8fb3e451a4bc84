------------------------------ MODULE MCOutbox ------------------------------
(***************************************************************************)
(* Instances of Outbox for TLC.  The plans are those reviewplan builds:    *)
(* thread replies, resolutions and the verdict are required, inline        *)
(* comments are optional.                                                  *)
(***************************************************************************)
EXTENDS Outbox, TLC

GitHubReview == {"reply", "resolve", "inline", "submit"}

MCThreads == {"t1"}

MCKind == [a \in Actions |->
             CASE a = "reply"   -> "thread_reply"
               [] a = "resolve" -> "resolve_thread"
               [] a \in {"inline", "inline2"} -> "inline_comment"
               [] a = "rollup"  -> "rollup_comment"
               [] a = "submit"  -> "submit_review"]

MCThread == [a \in Actions |-> "t1"]

MCRank == [a \in Actions |->
             CASE a = "reply" -> 1 [] a = "resolve" -> 2 [] a = "inline" -> 3
               [] a = "inline2" -> 4 [] a = "rollup" -> 5 [] a = "submit" -> 6]

MCRequired == {a \in Actions : ~Inline(a)}

(* The payloads that may be unusable; a behaviour starts with some of them. *)
MCMalformed == {"inline", "reply"}

=============================================================================
