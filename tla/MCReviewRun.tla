---------------------------- MODULE MCReviewRun ----------------------------
(* Small instances of ReviewRun for TLC. *)
EXTENDS ReviewRun

CONSTANTS r1, r2

MCReviewers == {r1, r2}
OneReviewer == {r1}
NoReviewer == {}
MCRequired == {r2}
MCSelections == {{r1}}
FirstReview == {{}}
MCCohorts == {{}, {r1}}
MCReports == {"found", "gap"}
MCClean == {"clean"}
MCFound == {"found"}
Asked == {1}
Silent == {0}
Both == {0, 1}
OneSlot == {1}
OneOrTwo == {1, 2}
=============================================================================
