--------------------------- MODULE MCGitHubClient ---------------------------
(* GitHubClient with the default policy scaled down: the total time is no    *)
(* longer than the skew, a wait of the host's may be just sat through or too *)
(* long, and attempts, total time and deadline each end a loop first.        *)
EXTENDS GitHubClient

CONSTANTS c1, c2

=============================================================================
