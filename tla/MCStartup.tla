----------------------------- MODULE MCStartup -----------------------------
(* Two processes of two releases; ledger.db, its journal and one directory. *)
EXTENDS Startup, TLC

CONSTANTS old, new

MCVersion == (old :> 2) @@ (new :> 3)

=============================================================================
