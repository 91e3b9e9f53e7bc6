-------------------------- MODULE MCBrowserServer ---------------------------
(* Small instances of BrowserServer.  Requests of one kind are             *)
(* interchangeable; the run with a liveness property does without.         *)
EXTENDS BrowserServer, TLC

Symmetry == Permutations(Creates)
=============================================================================
