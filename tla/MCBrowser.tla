----------------------------- MODULE MCBrowser -----------------------------
(* Finite instances of Browser for TLC. *)
EXTENDS BrowserProperties

CONSTANTS t1, t2
=============================================================================
