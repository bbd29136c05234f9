-------------------------- MODULE MCBrowserSession --------------------------
(***************************************************************************)
(* Two calls at a time, in one tab or in two.                              *)
(***************************************************************************)
EXTENDS BrowserSession
=============================================================================
