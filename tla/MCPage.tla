------------------------------- MODULE MCPage -------------------------------
(***************************************************************************)
(* Page.tla with two jobs and two requests on their way at a time.         *)
(***************************************************************************)
EXTENDS Page
=============================================================================
