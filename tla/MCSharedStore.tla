--------------------------- MODULE MCSharedStore ---------------------------
(***************************************************************************)
(* SharedStore.tla with one task and two calls of the API, of any kind and *)
(* at any time.                                                            *)
(***************************************************************************)
EXTENDS SharedStore
=============================================================================
