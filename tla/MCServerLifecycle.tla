------------------------- MODULE MCServerLifecycle --------------------------
(***************************************************************************)
(* ServerLifecycle with three connections: one for each thing a connection *)
(* may be doing when the signal comes.                                     *)
(***************************************************************************)
EXTENDS ServerLifecycle
=============================================================================
