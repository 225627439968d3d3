------------------------- MODULE MCJsonFileStorage --------------------------
(***************************************************************************)
(* A small instance of JsonFileStorage: two processes that make two or     *)
(* three changes between them, and die once or twice.                      *)
(***************************************************************************)
EXTENDS JsonFileStorage
=============================================================================
