-------------------------------- MODULE Null ---------------------------------
(***************************************************************************)
(* The null of the prototype's TypeScript.                                 *)
(***************************************************************************)
CONSTANT None
==============================================================================
