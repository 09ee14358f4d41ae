------------------------------ MODULE MCPatch ------------------------------
(***************************************************************************)
(* The patchers on small templates for TLC.                                 *)
(***************************************************************************)
EXTENDS Patch

ShopName == {<<"shop">>}

\* Containers differ in nothing but their names.
Interchangeable == Permutations(Containers)
=============================================================================
