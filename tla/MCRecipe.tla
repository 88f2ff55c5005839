------------------------------ MODULE MCRecipe ------------------------------
(***************************************************************************)
(* A small instance of Recipe for TLC: archives below two directories.     *)
(***************************************************************************)
EXTENDS Recipe

MCPaths == {<<"x">>, <<"x", "y">>, <<"x", "y", "z">>}
MCModes == {"0700", "0777"}
=============================================================================
