---------------------------- MODULE MCVisibility ----------------------------
(***************************************************************************)
(* Visibility for TLC; the constants get their values in the cfg files.    *)
(***************************************************************************)
EXTENDS Visibility
=============================================================================
