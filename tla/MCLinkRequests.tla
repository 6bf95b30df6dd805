--------------------------- MODULE MCLinkRequests ---------------------------
(***************************************************************************)
(* LinkRequests for TLC; the constants get their values in the cfg file.   *)
(***************************************************************************)
EXTENDS LinkRequests
=============================================================================
