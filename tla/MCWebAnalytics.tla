--------------------------- MODULE MCWebAnalytics ---------------------------
(* An instance of WebAnalytics for TLC, with the assumptions of AccessLine. *)
EXTENDS WebAnalytics, AccessLine
=============================================================================
