---------------------------- MODULE MCRouteHealth ----------------------------
(* Small instances of RouteHealth.                                          *)
EXTENDS RouteHealth

CONSTANTS fi, de

MCLanes == <<fi, de>>
=============================================================================
