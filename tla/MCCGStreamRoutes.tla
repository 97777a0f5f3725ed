-------------------------- MODULE MCCGStreamRoutes --------------------------
(* Two routes to one server. *)
EXTENDS CGStreamRoutesInv
==============================================================================
