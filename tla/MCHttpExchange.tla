---------------------------- MODULE MCHttpExchange ----------------------------
(* HttpExchange on small instances: every kind of endpoint.                *)
EXTENDS HttpExchange

MCKinds == AllKinds
=============================================================================
