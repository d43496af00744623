--------------------------- MODULE MCWrapService ---------------------------
(* WrapService with three clients: a fork that comes two accepts late can find
   its numbers in use again. *)
EXTENDS WrapService

CONSTANTS c1, c2, c3

MCClients == {c1, c2, c3}

Both == BOOLEAN
=============================================================================
