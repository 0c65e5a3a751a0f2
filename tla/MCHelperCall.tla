------------------------- MODULE MCHelperCall -------------------------
(* Caps for HelperCall that a .cfg cannot write: both streams can overflow. *)
EXTENDS HelperCall

MCCaps == [s \in Streams |-> IF s = "out" THEN 2 ELSE 1]
=======================================================================
