--------------------------- MODULE MCAdapterLife ----------------------------
(* A small instance of AdapterLife.                                         *)
EXTENDS AdapterLife
=============================================================================
