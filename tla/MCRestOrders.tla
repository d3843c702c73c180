---------------------------- MODULE MCRestOrders -----------------------------
(* A small instance of RestOrders.                                          *)
EXTENDS RestOrders
=============================================================================
