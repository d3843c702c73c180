------------------------------- MODULE MCCodecs -------------------------------
(* An instance of Codecs with the names of auth.cpp's configuration file.     *)
EXTENDS Codecs

MCWidthOf == [coinbasepro |-> 11, live |-> 4, sandbox |-> 7, apiKey |-> 6, secretKey |-> 9]
===============================================================================
