------------------------------- MODULE MCClient -------------------------------
(* Small instances of the client.                                          *)
EXTENDS Client
=============================================================================
