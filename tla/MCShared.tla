------------------------------- MODULE MCShared -------------------------------
(* Small instances of the shared runtime.                                  *)
EXTENDS SharedRuntime
=============================================================================
