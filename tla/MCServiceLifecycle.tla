------------------------- MODULE MCServiceLifecycle -------------------------
(***************************************************************************)
(* Where TLC lets the service crash and its calls fail.                      *)
(***************************************************************************)
EXTENDS ServiceLifecycle

AllPoints == Points \ {"down"}
=============================================================================
