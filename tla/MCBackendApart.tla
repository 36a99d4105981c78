--------------------------- MODULE MCBackendApart ---------------------------
(* The small instances of BackendOps whose paths are apart.                  *)
EXTENDS MCBackendOps, BackendApart

=============================================================================
