--------------------------- MODULE MCReconcileStore ----------------------------
(* Two hosts that share one package and one selection of it.                    *)
EXTENDS ReconcileStore
==============================================================================
