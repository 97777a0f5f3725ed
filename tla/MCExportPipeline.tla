-------------------------- MODULE MCExportPipeline --------------------------
(***************************************************************************)
(* A small instance of ExportPipeline for TLC.  The names of a MULTI_FILE  *)
(* topic are alike: of the bags that differ only in them, the one that     *)
(* shows the first name first is enough.  (A SYMMETRY would not be sound   *)
(* with the liveness property.)                                            *)
(***************************************************************************)
EXTENDS ExportPipelineInv

CONSTANTS f1, f2

FirstBefore(first, second) ==
    \A p \in DOMAIN plan : plan[p].file = second => \E q \in 1..(p - 1) : plan[q].file = first

MCInit == Init /\ FirstBefore(f1, f2)

MCSpec == MCInit /\ [][Next]_vars /\ Fairness
=============================================================================
