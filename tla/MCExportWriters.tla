--------------------------- MODULE MCExportWriters ---------------------------
(***************************************************************************)
(* One at a time, the two ways the exporter goes through the frames of a   *)
(* bag: the resampler that aligns them to the master topic, or the worker  *)
(* that writes the messages of a topic to a single file.                   *)
(***************************************************************************)
EXTENDS NearestResamplerInv, SingleFileOutput, TLC

VARIABLE part

Symmetry == Permutations(Others)

MCInit ==
  /\ part \in {"resampler", "writer"}
  /\ Init
  /\ OutputInit
  /\ part = "resampler" => fmt = CHOOSE f \in Formats : TRUE

Resampler == part = "resampler" /\ Next /\ UNCHANGED <<outputVars, part>>
Writer == part = "writer" /\ OutputNext /\ UNCHANGED <<vars, part>>

MCNext == Resampler \/ Writer

MCSpec == MCInit /\ [][MCNext]_<<vars, outputVars, part>>
==============================================================================
