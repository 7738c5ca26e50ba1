---------------------------- MODULE MCSolveCommand ----------------------------
(***************************************************************************)
(* Small instances of SolveCommand for TLC: every mode and route.          *)
(***************************************************************************)
EXTENDS SolveCommand

Config(mode, canonical, replacement, prefer, decompose, landmarks, coarse) ==
  [mode |-> mode, spatialFit |-> canonical, replacementFit |-> replacement,
   preferVertices |-> prefer, decompose |-> decompose,
   landmarks |-> landmarks, coarse |-> coarse]

\* Full optimization with a replacement fit: the post-temporal decision.
ReplacementConfigs ==
  {Config("full", FALSE, TRUE, prefer, FALSE, TRUE, FALSE) : prefer \in BOOLEAN}

\* Without landmark subpaths.
NoLandmarkConfigs ==
  {Config("full", FALSE, TRUE, TRUE, FALSE, FALSE, FALSE)}

\* Every mode and route except the replacement decision.
OtherConfigs ==
  {Config("full", TRUE, FALSE, FALSE, FALSE, FALSE, TRUE),
   Config("full", FALSE, FALSE, FALSE, TRUE, FALSE, FALSE),
   Config("temporal_only", FALSE, FALSE, FALSE, FALSE, FALSE, FALSE),
   Config("vertex_only", TRUE, FALSE, FALSE, FALSE, FALSE, FALSE),
   Config("motion_smooth", FALSE, FALSE, FALSE, FALSE, FALSE, FALSE),
   Config("motion_path_smooth", FALSE, FALSE, FALSE, FALSE, FALSE, FALSE)}

MCConfigs == ReplacementConfigs \cup NoLandmarkConfigs \cup OtherConfigs
===============================================================================
