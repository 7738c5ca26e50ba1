-------------------------- MODULE MCPathReplacement --------------------------
(***************************************************************************)
(* Sources of one or of several vertex counts, long enough for a ladder    *)
(* that passes ten, with and without bounds and with one tolerance above   *)
(* the other.                                                              *)
(***************************************************************************)
EXTENDS PathReplacement, TargetLadderLoop

Path(sourceMin, sourceMax, autoMax, minimum, maximum, screen) ==
  [sourceMin |-> sourceMin, sourceMax |-> sourceMax, autoMax |-> autoMax,
   samples |-> 8, estimate |-> 2, tolerance |-> 1, screen |-> screen,
   prefer |-> screen = 0, minimum |-> minimum, maximum |-> maximum,
   reductionPercent |-> 20]

MCPaths ==
  {Path(16, 16, 9, 4, 0, 0), Path(15, 15, 8, 0, 12, 2), Path(20, 20, 4, 4, 0, 2),
   Path(8, 8, 4, 4, 6, 2), Path(12, 14, 5, 0, 0, 2), Path(6, 9, 5, 0, 0, 0),
   Path(6, 7, 7, 0, 0, 0), Path(5, 5, 3, 6, 0, 0)}

\* What the solver says only counts where the validation could not be made.
Checked == [count : 2 .. 3, converged : {FALSE}, err : {0}, checked : {TRUE},
            outline : 1 .. 3, sharp : BOOLEAN]
Unchecked == [count : 2 .. 3, converged : BOOLEAN, err : 1 .. 3,
              checked : {FALSE}, outline : {0}, sharp : BOOLEAN]
MCKeySolves == Checked \cup Unchecked
MCBaselineSolves == [count : 2 .. 3, converged : BOOLEAN, err : 1 .. 3,
                     checked : {FALSE}, outline : {0}, sharp : {TRUE}]
MCEstimates == 1 .. 2
------------------------------------------------------------------------------
MCInitials == -1 .. 7
MCSourceMins == 0 .. 8
MCOptions ==
  [minimum : {-1, 3}, maximum : {0, 5}, step : {0, 1, 2}, candidates : {0, 2, 3},
   top : BOOLEAN]

\* The loop builds the progression, and each of its targets is a reduction.
ASSUME LadderIsTheLoops ==
  \A initial \in MCInitials, sourceMin \in MCSourceMins, options \in MCOptions :
    /\ LoopTargets(initial, sourceMin, options)
         = ShapeFlatTargets(initial, sourceMin, options)
    /\ BoundedReduction(ShapeFlatTargets(initial, sourceMin, options),
                        initial, sourceMin, options)
==============================================================================
