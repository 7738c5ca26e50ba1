------------------------------ MODULE KeyCleanup ------------------------------
(***************************************************************************)
(* One property from its samples to its final keys: the still end of the   *)
(* clip is cut off, a route places keys on what is left, and three steps   *)
(* then look for keys to spare.  Runs of equal keys are collapsed, keys    *)
(* inside the still end give way to one that holds, and a temporal refit   *)
(* solves the keys' own motion again for fewer of them.  Each step works   *)
(* on a copy, measures it against the samples of the whole clip, and       *)
(* leaves the keys alone if the copy is worse than it may be.              *)
(***************************************************************************)
EXTENDS SampleKeys

CONSTANTS
  Clips,     \* the properties explored
  Smoothed   \* what motion smoothing may return for a clip

Routes == {"plain", "frames", "preserve", "smooth"}

\* Samples, or keys, one after the other in time.
MoveForward(ks) == \A i \in 2 .. Len(ks) : ks[i - 1].t < ks[i].t

\* sourceTimes are sorted, each there once; pixels: screen error per unit of a
\* value, 0 when no screen gate is set.
IsClip(c) ==
  /\ c.samples \in Seq(Sample) /\ Len(c.samples) > 0 /\ MoveForward(c.samples)
  /\ c.tolerance \in Nat /\ c.pixels \in Nat /\ c.screen \in Nat
  /\ c.route \in Routes /\ c.shape \in BOOLEAN /\ c.custom \in BOOLEAN
  /\ c.subframes \in BOOLEAN
  /\ c.sourceTimes \in Seq(Nat)
  /\ \A i \in 2 .. Len(c.sourceTimes) : c.sourceTimes[i - 1] < c.sourceTimes[i]

\* moved: what smoothing reports, its own displacement and no error.
IsSmoothing(s) ==
  /\ s.keys \in Seq(Key) /\ MoveForward(s.keys)
  /\ s.moved \in Nat /\ s.converged \in BOOLEAN

ASSUME ClipsAssumption == \A c \in Clips : IsClip(c)
ASSUME SmoothedAssumption ==
  \A c \in Clips : c.route = "smooth" => \A s \in Smoothed[c] : IsSmoothing(s)

VARIABLES
  clip,        \* the property
  step,        \* the step it has come to
  solved,      \* the samples the route is given
  keys,        \* its keys so far
  reported,    \* their max_err
  screened,    \* and max_err_screen_px
  converged,
  routed,      \* keys and max_err as the route left them
  candidate,   \* what the refit placed
  cancelFile   \* what the cancel function would answer

state == <<solved, keys, reported, screened, converged, routed>>
cleanupVars == <<clip, step, state, candidate, cancelFile>>

NoKeys == [keys |-> <<>>, reported |-> 0]

CleanupInit ==
  /\ clip \in Clips
  /\ step = "trim" /\ solved = clip.samples
  /\ keys = <<>> /\ reported = 0 /\ screened = 0 /\ converged = FALSE
  /\ routed = NoKeys /\ candidate = <<>> /\ cancelFile = FALSE

-----------------------------------------------------------------------------
(***************************************************************************)
(* Before and in the route.                                                *)
(***************************************************************************)
UsesMotionSmoothing == clip.route = "smooth"
Boundary == FindFinalStaticSuffixStartSample(clip.samples)
Trims == ~UsesMotionSmoothing /\ Boundary # 0

Trim ==
  /\ step = "trim" /\ step' = "route"
  /\ solved' = IF Trims
               THEN TrimSamplesAfterTime(clip.samples, clip.samples[Boundary].t)
               ELSE clip.samples
  /\ UNCHANGED <<clip, keys, reported, screened, converged, routed, candidate,
                 cancelFile>>

\* A key of a placement: it takes its interpolation from the segments it joins.
PlacedKey(samples, chain, kinds, i) ==
  [t |-> samples[chain[i]].t, v |-> samples[chain[i]].v,
   n |-> samples[chain[i]].n, arc |-> 0,
   in |-> IF i = 1 THEN "bezier" ELSE kinds[i - 1],
   out |-> IF i = Len(chain) THEN "bezier" ELSE kinds[i]]

AssembleKeys(samples, chain, kinds) ==
  [i \in 1 .. Len(chain) |-> PlacedKey(samples, chain, kinds, i)]

WithinOfFirst(samples, c) ==
  \A i \in 1 .. Len(samples) : Abs(samples[i].v - samples[1].v) <= c

ConstantKey(samples) == AssembleKeys(samples, <<1>>, <<>>)

\* The chains of samples from the first to the last of n.
Chains(n) ==
  UNION {{chain \in [1 .. k -> 1 .. n] :
            /\ chain[1] = 1 /\ chain[k] = n
            /\ \A i \in 2 .. k : chain[i - 1] < chain[i]} : k \in 2 .. n}

\* What SolveProperty may return: one key for samples that stay within
\* tolerance of the first, else the keys of a chain within tolerance.
Placements(samples, tolerance) ==
  IF Len(samples) = 1 \/ WithinOfFirst(samples, tolerance)
  THEN {ConstantKey(samples)}
  ELSE {ks \in UNION {{AssembleKeys(samples, chain, kinds) :
                         kinds \in [1 .. Len(chain) - 1 -> Interps]} :
                        chain \in Chains(Len(samples))} :
          ValidateKeys(samples, ks) <= tolerance}

PlacementError(samples, ks) ==
  IF Len(ks) = 1 THEN 0 ELSE ValidateKeys(samples, ks)

\* The screen error of an error: that of an outline is the same number.
ScreenErr(err) == IF clip.shape THEN err ELSE clip.pixels * err

Routed(ks, err, screenErr, ok) ==
  /\ keys' = ks /\ reported' = err /\ screened' = screenErr /\ converged' = ok
  /\ routed' = [keys |-> ks, reported |-> err]

PlainTemporal ==
  /\ clip.route = "plain"
  /\ \E ks \in Placements(solved, clip.tolerance) :
       Routed(ks, PlacementError(solved, ks),
              ScreenErr(PlacementError(solved, ks)), TRUE)

FrameKeyFallback ==
  /\ clip.route = "frames"
  /\ LET r == IF clip.shape THEN ShapeFlatFrameKeyFallback(solved)
              ELSE RawFrameKeyFallback(solved)
     IN  Routed(r.keys, r.reported, 0, r.converged)

\* The keys were made, and measured, before the still end was cut off.
PreserveSourceKeys ==
  /\ clip.route = "preserve"
  /\ LET ks == BuildShapeFlatSourceKeyPreservationKeys(clip.samples,
                                                       clip.sourceTimes)
     IN  /\ Len(ks) >= 2 /\ ValidateKeys(clip.samples, ks) <= clip.tolerance
         /\ Routed(ks, ValidateKeys(clip.samples, ks),
                   ValidateKeys(clip.samples, ks), TRUE)

MotionSmooth ==
  /\ clip.route = "smooth"
  /\ \E s \in Smoothed[clip] : Routed(s.keys, s.moved, s.moved, s.converged)

Route ==
  /\ step = "route" /\ step' = "mark"
  /\ PlainTemporal \/ FrameKeyFallback \/ PreserveSourceKeys \/ MotionSmooth
  /\ UNCHANGED <<clip, solved, candidate, cancelFile>>

\* Keys of a trimmed clip hold their last value.
ApplyFinalStaticTrimNote ==
  /\ step = "mark" /\ step' = "collapse"
  /\ keys' = IF Trims /\ keys # <<>> THEN [keys EXCEPT ![Len(keys)].out = "hold"]
             ELSE keys
  /\ UNCHANGED <<clip, solved, reported, screened, converged, routed, candidate,
                 cancelFile>>

-----------------------------------------------------------------------------
(***************************************************************************)
(* CollapseRedundantStaticKeyRuns.                                         *)
(***************************************************************************)
Equal(a, b) == a.v = b.v /\ a.n = b.n

\* The run of equal keys around key i.
RunStart(ks, i) ==
  Max({j \in 1 .. i : j = 1 \/ ~Equal(ks[j - 1], ks[j])})
RunEnd(ks, i) ==
  Min({j \in i .. Len(ks) : j = Len(ks) \/ ~Equal(ks[j], ks[j + 1])})
RunLength(ks, i) == RunEnd(ks, i) - RunStart(ks, i) + 1

\* A run keeps its ends, the last run of the keys its first key only.
InSuffixRun(ks, i) == RunEnd(ks, i) = Len(ks) /\ RunLength(ks, i) > 1
Shortened(ks, i) == InSuffixRun(ks, i) \/ RunLength(ks, i) > 2
Spare(ks, i) ==
  /\ Shortened(ks, i) /\ i # RunStart(ks, i)
  /\ i # RunEnd(ks, i) \/ InSuffixRun(ks, i)

HeldAcrossRun(ks, i) ==
  [ks[i] EXCEPT
     !.out = IF Shortened(ks, i) /\ i = RunStart(ks, i) THEN "hold" ELSE @,
     !.in = IF Shortened(ks, i) /\ i # RunStart(ks, i) THEN "hold" ELSE @]

CollapsedRuns(ks) ==
  Those([i \in 1 .. Len(ks) |-> HeldAcrossRun(ks, i)],
        {i \in 1 .. Len(ks) : ~Spare(ks, i)})

\* Both errors against both the keys carry.
NoWorseThanReported(ks) ==
  /\ ValidateKeys(clip.samples, ks) <= reported
  /\ ScreenErr(ValidateKeys(clip.samples, ks)) <= screened

Replaced(ks) ==
  /\ keys' = ks /\ reported' = ValidateKeys(clip.samples, ks)
  /\ screened' = ScreenErr(ValidateKeys(clip.samples, ks))

CollapseRedundantStaticKeyRuns ==
  /\ step = "collapse" /\ step' = "anchor"
  /\ LET ks == CollapsedRuns(keys)
     IN  IF converged /\ Len(ks) < Len(keys) /\ NoWorseThanReported(ks)
         THEN Replaced(ks)
         ELSE UNCHANGED <<keys, reported, screened>>
  /\ UNCHANGED <<clip, solved, converged, routed, candidate, cancelFile>>

-----------------------------------------------------------------------------
(***************************************************************************)
(* AnchorFinalStaticBoundary.                                              *)
(***************************************************************************)
\* The keys before the boundary, and the last key moved there to hold.
BoundaryAnchor(t) ==
  [Back(keys) EXCEPT !.t = t, !.out = "hold", !.arc = 0]
AnchoredAfter(t) ==
  Those(keys, {i \in 1 .. Len(keys) : keys[i].t <= t}) \o <<BoundaryAnchor(t)>>
AnchoredAt(t) ==
  Those(keys, {i \in 1 .. Len(keys) : keys[i].t < t}) \o <<BoundaryAnchor(t)>>

ScreenWithin(err) == clip.pixels > 0 => ScreenErr(err) <= clip.screen
WithinBudget(err) == err <= clip.tolerance /\ ScreenWithin(err)

AnchorFinalStaticBoundary ==
  /\ step = "anchor" /\ step' = "refit"
  /\ IF /\ converged /\ Len(keys) >= 2 /\ Boundary # 0
        /\ Back(keys).t > clip.samples[Boundary].t
        /\ WithinBudget(ValidateKeys(clip.samples,
                                     AnchoredAt(clip.samples[Boundary].t)))
     THEN Replaced(AnchoredAt(clip.samples[Boundary].t))
     ELSE UNCHANGED <<keys, reported, screened>>
  /\ UNCHANGED <<clip, solved, converged, routed, candidate, cancelFile>>

-----------------------------------------------------------------------------
(***************************************************************************)
(* TryTemporalRefitKeyReduction.                                           *)
(***************************************************************************)
AllowsTemporal == clip.route = "plain"   \* frames: vertex_only, smooth: motion

PipelineAllowsTemporalRefit ==
  /\ AllowsTemporal /\ (clip.shape \/ ~clip.custom)
  /\ ~clip.subframes /\ converged /\ Len(keys) >= 3

Topology(k) == k.n
StableTopology(ks) ==
  \A i \in 1 .. Len(ks) : ks[i].n > 0 /\ Topology(ks[i]) = Topology(ks[1])

EndsOfClip(ks) ==
  Front(ks).t = Front(clip.samples).t /\ Back(ks).t = Back(clip.samples).t

SpansClip(ks) == EndsOfClip(ks)

Eligible ==
  /\ Len(clip.samples) >= 2 /\ SpansClip(keys)
  /\ clip.shape => /\ \A i \in 1 .. Len(clip.samples) : WellFormed(clip.samples[i])
                   /\ StableTopology(keys)

SkipRefit ==
  /\ step = "refit" /\ step' = "done"
  /\ ~PipelineAllowsTemporalRefit \/ (~cancelFile /\ ~Eligible)
  /\ UNCHANGED <<clip, state, candidate, cancelFile>>

BeginRefit ==
  /\ step = "refit" /\ step' = "solve"
  /\ PipelineAllowsTemporalRefit /\ ~cancelFile /\ Eligible
  /\ UNCHANGED <<clip, state, candidate, cancelFile>>

\* The motion of the keys at the times of the samples.
ResampleAcceptedAtSourceTimes ==
  [i \in 1 .. Len(clip.samples) |->
     [clip.samples[i] EXCEPT !.v = EvalKeysAt(keys, clip.samples[i].t),
                             !.n = keys[1].n]]

\* A single key cannot span the clip.
TwoEndpointCandidate(samples) ==
  AssembleKeys(samples, <<1, Len(samples)>>, <<"linear">>)
Spanning(samples, ks) == IF Len(ks) = 1 THEN TwoEndpointCandidate(samples) ELSE ks

SolveRefit ==
  /\ step = "solve" /\ ~cancelFile /\ step' = "validate"
  /\ LET resampled == ResampleAcceptedAtSourceTimes
     IN  \E ks \in Placements(resampled, clip.tolerance) :
           candidate' = Spanning(resampled, ks)
  /\ UNCHANGED <<clip, state, cancelFile>>

RefitErrorOfMotion(ks) == ValidateKeys(ResampleAcceptedAtSourceTimes, ks)
RefitError(ks) == ValidateKeys(clip.samples, ks)

FewerKeys(ks) == Len(ks) < Len(keys)

\* An outline has no gate on the screen.
RefitWithinBudget(err) ==
  err <= clip.tolerance /\ (~clip.shape => ScreenWithin(err))

ValidateRefit ==
  /\ step = "validate" /\ ~cancelFile /\ step' = "done"
  /\ IF FewerKeys(candidate) /\ RefitWithinBudget(RefitError(candidate))
     THEN Replaced(candidate)
     ELSE UNCHANGED <<keys, reported, screened>>
  /\ UNCHANGED <<clip, solved, converged, routed, candidate, cancelFile>>

\* Polled at the entry, after resampling, while and after the motion is solved,
\* and by the caller before it takes the result.
CancelRefit ==
  /\ cancelFile
  /\ \/ step = "refit" /\ PipelineAllowsTemporalRefit
     \/ step \in {"solve", "validate"}
  /\ step' = "cancelled"
  /\ UNCHANGED <<clip, state, candidate, cancelFile>>

HostCancels ==
  /\ step \in {"refit", "solve", "validate"} /\ ~cancelFile /\ cancelFile' = TRUE
  /\ UNCHANGED <<clip, step, state, candidate>>

CleanupNext ==
  \/ Trim \/ Route \/ ApplyFinalStaticTrimNote
  \/ CollapseRedundantStaticKeyRuns \/ AnchorFinalStaticBoundary
  \/ SkipRefit \/ BeginRefit \/ SolveRefit \/ ValidateRefit \/ CancelRefit
  \/ HostCancels

CleanupSpec == CleanupInit /\ [][CleanupNext]_cleanupVars

-----------------------------------------------------------------------------
(***************************************************************************)
(* What the steps promise.                                                 *)
(***************************************************************************)
Error == ValidateKeys(clip.samples, keys)

\* Whatever the steps take away, the clip is no further from its samples than
\* the tolerance allows or the route had left it.
CleanupStaysWithin ==
  step = "done" /\ converged /\ routed.keys # <<>> =>
    Error <= Max({clip.tolerance, routed.reported,
                  ValidateKeys(clip.samples, routed.keys)})

\* If the route told the error of its keys on the samples it was given, the
\* property tells the error of its final keys on the whole clip, including the
\* still end no route has seen.
ReportStaysTrue ==
  step = "done" /\ routed.keys # <<>>
    /\ ValidateKeys(solved, routed.keys) <= routed.reported
    => Error <= reported

\* Keys stay in the order of time, one at a time.
KeysMoveForward == MoveForward(keys)
==============================================================================
