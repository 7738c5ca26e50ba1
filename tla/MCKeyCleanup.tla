---------------------------- MODULE MCKeyCleanup ----------------------------
(***************************************************************************)
(* Clips of up to five samples, a frame apart (four ticks), under a        *)
(* tolerance of four.  Every motion over three positions is solved; frame  *)
(* keys, preserved keys and smoothed keys are taken of fewer.              *)
(***************************************************************************)
EXTENDS KeyCleanup

Positions == {0, 4, 8}
Motions(n) == [1 .. n -> Positions]

ClipOf(motion, route) ==
  [samples |-> [i \in 1 .. Len(motion) |->
                  [t |-> 4 * (i - 1), v |-> motion[i], n |-> 1,
                   timing |-> "none"]],
   tolerance |-> 4, pixels |-> 0, screen |-> 0, route |-> route,
   shape |-> FALSE, custom |-> FALSE, subframes |-> FALSE,
   sourceTimes |-> <<>>]

Outline(c, kept, timing) ==
  [c EXCEPT !.shape = TRUE, !.custom = TRUE, !.sourceTimes = kept,
            !.samples = [i \in 1 .. Len(@) |->
                           [@[i] EXCEPT !.n = 4, !.timing = timing]]]

Broken(c) == [c EXCEPT !.samples[2].n = 0]

MCClips ==
  {ClipOf(m, "plain") : m \in UNION {Motions(n) : n \in 1 .. 4}}
  \cup {[ClipOf(m, "plain") EXCEPT !.tolerance = 5, !.pixels = 2, !.screen = 8] :
          m \in Motions(4)}
  \cup {Outline([ClipOf(m, "plain") EXCEPT !.pixels = pixels, !.screen = 2], <<>>, "none") :
          m \in Motions(3), pixels \in {0, 1}}
  \cup {[ClipOf(m, "plain") EXCEPT !.subframes = TRUE] : m \in Motions(3)}
  \cup {ClipOf(m, "plain") :
          m \in {<<0, 4, 8, 8, 8>>, <<0, 8, 0, 4, 8>>, <<0, 4, 4, 4, 8>>,
                 <<0, 4, 8, 4, 0>>, <<0, 0, 4, 8, 8>>}}
  \cup {Outline(ClipOf(m, "frames"), <<>>, timing) :
          m \in Motions(4), timing \in {"none", "hold", "bezier"}}
  \cup {Broken(Outline(ClipOf(m, "frames"), <<>>, "none")) : m \in Motions(3)}
  \cup {ClipOf(m, "frames") : m \in Motions(4)}
  \cup {Outline(ClipOf(m, "preserve"), times, timing) :
          m \in Motions(5), timing \in {"none", "bezier"},
          times \in {<<0, 8, 16>>, <<0, 5, 9, 16>>, <<0, 8, 12>>}}
  \cup {[ClipOf(m, "smooth") EXCEPT !.pixels = pixels, !.screen = 4] :
          m \in Motions(4) \cup Motions(1), pixels \in {0, 2}}

\* Smoothing keeps the ends, moves the keys between them and may bend the way;
\* it reports less than their error, or more.  One sample gets no keys.
SmoothKey(c, i, v, arc) ==
  [t |-> c.samples[i].t, v |-> v, n |-> 1, arc |-> arc,
   in |-> "bezier", out |-> "bezier"]

Spans(c) ==
  {<<SmoothKey(c, 1, c.samples[1].v, arc),
     SmoothKey(c, 2, second, 0), SmoothKey(c, 3, third, -arc),
     SmoothKey(c, 4, c.samples[4].v, 0)>> :
     second \in Positions, third \in Positions, arc \in {0, 6}}
  \cup {<<SmoothKey(c, 1, c.samples[1].v, arc),
          SmoothKey(c, 4, c.samples[4].v, 0)>> : arc \in {0, 6}}

MCSmoothed ==
  [c \in MCClips |->
     IF c.route # "smooth" THEN {}
     ELSE IF Len(c.samples) = 1
     THEN {[keys |-> <<>>, moved |-> 0, converged |-> TRUE]}
     ELSE {[keys |-> ks, moved |-> moved, converged |-> TRUE] :
             moved \in {0, 4, 12}, ks \in Spans(c)}]
=============================================================================
