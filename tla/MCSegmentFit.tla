----------------------------- MODULE MCSegmentFit -----------------------------
(***************************************************************************)
(* Segments of up to three samples of one unit, and of two samples of two  *)
(* subframes; every curve is, wherever it is measured, exact, off by less  *)
(* than the tolerance, beyond it, or beyond the gate as well.              *)
(***************************************************************************)
EXTENDS SegmentFit

Base ==
  [samples |-> 3, subframes |-> 1, accept |-> 1, screen |-> 1, gate |-> NoGate,
   screened |-> FALSE, hold |-> TRUE, linear |-> TRUE, bezier |-> TRUE,
   shapeBezier |-> FALSE, shapeFlat |-> FALSE, highDim |-> FALSE,
   fastSpatial |-> FALSE, degenerate |-> {}, parallel |-> FALSE]

OutlineCall == [Base EXCEPT !.shapeFlat = TRUE, !.shapeBezier = TRUE]

Settings ==
  {Base,
   [Base EXCEPT !.screened = TRUE],
   [Base EXCEPT !.bezier = FALSE],
   [Base EXCEPT !.hold = FALSE, !.degenerate = {"hermite", "ceres"}],
   [Base EXCEPT !.linear = FALSE, !.degenerate = {"hermite"}, !.fastSpatial = TRUE],
   [Base EXCEPT !.screened = TRUE, !.degenerate = {"ceres"}],
   [Base EXCEPT !.fastSpatial = TRUE],
   [OutlineCall EXCEPT !.highDim = TRUE, !.screened = TRUE],
   [OutlineCall EXCEPT !.parallel = TRUE],
   [OutlineCall EXCEPT !.gate = 3, !.screened = TRUE, !.highDim = TRUE],
   [OutlineCall EXCEPT !.gate = 2, !.linear = FALSE],
   [OutlineCall EXCEPT !.gate = 0]}

TwoSubframes(c) == [c EXCEPT !.samples = 2, !.subframes = 2]

\* An outline is seen by the screen as by the property.
Seen(c, e) == IF c.shapeFlat THEN [prop |-> e, screen |-> e]
              ELSE [prop |-> e \div 2, screen |-> e]

\* A call: its settings, and the errors of its curves at every unit; the eased
\* outline is measured at the first unit of every sample.
With(c, errors) ==
  LET at(which, k) == Seen(c, errors[which][k])
      first(k) == (k - 1) * c.subframes + 1
  IN [name \in DOMAIN c \cup {"err"} |->
        IF name # "err" THEN c[name]
        ELSE [which \in Curves |->
                IF which = "shape" THEN [k \in 1 .. c.samples |-> at("shape", first(k))]
                ELSE [k \in 1 .. c.samples * c.subframes |-> at(which, k)]]]

Errors(hold, linear, shape, hermite, ceres) ==
  [hold |-> hold, linear |-> linear, shape |-> shape, hermite |-> hermite,
   ceres |-> ceres]

Flat(e) == [k \in 1 .. 4 |-> e]
Bad == Flat(4)
Errs == {<<a, b, c, 0>> : a \in {0, 1, 2, 4}, b \in {0, 1, 2, 4}, c \in {0, 1, 2, 4}}

MCCalls ==
  {With(c, Errors(hold, linear, Bad, <<2, 4, 4, 4>>, Flat(0))) :
     c \in Settings, hold \in {Bad, <<0, 1, 1, 1>>, <<0, 2, 0, 0>>}, linear \in Errs}
  \cup {With(c, Errors(Bad, <<0, 2, 0, 0>>, shape, hermite, <<1, 2, 0, 0>>)) :
          c \in Settings, shape \in {Bad, Flat(1)}, hermite \in Errs}
  \cup {With(TwoSubframes(c), Errors(Bad, linear, shape, <<0, 2, 4, 0>>, ceres)) :
          c \in Settings, linear \in {<<0, 1, 1, 0>>, <<0, 4, 1, 0>>},
          shape \in {Flat(1), <<0, 2, 0, 0>>, <<0, 0, 4, 0>>},
          ceres \in {Flat(1), <<0, 0, 0, 2>>}}
  \cup {With([Base EXCEPT !.samples = s], Errors(Bad, Bad, Bad, Bad, Bad)) :
          s \in 0 .. 2}
==============================================================================
