------------------------------ MODULE Sampling ------------------------------
(* sample_points of coingecko/models.py: a long series is cut down to        *)
(* max_points, so that the model's context stays small.                      *)
EXTENDS Integers, Sequences

Smaller(a, b) == IF a < b THEN a ELSE b
Larger(a, b) == IF a < b THEN b ELSE a

(* points[::step] *)
EveryNth(points, step) ==
    [i \in 1..(Len(points) + step - 1) \div step |-> points[(i - 1) * step + 1]]

(* The step: len(points) // max_points, but 1 at least. *)
Step(n, max) == Larger(1, n \div max)

(* points[::step][:max_points] *)
Truncated(points, max) ==
    LET every == EveryNth(points, Step(Len(points), max))
    IN SubSeq(every, 1, Smaller(max, Len(every)))

(* Mutant: the last point is lost in the cut. *)
SamplePointsCut(points, max) ==
    IF max <= 0 \/ Len(points) <= max THEN points ELSE Truncated(points, max)

(* The last place is given to the series' last point. *)
SamplePoints(points, max) ==
    IF max <= 0 \/ Len(points) <= max
    THEN points
    ELSE LET sampled == Truncated(points, max)
         IN [sampled EXCEPT ![Len(sampled)] = points[Len(points)]]
=============================================================================
