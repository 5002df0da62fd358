-------------------------------- MODULE Usage --------------------------------
(***************************************************************************)
(* What the kernel has seen an application use (technocore/usage) and what *)
(* it would therefore reserve for it (technocore/adapt).                   *)
(*                                                                         *)
(* A profile is a window of hourly slots; a slot's histogram is kept as    *)
(* its peak, and a window is thin when it has too few slots.  One resource *)
(* is modelled, memory, sized from the peak; CPU is sized from a quantile  *)
(* by the same rules and moves in the same patch.  Left out: trimming the  *)
(* stored document to its byte budget, and the billing floor.              *)
(***************************************************************************)
EXTENDS Integers, FiniteSetsExt

CONSTANTS UsageHours,  \* hours a profile retains
          MinSlots,    \* fewest slots anything is sized from
          MinSize      \* smallest reservation that is recommended

ASSUME UsageAssumption ==
    UsageHours \in Nat \ {0} /\ MinSlots \in Nat \ {0} /\ MinSize \in Nat \ {0}

\* Before the first reading there is no profile.
NoProfile == [slots |-> {}, request |-> 0]

\* Series.Window, and what evict keeps.
Within(slots, now) == {s \in slots : now - UsageHours < s.hour /\ s.hour <= now}

\* Histogram.Sample, of which the exact peak is kept.
PeakWith(slots, level) == Max({level} \union {s.peak : s \in slots})

\* Histogram.Merge.
PeakOf(slots) == Max({s.peak : s \in slots})

\* Series.Sample: into this hour's slot, or a new one that pushes out the old.
Sample(slots, now, level) ==
    LET this == {s \in slots : s.hour = now} IN
      Within(slots \ this, now) \union {[hour |-> now, peak |-> PeakWith(this, level)]}

\* Store.Record: one reading, beside what the pod reserved at the time.
Recorded(p, now, level, request) ==
    [request |-> request, slots |-> Sample(p.slots, now, level)]

\* Store.Forget: a profile goes once nothing was seen for a whole window.
Remembered(p, now) ==
    IF \A s \in p.slots : s.hour < now - UsageHours THEN NoProfile ELSE p

Thin(slots) == Cardinality(slots) < MinSlots

-----------------------------------------------------------------------------
(* adapt.Recommend: half again the peak, at most a factor of two away from *)
(* the reservation, and not for less than a quarter of it.                 *)

CeilHalf(n) == (n + 1) \div 2

ScaleUp(observed) == Max({CeilHalf(3 * observed), MinSize})

Step(current, target) ==
    LET lower == Max({CeilHalf(current), MinSize}) IN
      IF target > 2 * current THEN 2 * current
      ELSE IF target < lower THEN lower ELSE target

OutsideDeadband(current, target) ==
    4 * (IF target > current THEN target - current ELSE current - target) > current

\* Summarize, for the window the profile retains.
Day(p, now) == Within(p.slots, now)

\* What to reserve instead; {} to leave the reservation as it is.
Recommend(p, now) ==
    LET seen == Day(p, now) IN
      IF p.request = 0 \/ Thin(seen) THEN {}
      ELSE {t \in {Step(p.request, ScaleUp(PeakOf(seen)))} : OutsideDeadband(p.request, t)}
==============================================================================
