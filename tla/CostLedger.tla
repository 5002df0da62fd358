----------------------------- MODULE CostLedger -----------------------------
(***************************************************************************)
(* The kernel's ledger (technocore/cost): what an instance is expected to  *)
(* have spent in each hour of a period, the provider's own figures for     *)
(* closed windows of it, and where the two stand against the limit.        *)
(*                                                                         *)
(* Times are hours, the ledger's buckets; money is in whole units.  The    *)
(* calibration factor is a quotient, so a total is kept as a numerator     *)
(* over CalibratedFrom.  Levels below the limit only warn and are left out.*)
(***************************************************************************)
EXTENDS Integers, FiniteSetsExt, Functions

CONSTANTS PeriodLength,  \* hours of an accounting period
          MaxTime,       \* bound: the last hour
          Usd,           \* the amounts the provider may report
          Limit          \* the instance's cost limit

ASSUME LedgerAssumption ==
    /\ PeriodLength \in Nat \ {0} /\ MaxTime \in Nat
    /\ Usd \subseteq Nat /\ Limit \in Nat \ {0}

Never == -1

Hour == 0 .. MaxTime

\* A confirmation of the half-open window [from, to).
Confirmation == {c \in [from : Hour, to : Hour, usd : Usd] : c.from < c.to}

\* since is history: the hour this ledger's accounts begin.
Ledger == [start : Hour, hourly : [Hour -> Nat], confirmed : SUBSET Confirmation,
           refused : SUBSET Confirmation, since : Hour \union {Never}]

\* PeriodFor and NewLedger.
PeriodStart(t) == t - (t % PeriodLength)

NewLedger(t) ==
    [start |-> PeriodStart(t), hourly |-> [h \in Hour |-> 0],
     confirmed |-> {}, refused |-> {}, since |-> Never]

PeriodEnd(l) == l.start + PeriodLength

\* Accrue a workload's rate for every hour of [from, to).
Accrue(l, from, to, rate) ==
    [l EXCEPT !.hourly = [h \in Hour |-> IF from <= h /\ h < to THEN @[h] + rate ELSE @[h]]]

ExpectedIn(l, from, to) ==
    SumFunctionOnSet(l.hourly, {h \in Hour : from <= h /\ h < to})

-----------------------------------------------------------------------------
(* Confirmations *)

\* A figure for a window the model says cost nothing has no ratio to refuse.
OutsideClamp(usd, expected) ==
    expected > 0 /\ (2 * usd < expected \/ usd > 2 * expected)

Refuses(l, c) == OutsideClamp(c.usd, ExpectedIn(l, c.from, c.to))

Overlaps(c, d) == c.from < d.to /\ d.from < c.to

\* Confirm, for each window of a document that neither belongs to another
\* period nor overlaps one already recorded.
Confirm(l, document) ==
    LET new == {c \in document : /\ l.start <= c.from /\ c.to <= PeriodEnd(l)
                                 /\ \A d \in l.confirmed : ~Overlaps(c, d)} IN
      [l EXCEPT !.confirmed = @ \union new,
                !.refused   = @ \union {c \in new : Refuses(l, c)}]

\* Restore rebuilds a ledger from its snapshot, which does not hold the
\* refusals: every confirmation is judged again.
Restored(l) == Confirm([l EXCEPT !.confirmed = {}, !.refused = {}], l.confirmed)

-----------------------------------------------------------------------------
(* Accrued *)

\* Mutant: a figure the clamp refuses is taken as it stands.
Counted_AsReported(l, c) == c.usd

\* Beyond the clamp the larger of the two figures counts.
Counted(l, c) ==
    LET expected == ExpectedIn(l, c.from, c.to) IN
      IF OutsideClamp(c.usd, expected) /\ expected > c.usd THEN expected ELSE c.usd

Calibrating(l) ==
    {c \in l.confirmed : ~Refuses(l, c) /\ ExpectedIn(l, c.from, c.to) > 0}

CalibratedFrom(l) ==
    IF Calibrating(l) = {} THEN 1
    ELSE SumFunction([c \in Calibrating(l) |-> ExpectedIn(l, c.from, c.to)])

CalibratedTo(l) ==
    IF Calibrating(l) = {} THEN 1 ELSE SumFunction([c \in Calibrating(l) |-> c.usd])

\* Expected spending no confirmation covers.
Unconfirmed(l) ==
    ExpectedIn(l, l.start, PeriodEnd(l))
      - SumFunction([c \in l.confirmed |-> ExpectedIn(l, c.from, c.to)])

\* The accrued total, times CalibratedFrom(l).
ScaledTotal(l) ==
    SumFunction([c \in l.confirmed |-> Counted(l, c)]) * CalibratedFrom(l)
      + (IF Unconfirmed(l) > 0 THEN Unconfirmed(l) ELSE 0) * CalibratedTo(l)

\* LevelReached, the only level that authorises stopping anything.
Reached(l) == ScaledTotal(l) >= Limit * CalibratedFrom(l)
=============================================================================
