----------------------------- MODULE Inspector -----------------------------
(***************************************************************************)
(* Shrike's violation table (shrike/internal/inspector): one row for each  *)
(* class of refused egress, and the alerts a refusal raises.  Whether the  *)
(* last alert of a class is younger than the alert window is an argument.  *)
(*                                                                         *)
(* Left out: the traffic statistics of what was allowed, which no decision *)
(* reads, the texts, and the delivery of an alert after the table's lock   *)
(* has been released.                                                      *)
(***************************************************************************)
EXTENDS Naturals

CONSTANT Burst         \* attempts that make a violation an incident

ASSUME BurstAssumption == Burst \in Nat \ {0}

Info == 1
Warning == 2
Critical == 3

NoRow == [count |-> 0, severity |-> 0, alerted |-> 0]

SeverityForReason(reason) ==
    CASE reason = "sni" -> Critical
      [] reason = "cleartext" -> Info
      [] OTHER -> Warning

Escalate(severity) == IF severity = Info THEN Warning ELSE Critical

\* What a class that was refused so often calls for.
SeverityOf(reason, count) ==
    IF count >= Burst THEN Escalate(SeverityForReason(reason)) ELSE SeverityForReason(reason)

\* Mutant: only the window decides whether a class is raised again.
Raises_Window(row, count, severity, fresh) == count = 1 \/ ~fresh

\* The first time, on any increase, or once the window has passed.
Raises(row, count, severity, fresh) == count = 1 \/ severity > row.severity \/ ~fresh

\* recordDeny: the row after one more refusal.
RecordDeny(row, reason, fresh) ==
    LET count == row.count + 1
        severity == SeverityOf(reason, count) IN
    [count |-> count, severity |-> severity,
     alerted |-> IF Raises(row, count, severity, fresh) THEN severity ELSE row.alerted]
=============================================================================
