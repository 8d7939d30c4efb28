------------------------------- MODULE Range -------------------------------
(***************************************************************************)
(* scan.go: how -from, -last and -to (0 when absent) name a range of       *)
(* momentums, given the tip of the chain at that moment.  What a scan      *)
(* (Scan) and the run key of an airdrop (Campaign) are derived from.       *)
(***************************************************************************)
EXTENDS Integers

\* Mutant: -to is left aside when -last names the range.
EndOfLastAtTip(f, tip) == IF f.to > 0 /\ f.last = 0 THEN f.to ELSE tip

EndOf(f, tip) == IF f.to > 0 THEN f.to ELSE tip

\* Mutant: one momentum too many.
StartOneEarly(f, tip) ==
  IF f.from > 0 THEN f.from
  ELSE IF f.last >= EndOf(f, tip) THEN 1
  ELSE EndOf(f, tip) - f.last

StartOf(f, tip) ==
  IF f.from > 0 THEN f.from
  ELSE IF f.last >= EndOf(f, tip) THEN 1
  ELSE EndOf(f, tip) - f.last + 1

Resolvable(f, tip) ==
  /\ f.to <= tip
  /\ f.from > 0 \/ f.last > 0
  /\ StartOf(f, tip) <= EndOf(f, tip)
=============================================================================
