-------------------------------- MODULE Scan --------------------------------
(***************************************************************************)
(* scan.go, with the parts of main.go and scanlog.go that use it: how the  *)
(* range is resolved against a growing chain, how its momentums are        *)
(* fetched in batches and folded into a list of users, how the list is     *)
(* narrowed to recipients and logged, and how a logged scan is verified by *)
(* scanning its range again.  The chain's momentums never change.          *)
(***************************************************************************)
EXTENDS Range, Sequences, FiniteSets, SequencesExt

CONSTANTS
  Users,        \* user addresses; numbers, in the order of their strings
  Contracts,    \* embedded contracts
  Self,         \* the address that pays
  Histories,    \* for each height, the account blocks of its momentum
  MaxHeight,    \* bound: how far the chain grows
  LightBatch,   \* momentums per call (1024)
  DetailBatch   \* the same with block bodies (100)

Zero == 0
Addresses == Users \union Contracts \union {Zero}
Block == [by : Users \union Contracts, to : Addresses]

\* An address is twenty bytes, so there are finitely many.
ASSUME ScanAssumption ==
  /\ Users \subseteq Nat \ {0} /\ Contracts \subseteq Nat \ {0}
  /\ IsFiniteSet(Users) /\ IsFiniteSet(Contracts) /\ Users \intersect Contracts = {}
  /\ Self \in Users
  /\ MaxHeight \in Nat \ {0}
  /\ Histories \subseteq [1 .. MaxHeight -> SUBSET Block]
  /\ LightBatch \in Nat \ {0} /\ DetailBatch \in Nat \ {0}

VARIABLES
  history,     \* the momentums, those to come included
  tip,         \* how many there are by now
  phase,       \* "idle", or where the command is
  asked,       \* the flags of the command
  lo, hi,      \* the range being scanned
  height,      \* the next momentum to fetch
  request,     \* the id of the next call of the scan, modulo 2
  found,       \* the users seen
  totals,      \* momentums, blocks and contract blocks counted
  recipients,  \* the list handed to the airdrop, once it is made
  log,         \* the log of the last scan, or NoLog
  outcome,     \* how the command ended
  cutShort     \* has the node ever answered less than it was asked?

scanVars == <<lo, hi, height, request, found, totals>>
vars == <<history, tip, phase, asked, scanVars, recipients, log, outcome, cutShort>>

\* -from, -last, -to (0 when absent), -include-recipients, -exclude-self, and
\* whether the range is to be read from the log instead, by -verify-scan.
Flags == [from : 0 .. MaxHeight + 1, last : 0 .. MaxHeight + 1, to : 0 .. MaxHeight + 1,
          include : BOOLEAN, excludeSelf : BOOLEAN, verify : BOOLEAN]
NoFlags == [from |-> 0, last |-> 0, to |-> 0,
            include |-> FALSE, excludeSelf |-> FALSE, verify |-> FALSE]

Totals == [momentums : Nat, blocks : Nat, contracts : Nat]
NoTotals == [momentums |-> 0, blocks |-> 0, contracts |-> 0]
NoLog == [lo |-> 0, hi |-> 0, include |-> FALSE, addresses |-> <<>>]

\* The values a scan works with; only user addresses are ever found or listed.
TypeOK ==
  /\ history \in Histories
  /\ tip \in 1 .. MaxHeight
  /\ phase \in {"idle", "scan", "found", "listed"}
  /\ asked \in Flags
  /\ lo \in 0 .. MaxHeight /\ hi \in 0 .. MaxHeight /\ height \in 0 .. MaxHeight + 1
  /\ request \in {0, 1}
  /\ found \subseteq Users
  /\ totals \in Totals
  /\ recipients \in Seq(Users)
  /\ log.addresses \in Seq(Users)
  /\ outcome \in {"none", "refused", "error", "empty", "listed", "reproduced", "different"}
  /\ cutShort \in BOOLEAN

Init ==
  /\ history \in Histories
  /\ tip \in 1 .. MaxHeight
  /\ phase = "idle" /\ asked = NoFlags
  /\ lo = 0 /\ hi = 0 /\ height = 0 /\ request = 0
  /\ found = {} /\ totals = NoTotals
  /\ recipients = <<>> /\ log = NoLog
  /\ outcome = "none" /\ cutShort = FALSE

-----------------------------------------------------------------------------
(* ResolveRange, and the range of a log *)

BeginScan(from, to) ==
  /\ from <= to
  /\ lo' = from /\ hi' = to /\ height' = from /\ request' = 0
  /\ found' = {} /\ totals' = NoTotals
  /\ phase' = "scan" /\ outcome' = "none"

ScanCommand(f) ==
  /\ phase = "idle"
  /\ ~f.verify
  /\ Resolvable(f, tip)
  /\ BeginScan(StartOf(f, tip), EndOf(f, tip))
  /\ asked' = f
  /\ UNCHANGED <<history, tip, recipients, log, cutShort>>

RefusedCommand(f) ==
  /\ phase = "idle"
  /\ ~f.verify
  /\ ~Resolvable(f, tip)
  /\ outcome' = "refused"
  /\ UNCHANGED <<history, tip, phase, asked, scanVars, recipients, log, cutShort>>

\* Mutant: the log's -include-recipients is not applied.
VerifyPlain ==
  /\ phase = "idle"
  /\ log # NoLog
  /\ BeginScan(log.lo, log.hi)
  /\ asked' = [NoFlags EXCEPT !.verify = TRUE]
  /\ UNCHANGED <<history, tip, recipients, log, cutShort>>

VerifyCommand ==
  /\ phase = "idle"
  /\ log # NoLog
  /\ BeginScan(log.lo, log.hi)
  /\ asked' = [NoFlags EXCEPT !.include = log.include, !.verify = TRUE]
  /\ UNCHANGED <<history, tip, recipients, log, cutShort>>

-----------------------------------------------------------------------------
(* Scan and scanBatch *)

Batch == IF asked.include THEN DetailBatch ELSE LightBatch

\* Mutant: the range taken as half open.
CountHalfOpen == IF hi - height < Batch THEN hi - height ELSE Batch

Count == IF hi - height + 1 < Batch THEN hi - height + 1 ELSE Batch

\* The blocks of some momentums, each with its height.
BlocksOf(heights) == UNION {{m} \X history[m] : m \in heights}

\* The addresses a block brings up, and the users among them.
Named(b) == IF asked.include THEN {b.by, b.to} ELSE {b.by}

\* Mutant: the zero address a receive is `to' passes for a user.
UsersAndZero(blocks) == (UNION {Named(p[2]) : p \in blocks}) \ Contracts

UsersIn(blocks) == (UNION {Named(p[2]) : p \in blocks}) \ (Contracts \union {Zero})

\* Mutant: blocks sent to a contract count as well, with or without bodies.
ContractHitsBothEnds(blocks) ==
  Cardinality({p \in blocks : p[2].by \in Contracts})
  + Cardinality({p \in blocks : p[2].to \in Contracts})

ContractHits(blocks) ==
  Cardinality({p \in blocks : p[2].by \in Contracts})
  + Cardinality({p \in blocks : asked.include /\ p[2].to \in Contracts})

\* Mutants: the height moves on by what was asked for, not by what came; no
\* reply is final before the range is through.
FoldAsAsked(got) ==
  LET blocks == BlocksOf(height .. height + got - 1)
  IN  /\ found' = found \union UsersIn(blocks)
      /\ totals' = [momentums |-> totals.momentums + got,
                    blocks |-> totals.blocks + Cardinality(blocks),
                    contracts |-> totals.contracts + ContractHits(blocks)]
      /\ height' = height + Count
      /\ phase' = IF got = 0 \/ height' > hi THEN "found" ELSE "scan"
      /\ request' = IF phase' = "scan" THEN 1 - request ELSE 0
      /\ UNCHANGED <<history, tip, asked, lo, hi, recipients, log, outcome>>

FoldOnAndOn(got) ==
  LET blocks == BlocksOf(height .. height + got - 1)
  IN  /\ found' = found \union UsersIn(blocks)
      /\ totals' = [momentums |-> totals.momentums + got,
                    blocks |-> totals.blocks + Cardinality(blocks),
                    contracts |-> totals.contracts + ContractHits(blocks)]
      /\ height' = height + got
      /\ phase' = IF height' > hi THEN "found" ELSE "scan"
      /\ request' = IF phase' = "scan" THEN 1 - request ELSE 0
      /\ UNCHANGED <<history, tip, asked, lo, hi, recipients, log, outcome>>

Fold(got) ==
  LET blocks == BlocksOf(height .. height + got - 1)
  IN  /\ found' = found \union UsersIn(blocks)
      /\ totals' = [momentums |-> totals.momentums + got,
                    blocks |-> totals.blocks + Cardinality(blocks),
                    contracts |-> totals.contracts + ContractHits(blocks)]
      /\ height' = height + got
      /\ phase' = IF got = 0 \/ height' > hi THEN "found" ELSE "scan"
      /\ request' = IF phase' = "scan" THEN 1 - request ELSE 0
      /\ UNCHANGED <<history, tip, asked, lo, hi, recipients, log, outcome>>

FetchBatch == phase = "scan" /\ Fold(Count) /\ UNCHANGED cutShort

\* The node answers with fewer momentums than it should, or none, once or for
\* good: another replica answers, or a reply is capped.  None ends the scan.
FetchShort ==
  /\ phase = "scan"
  /\ cutShort' = TRUE
  /\ \E got \in 0 .. Count - 1 : Fold(got)

\* The command ends; only the log outlives it.
Exit(how) ==
  /\ phase' = "idle" /\ outcome' = how /\ asked' = NoFlags
  /\ lo' = 0 /\ hi' = 0 /\ height' = 0 /\ request' = 0 /\ found' = {} /\ totals' = NoTotals
  /\ recipients' = <<>>
  /\ UNCHANGED <<history, tip>>

\* A call of the scan fails, or the process is killed: nothing is logged.
Fail ==
  /\ phase # "idle"
  /\ Exit("error")
  /\ UNCHANGED <<log, cutShort>>

-----------------------------------------------------------------------------
(* run and verifyScan, after the scan *)

Sorted(users) ==
  LET places == 1 .. Cardinality(users)
  IN  CHOOSE s \in [places -> users] : \A j, k \in places : j < k => s[j] < s[k]

\* Mutant: -exclude-self is not applied.
ListEveryone ==
  /\ phase = "found"
  /\ ~asked.verify
  /\ \E holders \in SUBSET found : recipients' = Sorted(holders)
  /\ phase' = "listed"
  /\ UNCHANGED <<history, tip, asked, scanVars, log, outcome, cutShort>>

\* The recipients: without the payer, and those who hold enough.
ListRecipients ==
  /\ phase = "found"
  /\ ~asked.verify
  /\ \E holders \in SUBSET found :
       recipients' = Sorted({a \in holders : ~(asked.excludeSelf /\ a = Self)})
  /\ phase' = "listed"
  /\ UNCHANGED <<history, tip, asked, scanVars, log, outcome, cutShort>>

\* The log is written on the way out, whatever happened since the scan.
WriteLog ==
  log' = [lo |-> lo, hi |-> hi, include |-> asked.include, addresses |-> Sorted(found)]

\* -list, or an error on the way to the recipients.
LeaveWithoutList ==
  /\ phase = "found"
  /\ ~asked.verify
  /\ WriteLog
  /\ \E how \in {"listed", "error"} : Exit(how)
  /\ UNCHANGED cutShort

HandOver ==
  /\ phase = "listed"
  /\ WriteLog
  /\ Exit(IF recipients = <<>> THEN "empty" ELSE "listed")
  /\ UNCHANGED cutShort

Compare ==
  /\ phase = "found"
  /\ asked.verify
  /\ Exit(IF found = ToSet(log.addresses) THEN "reproduced" ELSE "different")
  /\ UNCHANGED <<log, cutShort>>

NewMomentum ==
  /\ tip < MaxHeight
  /\ tip' = tip + 1
  /\ UNCHANGED <<history, phase, asked, scanVars, recipients, log, outcome, cutShort>>

Program == FetchBatch \/ FetchShort \/ ListRecipients
           \/ LeaveWithoutList \/ HandOver \/ Compare

Next ==
  \/ \E f \in Flags : ScanCommand(f) \/ RefusedCommand(f)
  \/ VerifyCommand \/ Program \/ Fail \/ NewMomentum

Spec == Init /\ [][Next]_vars
FairSpec == Spec /\ WF_vars(Program)

-----------------------------------------------------------------------------

\* Who acted in a range, by definition; or was sent something, if included.
Acting(from, to, include) ==
  {u \in Users : \E m \in from .. to : \E b \in history[m] :
     u = b.by \/ (include /\ u = b.to)}

\* The scan so far has found exactly the users who acted (or were sent
\* something, when that is asked for) in the momentums it went through, and
\* has counted each of those momentums once: no batch leaves a gap or overlaps
\* the one before.
FoundWhatActed ==
  phase # "idle" =>
    /\ found = Acting(lo, height - 1, asked.include)
    /\ totals.momentums = height - lo

\* A scan the node answers in full goes through its whole range, however far
\* the chain grows meanwhile.
WholeRange ==
  (phase = "found" /\ ~cutShort) => height = hi + 1 /\ totals.momentums = hi - lo + 1

\* The range is the one asked for: from -from, or the last -last momentums, up
\* to -to or a tip that was reached.
RangeAsAsked ==
  (phase = "scan" /\ ~asked.verify) =>
    /\ 1 <= lo /\ lo <= hi /\ hi <= tip
    /\ asked.to > 0 => hi = asked.to
    /\ asked.from > 0 => lo = asked.from
    /\ asked.from = 0 => lo .. hi = {m \in 1 .. hi : Cardinality(m .. hi) <= asked.last}

\* The list handed to the airdrop is in order and names nobody twice, and
\* nobody is on it who did not act in the range, nor the payer when excluded.
RecipientsSound ==
  phase = "listed" =>
    /\ \A j, k \in DOMAIN recipients : j < k => recipients[j] < recipients[k]
    /\ \A j \in DOMAIN recipients :
         /\ recipients[j] \in Acting(lo, hi, asked.include)
         /\ asked.excludeSelf => recipients[j] # Self

\* A logged scan is reproduced by scanning its range again, however far the
\* chain has grown, as long as the node answers in full.
LoggedScanReproduces == ~cutShort => outcome # "different"

\* Without -include-recipients the blocks counted as contract blocks are those
\* embedded contracts authored.
ContractsCounted ==
  (phase = "found" /\ ~asked.include) =>
    totals.contracts =
      Cardinality({p \in BlocksOf(lo .. height - 1) : p[2].by \in Contracts})

\* scanlog.go: the log's command re-derives its addresses, which are those of
\* the range it records.  The documentation says so of every log; a log whose
\* scan the node answered with less than it was asked is an exception.
LogIsItsRange ==
  log # NoLog => ToSet(log.addresses) = Acting(log.lo, log.hi, log.include)

\* Why those hold.  A scan moves through its range, which the chain has
\* reached, and stops short of its end only if the node answered with less.
ScanSound ==
  phase # "idle" =>
    /\ 1 <= lo /\ lo <= height /\ lo <= hi /\ hi <= tip /\ height <= hi + 1
    /\ phase = "scan" => height <= hi
    /\ phase # "scan" /\ ~cutShort => height = hi + 1

\* The contract blocks counted so far, in whichever phase.
CountSound ==
  (phase # "idle" /\ ~asked.include) =>
    totals.contracts =
      Cardinality({p \in BlocksOf(lo .. height - 1) : p[2].by \in Contracts})

\* What is logged is a range the chain has reached and, unless the node ever
\* answered with less, all who acted in it.
LogSound ==
  log # NoLog =>
    /\ log.lo \in 1 .. MaxHeight /\ log.hi \in log.lo .. tip /\ log.include \in BOOLEAN
    /\ ~cutShort => LogIsItsRange

\* A verification scans the range of the log, which is there all the while, as
\* the log's scan did, and lists nobody.
VerifySound ==
  (phase # "idle" /\ asked.verify) =>
    /\ phase # "listed" /\ log # NoLog
    /\ lo = log.lo /\ hi = log.hi /\ asked.include = log.include

ScanInv ==
  /\ TypeOK /\ ScanSound /\ FoundWhatActed /\ CountSound /\ RangeAsAsked
  /\ RecipientsSound /\ LogSound /\ VerifySound /\ LoggedScanReproduces

\* A scan comes to an end, even if the node answers every call with less than
\* it was asked, or with nothing.
ScanEnds == (phase # "idle") ~> (phase = "idle")
=============================================================================
