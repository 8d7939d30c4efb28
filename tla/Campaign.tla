------------------------------ MODULE Campaign ------------------------------
(***************************************************************************)
(* main.go, plan.go, replay.go and scanlog.go across invocations: an       *)
(* operator who scans, filters, pays, resumes and replays over days, while *)
(* the chain grows and with whatever journal was named.  Each invocation   *)
(* has a number and keeps its record in `runs' after it has ended, so that *)
(* what it did can be held against what others did.                        *)
(*                                                                         *)
(* A payment is one step here: Airdrop has the steps it is made of, and    *)
(* Scan those of a scan.  Lists are sets, paid in the order of the users'  *)
(* numbers; a digest is the set it hashes; a run key is what it hashes.    *)
(***************************************************************************)
EXTENDS Range, Sequences, FiniteSets, FiniteSetsExt

CONSTANTS
  Users,        \* user addresses; numbers, in the order of their strings
  Acted,        \* for each height, the users a scan of its momentum finds
  MaxHeight,    \* bound: how far the chain grows
  RangeFlags,   \* what the operator gives for -from, -last and -to
  Terms,        \* a token with an amount
  NoTerms,      \* -zts or -amount not given
  Journals,     \* paths
  AtOnce,       \* bound: invocations alive at one time
  MaxRuns,      \* bound: invocations in all
  MaxMishaps    \* bound: lines lost, kills, and logs edited

ASSUME CampaignAssumption ==
  /\ Users \subseteq Nat
  /\ MaxHeight \in Nat \ {0}
  /\ Acted \in [1 .. MaxHeight -> SUBSET Users]
  /\ RangeFlags \subseteq [from : Nat, last : Nat, to : Nat]
  /\ NoTerms \notin Terms
  /\ AtOnce \in Nat /\ MaxRuns \in Nat /\ MaxMishaps \in Nat

VARIABLES
  tip,        \* the height of the chain
  journal,    \* for each path, the lines of the file
  runs,       \* the invocations, in the order they began
  overlaps,   \* the pairs that read the journal while the other was sending
  mishaps     \* how many there were

vars == <<tip, journal, runs, overlaps, mishaps>>

-----------------------------------------------------------------------------
(* Run keys, the journal and the log *)

RunKey(terms, from, to) == [terms |-> terms, from |-> from, to |-> to]
KeyOf(r) == RunKey(r.terms, r.from, r.to)

\* Mutant: the marks of every airdrop in the file count.
PaidOfAnyRun(path, key) == {line.addr : line \in journal[path]}

Paid(path, key) == {line.addr : line \in {l \in journal[path] : l.run = key}}

\* The log of an invocation: what was scanned; what the filter kept, once it is
\* applied; the airdrop section, once the run is priced, whose terms and
\* journal are those of the invocation.
Log == [addresses : SUBSET Users, digest : SUBSET Users,
        filtered : BOOLEAN, recipients : SUBSET Users, recipientDigest : SUBSET Users,
        priced : BOOLEAN, published : BOOLEAN, sent : Nat, written : BOOLEAN]

NoLog == [addresses |-> {}, digest |-> {},
          filtered |-> FALSE, recipients |-> {}, recipientDigest |-> {},
          priced |-> FALSE, published |-> FALSE, sent |-> 0, written |-> FALSE]

NewScanLog(found) == [NoLog EXCEPT !.addresses = found, !.digest = found]

SetFilter(log, kept) ==
  [log EXCEPT !.filtered = TRUE, !.recipients = kept, !.recipientDigest = kept]

\* An invocation: its flags; the log it replays, or 0 if it scans; its range
\* and terms; the list that was approved and who of it is left to pay; whom it
\* paid with a line in the journal and whom without; what it counted.
Run == [phase : {"scanned", "filtered", "planned", "sending", "done", "over", "killed"},
        flags : RangeFlags \union {[from |-> 0, last |-> 0, to |-> 0]},
        of : 0 .. MaxRuns, from : 1 .. MaxHeight, to : 1 .. MaxHeight,
        terms : Terms \union {NoTerms}, path : Journals,
        list : SUBSET Users, left : SUBSET Users,
        recorded : SUBSET Users, lapsed : SUBSET Users,
        sent : Nat, failed : BOOLEAN, warned : BOOLEAN, log : Log]

Ids == 1 .. MaxRuns
Invocations == DOMAIN runs
Alive == {i \in Invocations : runs[i].phase \in {"scanned", "filtered", "planned", "sending"}}
Replays == {i \in Invocations : runs[i].of # 0}

\* Is an invocation in one of these phases?  It, moved on to another.
At(i, phases) == i \in Invocations /\ runs[i].phase \in phases
Move(i, phase) == [runs[i] EXCEPT !.phase = phase]

\* It ends: the log of a scan is written on the way out, unless it is killed.
LastLog(r, phase) ==
  IF phase = "killed" THEN NoLog ELSE [r.log EXCEPT !.written = (r.of = 0)]

End(r, phase) ==
  [r EXCEPT !.phase = phase, !.left = {}, !.failed = FALSE, !.log = LastLog(r, phase)]

Becomes(i, r) == runs' = [runs EXCEPT ![i] = r]

Init ==
  /\ tip \in 1 .. MaxHeight
  /\ journal = [path \in Journals |-> {}]
  /\ runs = <<>> /\ overlaps = {} /\ mishaps = 0

-----------------------------------------------------------------------------
(* run: scan and filter *)

Found(from, to) == UNION {Acted[m] : m \in from .. to}

Begin(r) ==
  /\ Len(runs) < MaxRuns
  /\ Cardinality(Alive) < AtOnce
  /\ runs' = Append(runs, r)

Scan(f, terms, path) ==
  /\ Resolvable(f, tip)
  /\ LET from == StartOf(f, tip)
         to == EndOf(f, tip)
     IN  Begin([phase |-> "scanned", flags |-> f, of |-> 0, from |-> from, to |-> to,
                terms |-> terms, path |-> path,
                list |-> Found(from, to), left |-> {}, recorded |-> {}, lapsed |-> {},
                sent |-> 0, failed |-> FALSE, warned |-> FALSE,
                log |-> NewScanLog(Found(from, to))])
  /\ UNCHANGED <<tip, journal, overlaps, mishaps>>

\* -list, an error, or an interrupt before the filter.
LeaveUnfiltered(i) ==
  /\ At(i, {"scanned"})
  /\ Becomes(i, End(runs[i], "over"))
  /\ UNCHANGED <<tip, journal, overlaps, mishaps>>

\* -exclude-self and -min-holding keep any of those found.
Filter(i) ==
  /\ At(i, {"scanned"})
  /\ \E kept \in SUBSET runs[i].log.addresses :
       LET r == [Move(i, "filtered") EXCEPT !.list = kept,
                                            !.log = SetFilter(runs[i].log, kept)]
       IN  Becomes(i, IF kept = {} THEN End(r, "over") ELSE r)
  /\ UNCHANGED <<tip, journal, overlaps, mishaps>>

-----------------------------------------------------------------------------
(* replayScan *)

Narrowed(log) == log.filtered /\ log.recipients # {}

ReplayList(log) == IF Narrowed(log) THEN log.recipients ELSE log.addresses

\* Mutant: the list is not held against its digest.
ReplayableUnchecked(log) == log.written /\ ReplayList(log) # {}

Replayable(log) ==
  /\ log.written
  /\ ReplayList(log) # {}
  /\ ReplayList(log) = IF Narrowed(log) THEN log.recipientDigest ELSE log.digest

\* A flag beats the log; the airdrop section has terms only if it is there.
ReplayTerms(j, override) ==
  IF override # NoTerms THEN override
  ELSE IF runs[j].log.priced THEN runs[j].terms ELSE NoTerms

\* Mutants: the journal asked is the one the log names; a journal with more
\* lines than the log has sends raises the alarm, too.
AlarmForLogsJournal(j, terms, path) ==
  /\ runs[j].log.priced /\ runs[j].log.published /\ runs[j].log.sent > 0
  /\ Cardinality(Paid(runs[j].path, RunKey(terms, runs[j].from, runs[j].to)))
       < runs[j].log.sent

AlarmUnlessEqual(j, terms, path) ==
  /\ runs[j].log.priced /\ runs[j].log.published /\ runs[j].log.sent > 0
  /\ Cardinality(Paid(path, RunKey(terms, runs[j].from, runs[j].to)))
       # runs[j].log.sent

\* The warning that the journal does not account for what the log has sent.
Alarm(j, terms, path) ==
  /\ runs[j].log.priced /\ runs[j].log.published /\ runs[j].log.sent > 0
  /\ Cardinality(Paid(path, RunKey(terms, runs[j].from, runs[j].to)))
       < runs[j].log.sent

\* Mutant: the range is that of the flags, resolved now.
ReplayFromNow(j, override, path) ==
  /\ j \in Invocations /\ Replayable(runs[j].log)
  /\ LET terms == ReplayTerms(j, override) IN
      /\ terms # NoTerms
      /\ Begin([phase |-> "filtered", flags |-> [from |-> 0, last |-> 0, to |-> 0],
                of |-> j, from |-> StartOf(runs[j].flags, tip), to |-> EndOf(runs[j].flags, tip),
                terms |-> terms, path |-> path,
                list |-> ReplayList(runs[j].log), left |-> {},
                recorded |-> {}, lapsed |-> {}, sent |-> 0, failed |-> FALSE,
                warned |-> Alarm(j, terms, path), log |-> NoLog])
      /\ UNCHANGED <<tip, journal, overlaps, mishaps>>

Replay(j, override, path) ==
  /\ j \in Invocations /\ Replayable(runs[j].log)
  /\ LET terms == ReplayTerms(j, override) IN
      /\ terms # NoTerms
      /\ Begin([phase |-> "filtered", flags |-> [from |-> 0, last |-> 0, to |-> 0],
                of |-> j, from |-> runs[j].from, to |-> runs[j].to,
                terms |-> terms, path |-> path,
                list |-> ReplayList(runs[j].log), left |-> {},
                recorded |-> {}, lapsed |-> {}, sent |-> 0, failed |-> FALSE,
                warned |-> Alarm(j, terms, path), log |-> NoLog])
      /\ UNCHANGED <<tip, journal, overlaps, mishaps>>

-----------------------------------------------------------------------------
(* planAndSend *)

Sending == {i \in Invocations : runs[i].phase \in {"planned", "sending"}}

\* Mutants: a replay does not look up who was paid; what is left to pay is
\* taken from the scan instead of the recipients.
PlanReplayAnew(i) ==
  /\ At(i, {"filtered"})
  /\ runs[i].terms # NoTerms
  /\ Becomes(i, [Move(i, "planned")
                   EXCEPT !.left = IF runs[i].of # 0 THEN runs[i].list
                                   ELSE runs[i].list \ Paid(runs[i].path, KeyOf(runs[i])),
                          !.log.priced = (runs[i].of = 0)])
  /\ overlaps' = overlaps \union {{i, j} : j \in Sending}
  /\ UNCHANGED <<tip, journal, mishaps>>

PlanForScanned(i) ==
  /\ At(i, {"filtered"})
  /\ runs[i].terms # NoTerms
  /\ Becomes(i, [Move(i, "planned")
                   EXCEPT !.left = runs[i].log.addresses \ Paid(runs[i].path, KeyOf(runs[i])),
                          !.log.priced = (runs[i].of = 0)])
  /\ overlaps' = overlaps \union {{i, j} : j \in Sending}
  /\ UNCHANGED <<tip, journal, mishaps>>

\* The journal is read; the airdrop section of the log is made.
Plan(i) ==
  /\ At(i, {"filtered"})
  /\ runs[i].terms # NoTerms
  /\ Becomes(i, [Move(i, "planned")
                   EXCEPT !.left = runs[i].list \ Paid(runs[i].path, KeyOf(runs[i])),
                          !.log.priced = (runs[i].of = 0)])
  /\ overlaps' = overlaps \union {{i, j} : j \in Sending}
  /\ UNCHANGED <<tip, journal, mishaps>>

\* A run without terms or without -confirm, a short balance, an error, or an
\* interrupt: nothing is published.
LeaveUnsent(i) ==
  /\ At(i, {"filtered", "planned"})
  /\ Becomes(i, End(runs[i], "over"))
  /\ UNCHANGED <<tip, journal, overlaps, mishaps>>

StartSending(i) ==
  /\ At(i, {"planned"})
  /\ Becomes(i, Move(i, "sending"))
  /\ UNCHANGED <<tip, journal, overlaps, mishaps>>

\* Who is paid next, and the line that says so.
NextOf(i) == Min(runs[i].left)

Write(i) == journal' = [journal EXCEPT ![runs[i].path] =
                          @ \union {[run |-> KeyOf(runs[i]), addr |-> NextOf(i)]}]

\* The next recipient is paid and has its line.
Pay(i) ==
  /\ At(i, {"sending"}) /\ runs[i].left # {}
  /\ Becomes(i, [runs[i] EXCEPT !.left = @ \ {NextOf(i)},
                                !.recorded = @ \union {NextOf(i)},
                                !.sent = @ + 1])
  /\ Write(i)
  /\ UNCHANGED <<tip, overlaps, mishaps>>

\* The send fails, and nothing was paid.
SendFails(i) ==
  /\ At(i, {"sending"}) /\ runs[i].left # {}
  /\ Becomes(i, [runs[i] EXCEPT !.left = @ \ {NextOf(i)}, !.failed = TRUE])
  /\ UNCHANGED <<tip, journal, overlaps, mishaps>>

\* Mutant: an error of the loop leaves before the log is brought up to date.
OutcomeUnlessFailed(r) ==
  IF r.of = 0 /\ ~r.failed /\ r.left = {}
  THEN [r EXCEPT !.log.published = TRUE, !.log.sent = r.sent] ELSE r

\* What the log says of the loop, whether it returned an error or not.
Outcome(r) ==
  IF r.of = 0 THEN [r EXCEPT !.log.published = TRUE, !.log.sent = r.sent] ELSE r

\* The next recipient is paid, and the line is lost with the reply (which
\* passes for a failure), with the write (which ends the run, and may have
\* reached the file after all), or with the process.
PayAndLapse(i) ==
  LET r == [runs[i] EXCEPT !.left = @ \ {NextOf(i)},
                           !.lapsed = @ \union {NextOf(i)}, !.failed = TRUE]
  IN  /\ At(i, {"sending"}) /\ runs[i].left # {}
      /\ mishaps < MaxMishaps
      /\ mishaps' = mishaps + 1
      /\ \/ Becomes(i, r) /\ UNCHANGED journal
         \/ Becomes(i, End(Outcome(r), "over")) /\ (UNCHANGED journal \/ Write(i))
         \/ Becomes(i, End(r, "killed")) /\ UNCHANGED journal
      /\ UNCHANGED <<tip, overlaps>>

\* The list is through, or failures in a row or an interrupt ended the loop.
Finish(i) ==
  /\ At(i, {"sending"})
  /\ Becomes(i, End(Outcome(runs[i]),
                    IF runs[i].left = {} /\ ~runs[i].failed THEN "done" ELSE "over"))
  /\ UNCHANGED <<tip, journal, overlaps, mishaps>>

Kill(i) ==
  /\ i \in Alive
  /\ mishaps < MaxMishaps
  /\ mishaps' = mishaps + 1
  /\ Becomes(i, End(runs[i], "killed"))
  /\ UNCHANGED <<tip, journal, overlaps>>

-----------------------------------------------------------------------------

\* Somebody changes a list in a log, and not the digests beside the lists.
Edit(i) ==
  /\ i \in Invocations /\ runs[i].log.written
  /\ mishaps < MaxMishaps
  /\ mishaps' = mishaps + 1
  /\ \E list \in SUBSET Users :
       \/ Becomes(i, [runs[i] EXCEPT !.log.addresses = list])
       \/ /\ runs[i].log.filtered
          /\ Becomes(i, [runs[i] EXCEPT !.log.recipients = list])
  /\ UNCHANGED <<tip, journal, overlaps>>

NewMomentum ==
  /\ tip < MaxHeight
  /\ tip' = tip + 1
  /\ UNCHANGED <<journal, runs, overlaps, mishaps>>

ScanAnything ==
  \E f \in RangeFlags, terms \in Terms \union {NoTerms}, path \in Journals :
    Scan(f, terms, path)

ReplayAnything ==
  \E j \in Ids, terms \in Terms \union {NoTerms}, path \in Journals :
    Replay(j, terms, path)

Proceed ==
  \E i \in Ids :
    \/ LeaveUnfiltered(i) \/ Filter(i)
    \/ Plan(i) \/ LeaveUnsent(i) \/ StartSending(i)
    \/ Pay(i) \/ SendFails(i) \/ PayAndLapse(i) \/ Finish(i) \/ Kill(i)

EditALog == \E i \in Ids : Edit(i)

Next == ScanAnything \/ ReplayAnything \/ Proceed \/ EditALog \/ NewMomentum

Spec == Init /\ [][Next]_vars

-----------------------------------------------------------------------------

TypeOK ==
  /\ tip \in 1 .. MaxHeight
  /\ runs \in Seq(Run)
  /\ \A i \in Invocations : runs[i].of < i /\ runs[i].left \subseteq runs[i].list
  /\ overlaps \subseteq {{i, j} : i, j \in Invocations}
  /\ mishaps \in 0 .. MaxMishaps

PaidBy(i) == runs[i].recorded \union runs[i].lapsed

\* Nobody is paid and recorded twice in the same airdrop, by whichever
\* invocations, scans or replays, with the same journal; unless one had read
\* the journal while the other was sending, from which nothing keeps them.
SameAirdrop(i, j) ==
  KeyOf(runs[i]) = KeyOf(runs[j]) /\ runs[i].path = runs[j].path

PaidOncePerKey ==
  \A i, j \in Invocations :
    i # j /\ SameAirdrop(i, j) /\ {i, j} \notin overlaps =>
      runs[i].recorded \intersect runs[j].recorded = {}

\* The same flags, a -to among them, resume: whatever the chain has grown to,
\* nobody on record is paid again.
SameFlags(i, j) ==
  /\ runs[i].of = 0 /\ runs[j].of = 0
  /\ runs[i].flags = runs[j].flags
  /\ runs[i].terms = runs[j].terms /\ runs[i].path = runs[j].path

ClosedRangeResumes ==
  \A i, j \in Invocations :
    i # j /\ SameFlags(i, j) /\ runs[i].flags.to # 0 /\ {i, j} \notin overlaps =>
      runs[i].recorded \intersect runs[j].recorded = {}

\* A replay with the terms and the journal of the run that wrote the log pays
\* nobody whom that run paid on record, also when the chain has grown.
ReplayResumes ==
  \A i \in Replays :
    LET j == runs[i].of
    IN  runs[i].terms = runs[j].terms /\ runs[i].path = runs[j].path =>
          runs[i].recorded \intersect runs[j].recorded = {}

\* A replay begins with the list that was approved, which is what the filter
\* kept or, if none was applied, what the scan found; or, where the log has no
\* recipients left because the filter kept nobody or because they were edited
\* away, with everybody found.  Whatever else was done to the log since, it
\* takes no third list.
ReplayTakesLoggedList ==
  [][\A i \in Invocations' \ Invocations :
       LET j == runs'[i].of
       IN  j # 0 =>
             \/ runs'[i].list = runs[j].list
             \/ /\ runs[j].log.filtered /\ runs[j].log.recipients = {}
                /\ runs'[i].list = Found(runs[j].from, runs[j].to)]_vars

\* When a run reports success, everyone on its list has been paid these terms
\* for this range, and not for another range or in another token.
SuccessCoversList ==
  \A i \in Invocations : runs[i].phase = "done" =>
    \A a \in runs[i].list : \E j \in Invocations :
      /\ a \in PaidBy(j)
      /\ runs[j].terms = runs[i].terms
      /\ runs[j].from = runs[i].from /\ runs[j].to = runs[i].to

\* A replay that pays somebody the log's own run had paid and recorded has
\* warned of it, unless others filled its journal under the same key.
WarnsBeforeRepeat ==
  \A i \in Replays :
    LET j == runs[i].of
    IN  /\ runs[i].terms = runs[j].terms
        /\ PaidBy(i) \intersect runs[j].recorded # {}
        => \/ runs[i].warned
           \/ \E k \in Invocations \ {i, j} : SameAirdrop(k, i)

\* Nobody is warned whose journal is the one the original run wrote.
NoFalseAlarm ==
  \A i \in Replays :
    runs[i].warned =>
      \/ runs[i].path # runs[runs[i].of].path
      \/ runs[i].terms # runs[runs[i].of].terms

\* A log that was written tells that something was published if anything was,
\* and its journal has a line for each send it claims.
LogTellsWhatWasSent ==
  \A i \in Invocations : runs[i].log.written =>
    /\ PaidBy(i) # {} => runs[i].log.priced /\ runs[i].log.published
    /\ runs[i].recorded # {} => runs[i].log.sent > 0
    /\ runs[i].log.sent <= Cardinality(Paid(runs[i].path, KeyOf(runs[i])))

-----------------------------------------------------------------------------
(* Why all this holds: the inductive invariant, one concern at a time *)

\* Every line of a journal is from an invocation with that path and that key,
\* which paid the one it names.
Keys == [terms : Terms \union {NoTerms}, from : 1 .. MaxHeight, to : 1 .. MaxHeight]

JournalSound ==
  /\ journal \in [Journals -> SUBSET [run : Keys, addr : Users]]
  /\ \A path \in Journals :
       /\ IsFiniteSet(journal[path])
       /\ \A line \in journal[path] : \E j \in Invocations :
            runs[j].path = path /\ KeyOf(runs[j]) = line.run /\ line.addr \in PaidBy(j)

\* Whom an invocation has on record is in its journal; and how many they are.
RecordSound ==
  \A i \in Invocations :
    /\ runs[i].recorded \subseteq Paid(runs[i].path, KeyOf(runs[i]))
    /\ IsFiniteSet(runs[i].recorded) /\ runs[i].sent = Cardinality(runs[i].recorded)

\* What an invocation has done and written in each phase.
StageSound ==
  \A i \in Invocations :
    /\ runs[i].phase \in {"scanned", "filtered", "planned"} => PaidBy(i) = {}
    /\ runs[i].left # {} => i \in Sending
    /\ runs[i].left \intersect PaidBy(i) = {}
    /\ i \in Alive => /\ ~runs[i].log.written /\ ~runs[i].log.published
                      /\ runs[i].log.sent = 0
    /\ i \in Sending /\ runs[i].of = 0 => runs[i].log.priced
    /\ runs[i].log.written => runs[i].of = 0 /\ runs[i].phase # "killed"

\* Those who send at the same time have read the journal while the other might;
\* and nobody who is left to pay is on record for another.
LeftUnpaid ==
  \A i, j \in Invocations : i # j =>
    /\ i \in Sending /\ j \in Sending => {i, j} \in overlaps
    /\ SameAirdrop(i, j) /\ {i, j} \notin overlaps =>
         runs[i].left \intersect runs[j].recorded = {}

\* The range is the flags' where a -to fixes it, at any height of the chain.
RangeKept ==
  \A i \in Invocations : runs[i].of = 0 /\ runs[i].flags.to # 0 =>
    runs[i].to = EndOf(runs[i].flags, 0) /\ runs[i].from = StartOf(runs[i].flags, 0)

\* A log that can be replayed has the digest of what the scan found, and that of
\* the list that was approved.
DigestKept ==
  \A i \in Invocations : runs[i].of = 0 /\ runs[i].phase # "killed" =>
    /\ runs[i].log.digest = Found(runs[i].from, runs[i].to)
    /\ runs[i].list = IF runs[i].log.filtered THEN runs[i].log.recipientDigest
                                              ELSE runs[i].log.digest

\* A replay has the range of the run it replays, which has ended; with the same
\* terms it has in the same journal nobody left to pay who is on record, and in
\* another has warned, or is not alone there.
ReplaySound ==
  \A i \in Replays :
    LET j == runs[i].of
    IN  /\ j \in Invocations \ Alive
        /\ runs[i].from = runs[j].from /\ runs[i].to = runs[j].to
        /\ {i, j} \notin overlaps
        /\ runs[i].terms = runs[j].terms /\ runs[i].path = runs[j].path =>
             (runs[i].left \union PaidBy(i)) \intersect runs[j].recorded = {}
        /\ runs[i].terms = runs[j].terms /\ runs[i].path # runs[j].path =>
             \/ runs[j].recorded = {}
             \/ runs[i].warned
             \/ \E k \in Invocations \ {i, j} : SameAirdrop(k, i)

\* Everyone on the list of a run that sends, and that nothing failed, is left to
\* be paid or was paid these terms for this range.
CoveredSoFar ==
  \A i \in Invocations : i \in Sending /\ ~runs[i].failed =>
    \A a \in runs[i].list \ runs[i].left : \E j \in Invocations :
      a \in PaidBy(j) /\ KeyOf(runs[j]) = KeyOf(runs[i])

CampaignInv ==
  /\ TypeOK /\ JournalSound /\ RecordSound /\ StageSound /\ LeftUnpaid
  /\ RangeKept /\ DigestKept /\ ReplaySound /\ CoveredSoFar
  /\ PaidOncePerKey /\ SuccessCoversList /\ LogTellsWhatWasSent /\ NoFalseAlarm

-----------------------------------------------------------------------------
(* What the documentation says of the program, and the code does not do *)

\* main.go: a run that was cut short is resumed by the same flags, and so does
\* not pay again whom it had paid.
SameFlagsResume ==
  \A i, j \in Invocations :
    /\ i < j /\ runs[i].phase = "over"
    /\ SameFlags(i, j) /\ {i, j} \notin overlaps
    => runs[i].recorded \intersect runs[j].recorded = {}

\* README and replay.go: the narrowed set is the one somebody approved, and is
\* replayed; a log edited by hand, its recipients taken out as well, is refused.
NarrowedSetReplayed ==
  \A i \in Replays : runs[i].list = runs[runs[i].of].list
=============================================================================
