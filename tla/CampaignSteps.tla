--------------------------- MODULE CampaignSteps ---------------------------
(***************************************************************************)
(* What a step of an operator's invocations makes of the record of the one *)
(* that takes it, of the journals and of the overlaps: a handful of kinds  *)
(* of change, from which CampaignProofs argues.                            *)
(***************************************************************************)
EXTENDS Campaign, SequenceTheorems, FiniteSetTheorems, WellFoundedInduction, TLAPS

(* What a step makes of the record of an invocation. *)

AlivePhases == {"scanned", "filtered", "planned", "sending"}

\* What an invocation has for life.
Lasting(r, s) ==
  /\ s.flags = r.flags /\ s.of = r.of /\ s.from = r.from /\ s.to = r.to
  /\ s.terms = r.terms /\ s.path = r.path /\ s.warned = r.warned

\* It pays nobody; its list, and the digest of it, stay; so does what its log
\* says of the sends.
Unspent(r, s) == s.recorded = r.recorded /\ s.lapsed = r.lapsed /\ s.sent = r.sent

Approved(r, s) ==
  /\ s.list = r.list
  /\ s.log.filtered = r.log.filtered
  /\ s.log.digest = r.log.digest /\ s.log.recipientDigest = r.log.recipientDigest

Account(r, s) ==
  /\ s.log.priced = r.log.priced /\ s.log.published = r.log.published
  /\ s.log.sent = r.log.sent

\* The log written on the way out, brought up to date if the loop was entered.
Closed(r, s) ==
  /\ s.phase # "killed" => Approved(r, s) /\ s.log.written = (r.of = 0)
  /\ s.phase = "killed" => s.list = r.list /\ ~s.log.written

LEMMA LogType ==
  ASSUME NEW r \in Run
  PROVE  r.log \in Log
  BY DEF Run

LEMMA EndLemma ==
  ASSUME NEW r \in Run, NEW phase \in {"done", "over", "killed"}, NEW s, s = End(r, phase)
  PROVE  /\ s \in Run /\ Lasting(r, s) /\ Unspent(r, s) /\ Closed(r, s)
         /\ s.phase = phase /\ s.left = {} /\ s.failed = FALSE
         /\ phase # "killed" => Account(r, s)
  <1> DEFINE l == LastLog(r, phase)
  <1>1. /\ l \in Log
        /\ phase # "killed" =>
             /\ l.written = (r.of = 0)
             /\ l.filtered = r.log.filtered /\ l.digest = r.log.digest
             /\ l.recipientDigest = r.log.recipientDigest
             /\ l.priced = r.log.priced /\ l.published = r.log.published
             /\ l.sent = r.log.sent
        /\ phase = "killed" => ~l.written
    <2>1. CASE phase = "killed"
      BY <2>1 DEF LastLog, NoLog, Log
    <2>2. CASE phase # "killed"
      <3>1. PICK w \in BOOLEAN : w = (r.of = 0)
        OBVIOUS
      <3>2. l = [r.log EXCEPT !.written = w]
        BY <2>2, <3>1 DEF LastLog
      <3> HIDE DEF l
      <3>3. l \in Log
        BY <3>2, LogType DEF Log
      <3>4. l.written = w
        BY <3>2, LogType DEF Log
      <3>5. /\ l.filtered = r.log.filtered /\ l.digest = r.log.digest
            /\ l.recipientDigest = r.log.recipientDigest
            /\ l.priced = r.log.priced /\ l.published = r.log.published
            /\ l.sent = r.log.sent
        BY <3>2, LogType DEF Log
      <3>6. QED
        BY <2>2, <3>1, <3>3, <3>4, <3>5
    <2>3. QED
      BY <2>1, <2>2
  <1>2. s = [r EXCEPT !.phase = phase, !.left = {}, !.failed = FALSE, !.log = l]
    BY DEF End
  <1> HIDE DEF l
  <1>3. s \in Run /\ s.log = l
    BY <1>1, <1>2, ZenonT(60) DEF Run
  <1>4. /\ Lasting(r, s) /\ Unspent(r, s) /\ s.list = r.list
        /\ s.phase = phase /\ s.left = {} /\ s.failed = FALSE
    BY <1>2 DEF Run, Lasting, Unspent
  <1>5. QED
    BY <1>1, <1>3, <1>4 DEF Closed, Approved, Account

\* The log of a run that ended after the loop.
Reported(r, s) ==
  /\ Approved(r, s)
  /\ s.log.written = (r.of = 0) /\ s.log.priced = r.log.priced
  /\ r.of = 0 => s.log.published /\ s.log.sent = r.sent

\* The kinds of change: it is filtered, begins to send, or has a send fail;
Continues(r, s) ==
  /\ Lasting(r, s) /\ Unspent(r, s) /\ Account(r, s) /\ s.log.written = r.log.written
  /\ \/ /\ r.phase = "scanned" /\ s.phase = "filtered" /\ s.left = r.left
        /\ s.log.filtered /\ s.list = s.log.recipientDigest
        /\ s.log.digest = r.log.digest
     \/ /\ r.phase = "planned" /\ s.phase = "sending" /\ s.left = r.left
        /\ s.failed = r.failed /\ Approved(r, s)
     \/ /\ r.phase = "sending" /\ s.phase = "sending" /\ s.left \subseteq r.left
        /\ s.failed /\ Approved(r, s)

\* it ends before the loop, or is killed;
Leaves(r, s) ==
  /\ Lasting(r, s) /\ Unspent(r, s) /\ s.left = {} /\ r.phase \in AlivePhases
  /\ \/ /\ r.phase # "sending" /\ s.phase = "over"
        /\ Account(r, s) /\ s.log.written = (r.of = 0) /\ s.log.digest = r.log.digest
        /\ Approved(r, s) \/ (r.phase = "scanned" /\ s.log.filtered /\ s.list = s.log.recipientDigest)
     \/ s.phase = "killed" /\ ~s.log.written /\ s.list = r.list

\* the loop is over;
Finishes(r, s) ==
  /\ Lasting(r, s) /\ Unspent(r, s) /\ Reported(r, s) /\ s.left = {}
  /\ r.phase = "sending"
  /\ s.phase = IF r.left = {} /\ ~r.failed THEN "done" ELSE "over"

\* its log is edited.
Edited(r, s) ==
  /\ Lasting(r, s) /\ Unspent(r, s) /\ Approved(r, s) /\ Account(r, s)
  /\ s.phase = r.phase /\ s.left = r.left /\ s.failed = r.failed
  /\ r.log.written /\ s.log.written

\* It reads the journal, which has lines for some;
Plans(r, s, paid) ==
  /\ Lasting(r, s) /\ Unspent(r, s) /\ Approved(r, s)
  /\ r.phase = "filtered" /\ s.phase = "planned" /\ s.failed = r.failed
  /\ s.left = r.list \ paid
  /\ s.log.priced = (r.of = 0) /\ s.log.published = r.log.published
  /\ s.log.sent = r.log.sent /\ s.log.written = r.log.written

\* it pays somebody and records it;
Pays(r, s, a) ==
  /\ Lasting(r, s) /\ Approved(r, s) /\ Account(r, s) /\ s.log.written = r.log.written
  /\ r.phase = "sending" /\ s.phase = "sending" /\ s.failed = r.failed
  /\ a \in r.left /\ s.left = r.left \ {a}
  /\ s.recorded = r.recorded \union {a} /\ s.lapsed = r.lapsed /\ s.sent = r.sent + 1

\* it pays somebody, and does not go on to record it.
Lapses(r, s, a) ==
  /\ Lasting(r, s) /\ r.phase = "sending" /\ a \in r.left /\ s.left \subseteq r.left \ {a}
  /\ s.recorded = r.recorded /\ s.lapsed = r.lapsed \union {a} /\ s.sent = r.sent
  /\ \/ /\ s.phase = "sending" /\ s.failed
        /\ Approved(r, s) /\ Account(r, s) /\ s.log.written = r.log.written
     \/ s.phase = "over" /\ s.left = {} /\ Reported(r, s)
     \/ s.phase = "killed" /\ s.left = {} /\ ~s.log.written /\ s.list = r.list

LEMMA MoveLemma ==
  ASSUME NEW r \in Run, NEW phase \in AlivePhases, NEW s, s = [r EXCEPT !.phase = phase]
  PROVE  /\ s \in Run /\ Lasting(r, s) /\ Unspent(r, s) /\ s.log = r.log
         /\ s.phase = phase /\ s.left = r.left /\ s.failed = r.failed /\ s.list = r.list
  BY DEF Run, AlivePhases, Lasting, Unspent

LEMMA FilterLemma ==
  ASSUME NEW r \in Run, r.phase = "scanned", NEW kept \in SUBSET r.log.addresses,
         NEW m, m = [[r EXCEPT !.phase = "filtered"]
                       EXCEPT !.list = kept, !.log = SetFilter(r.log, kept)],
         NEW s, s = IF kept = {} THEN End(m, "over") ELSE m
  PROVE  s \in Run /\ (Continues(r, s) \/ Leaves(r, s))
  <1> DEFINE l == SetFilter(r.log, kept)
  <1>1. kept \in SUBSET Users
    BY LogType DEF Log
  <1>2. l \in Log /\ l.filtered /\ l.recipientDigest = kept /\ l.written = r.log.written
        /\ l.digest = r.log.digest
        /\ l.priced = r.log.priced /\ l.published = r.log.published /\ l.sent = r.log.sent
    BY <1>1, LogType DEF Log, SetFilter
  <1> HIDE DEF l
  <1>3. m \in Run /\ m.log = l
    BY <1>1, <1>2 DEF Run, l
  <1>4. /\ Lasting(r, m) /\ Unspent(r, m) /\ m.list = kept /\ m.left = r.left
        /\ m.phase = "filtered"
    BY <1>1 DEF Run, Lasting, Unspent
  <1>5. CASE kept # {}
    <2>1. s = m
      BY <1>5
    <2>2. QED
      BY <1>2, <1>3, <1>4, <2>1, ZenonT(60) DEF Continues, Account
  <1>6. CASE kept = {}
    <2>1. s = End(m, "over")
      BY <1>6
    <2>2. /\ s \in Run /\ Lasting(m, s) /\ Unspent(m, s) /\ Closed(m, s)
          /\ s.phase = "over" /\ s.left = {} /\ Account(m, s)
      BY <1>3, <2>1, EndLemma
    <2>3. QED
      BY <1>2, <1>3, <1>4, <2>2
         DEF Leaves, Lasting, Unspent, Closed, Approved, Account, AlivePhases
  <1>7. QED
    BY <1>5, <1>6

LEMMA PlanLemma ==
  ASSUME NEW r \in Run, r.phase = "filtered", NEW paid, NEW s,
         s = [[r EXCEPT !.phase = "planned"]
                EXCEPT !.left = r.list \ paid, !.log.priced = (r.of = 0)]
  PROVE  s \in Run /\ Plans(r, s, paid)
  <1> DEFINE left == r.list \ paid
  <1>1. PICK w \in BOOLEAN : w = (r.of = 0)
    OBVIOUS
  <1>2. PICK l : l = [r.log EXCEPT !.priced = w]
    OBVIOUS
  <1>3. /\ l \in Log /\ l.priced = w /\ l.published = r.log.published /\ l.sent = r.log.sent
        /\ l.written = r.log.written /\ l.filtered = r.log.filtered
        /\ l.digest = r.log.digest /\ l.recipientDigest = r.log.recipientDigest
    BY <1>2, LogType DEF Log
  <1>4. left \in SUBSET Users
    BY DEF Run
  <1>5. s = [r EXCEPT !.phase = "planned", !.left = left, !.log = l]
    BY <1>1, <1>2 DEF Run
  <1> HIDE DEF left
  <1>6. s \in Run /\ s.log = l
    BY <1>3, <1>4, <1>5 DEF Run
  <1>7. /\ Lasting(r, s) /\ Unspent(r, s) /\ s.list = r.list
        /\ s.phase = "planned" /\ s.failed = r.failed /\ s.left = left
    BY <1>5 DEF Run, Lasting, Unspent
  <1>8. QED
    BY <1>1, <1>3, <1>6, <1>7 DEF Plans, Approved, left

LEMMA StartLemma ==
  ASSUME NEW r \in Run, r.phase = "planned", NEW s, s = [r EXCEPT !.phase = "sending"]
  PROVE  s \in Run /\ Continues(r, s)
  BY MoveLemma DEF AlivePhases, Continues, Account, Approved

LEMMA FailLemma ==
  ASSUME NEW r \in Run, r.phase = "sending", NEW a,
         NEW s, s = [r EXCEPT !.left = r.left \ {a}, !.failed = TRUE]
  PROVE  s \in Run /\ Continues(r, s)
  <1>1. s \in Run
    BY DEF Run
  <1>2. /\ Lasting(r, s) /\ Unspent(r, s) /\ s.list = r.list /\ s.log = r.log
        /\ s.phase = "sending" /\ s.failed /\ s.left = r.left \ {a}
    BY DEF Run, Lasting, Unspent
  <1>3. QED
    BY <1>1, <1>2 DEF Continues, Account, Approved

LEMMA PayLemma ==
  ASSUME NEW r \in Run, r.phase = "sending", NEW a \in r.left,
         NEW s, s = [r EXCEPT !.left = r.left \ {a}, !.recorded = r.recorded \union {a},
                              !.sent = r.sent + 1]
  PROVE  s \in Run /\ Pays(r, s, a)
  <1>1. a \in Users /\ r.sent + 1 \in Nat
    BY DEF Run
  <1>2. s \in Run
    <2>1. r.left \ {a} \in SUBSET Users /\ r.recorded \union {a} \in SUBSET Users
      BY <1>1 DEF Run
    <2>2. PICK left \in SUBSET Users, recorded \in SUBSET Users, sent \in Nat :
            left = r.left \ {a} /\ recorded = r.recorded \union {a} /\ sent = r.sent + 1
      BY <1>1, <2>1
    <2>3. s = [r EXCEPT !.left = left, !.recorded = recorded, !.sent = sent]
      BY <2>2
    <2>4. QED
      BY <2>3, ZenonT(60) DEF Run
  <1>3. /\ Lasting(r, s) /\ s.list = r.list /\ s.log = r.log
        /\ s.phase = "sending" /\ s.failed = r.failed /\ s.left = r.left \ {a}
        /\ s.recorded = r.recorded \union {a} /\ s.lapsed = r.lapsed /\ s.sent = r.sent + 1
    BY DEF Run, Lasting
  <1>4. QED
    BY <1>2, <1>3 DEF Pays, Account, Approved

\* The log brought up to date by the loop's outcome.
LEMMA OutcomeLemma ==
  ASSUME NEW r \in Run, NEW s, s = Outcome(r)
  PROVE  /\ s \in Run /\ Lasting(r, s) /\ Unspent(r, s) /\ Approved(r, s)
         /\ s.phase = r.phase /\ s.log.priced = r.log.priced
         /\ r.of = 0 => s.log.published /\ s.log.sent = r.sent
  <1>1. CASE r.of = 0
    <2>1. PICK l : l = [r.log EXCEPT !.published = TRUE, !.sent = r.sent]
      OBVIOUS
    <2>2. r.sent \in Nat
      BY DEF Run
    <2>3. /\ l \in Log /\ l.priced = r.log.priced /\ l.published /\ l.sent = r.sent
          /\ l.filtered = r.log.filtered /\ l.digest = r.log.digest
          /\ l.recipientDigest = r.log.recipientDigest
      BY <2>1, <2>2, LogType DEF Log
    <2>4. s = [r EXCEPT !.log = l]
      BY <1>1, <2>1 DEF Outcome, Run
    <2>5. /\ s \in Run /\ s.log = l /\ s.list = r.list /\ s.phase = r.phase
          /\ Lasting(r, s) /\ Unspent(r, s)
      BY <2>3, <2>4 DEF Run, Lasting, Unspent
    <2>6. QED
      BY <2>3, <2>5 DEF Approved
  <1>2. CASE r.of # 0
    BY <1>2 DEF Outcome, Lasting, Unspent, Approved
  <1>3. QED
    BY <1>1, <1>2

\* The run ends after the loop.
LEMMA OutcomeEndLemma ==
  ASSUME NEW r \in Run, NEW phase \in {"done", "over"}, NEW s, s = End(Outcome(r), phase)
  PROVE  /\ s \in Run /\ Lasting(r, s) /\ Unspent(r, s) /\ Reported(r, s)
         /\ s.phase = phase /\ s.left = {}
  <1>1. PICK m : m = Outcome(r)
    OBVIOUS
  <1>2. /\ m \in Run /\ Lasting(r, m) /\ Unspent(r, m) /\ Approved(r, m)
        /\ m.log.priced = r.log.priced
        /\ r.of = 0 => m.log.published /\ m.log.sent = r.sent
    BY <1>1, OutcomeLemma
  <1>3. /\ s \in Run /\ Lasting(m, s) /\ Unspent(m, s) /\ Closed(m, s)
        /\ s.phase = phase /\ s.left = {} /\ Account(m, s)
    BY <1>1, <1>2, EndLemma, ZenonT(60)
  <1>4. QED
    BY <1>2, <1>3 DEF Lasting, Unspent, Closed, Approved, Account, Reported

LEMMA FinishLemma ==
  ASSUME NEW r \in Run, r.phase = "sending",
         NEW s, s = End(Outcome(r), IF r.left = {} /\ ~r.failed THEN "done" ELSE "over")
  PROVE  s \in Run /\ Finishes(r, s)
  <1>1. PICK phase \in {"done", "over"} :
          phase = IF r.left = {} /\ ~r.failed THEN "done" ELSE "over"
    OBVIOUS
  <1>2. s = End(Outcome(r), phase)
    BY <1>1
  <1>3. /\ s \in Run /\ Lasting(r, s) /\ Unspent(r, s) /\ Reported(r, s)
        /\ s.phase = phase /\ s.left = {}
    BY <1>2, OutcomeEndLemma
  <1>4. QED
    BY <1>1, <1>3 DEF Finishes

LEMMA LapseLemma ==
  ASSUME NEW r \in Run, r.phase = "sending", NEW a \in r.left,
         NEW m, m = [r EXCEPT !.left = r.left \ {a}, !.lapsed = r.lapsed \union {a},
                              !.failed = TRUE],
         NEW s, \/ s = m
                \/ s = End(Outcome(m), "over")
                \/ s = End(m, "killed")
  PROVE  s \in Run /\ Lapses(r, s, a)
  <1>1. a \in Users
    BY DEF Run
  <1>2. m \in Run
    BY <1>1 DEF Run
  <1>3. /\ Lasting(r, m) /\ m.list = r.list /\ m.log = r.log
        /\ m.phase = "sending" /\ m.failed /\ m.left = r.left \ {a}
        /\ m.recorded = r.recorded /\ m.lapsed = r.lapsed \union {a} /\ m.sent = r.sent
    BY DEF Run, Lasting
  <1>4. CASE s = m
    BY <1>2, <1>3, <1>4 DEF Lapses, Account, Approved
  <1>5. CASE s = End(Outcome(m), "over")
    <2>1. /\ s \in Run /\ Lasting(m, s) /\ Unspent(m, s) /\ Reported(m, s)
          /\ s.phase = "over" /\ s.left = {}
      BY <1>2, <1>5, OutcomeEndLemma
    <2>2. QED
      BY <1>3, <2>1 DEF Lapses, Lasting, Unspent, Reported, Approved
  <1>6. CASE s = End(m, "killed")
    <2>1. /\ s \in Run /\ Lasting(m, s) /\ Unspent(m, s) /\ Closed(m, s)
          /\ s.phase = "killed" /\ s.left = {}
      BY <1>2, <1>6, EndLemma
    <2>2. QED
      BY <1>3, <2>1 DEF Lapses, Lasting, Unspent, Closed
  <1>7. QED
    BY <1>4, <1>5, <1>6

LEMMA LeaveLemma ==
  ASSUME NEW r \in Run, NEW s,
         \/ r.phase \in {"scanned", "filtered", "planned"} /\ s = End(r, "over")
         \/ r.phase \in AlivePhases /\ s = End(r, "killed")
  PROVE  s \in Run /\ Leaves(r, s)
  <1>1. CASE r.phase \in {"scanned", "filtered", "planned"} /\ s = End(r, "over")
    <2>1. /\ s \in Run /\ Lasting(r, s) /\ Unspent(r, s) /\ Closed(r, s)
          /\ s.phase = "over" /\ s.left = {} /\ Account(r, s)
      BY <1>1, EndLemma
    <2>2. QED
      BY <1>1, <2>1 DEF Leaves, Closed, Approved, AlivePhases
  <1>2. CASE r.phase \in AlivePhases /\ s = End(r, "killed")
    <2>1. /\ s \in Run /\ Lasting(r, s) /\ Unspent(r, s) /\ Closed(r, s)
          /\ s.phase = "killed" /\ s.left = {}
      BY <1>2, EndLemma
    <2>2. QED
      BY <1>2, <2>1 DEF Leaves, Closed
  <1>3. QED
    BY <1>1, <1>2

LEMMA EditLemma ==
  ASSUME NEW r \in Run, r.log.written, NEW list \in SUBSET Users,
         NEW s, \/ s = [r EXCEPT !.log.addresses = list]
                \/ s = [r EXCEPT !.log.recipients = list]
  PROVE  s \in Run /\ Edited(r, s)
  <1>1. PICK l : /\ s = [r EXCEPT !.log = l]
                 /\ l \in {[r.log EXCEPT !.addresses = list], [r.log EXCEPT !.recipients = list]}
    OBVIOUS
  <1>2. /\ l \in Log /\ l.written = r.log.written
        /\ l.priced = r.log.priced /\ l.published = r.log.published /\ l.sent = r.log.sent
        /\ l.filtered = r.log.filtered /\ l.digest = r.log.digest
        /\ l.recipientDigest = r.log.recipientDigest
    BY <1>1, LogType DEF Log
  <1>4. s \in Run /\ s.log = l
    BY <1>1, <1>2 DEF Run
  <1>5. /\ Lasting(r, s) /\ Unspent(r, s) /\ s.list = r.list
        /\ s.phase = r.phase /\ s.left = r.left /\ s.failed = r.failed
    BY <1>1 DEF Run, Lasting, Unspent
  <1>6. QED
    BY <1>2, <1>4, <1>5 DEF Edited, Approved, Account

-----------------------------------------------------------------------------
(* The kinds of step. *)

\* The line that says who was paid.
Notes(i, a) ==
  journal' = [journal EXCEPT ![runs[i].path] =
                @ \union {[run |-> KeyOf(runs[i]), addr |-> a]}]

\* An invocation begins, with a scan or from a log.
Fresh(r) ==
  /\ r.phase \in {"scanned", "filtered"} /\ ~r.failed
  /\ r.left = {} /\ r.recorded = {} /\ r.lapsed = {} /\ r.sent = 0
  /\ ~r.log.priced /\ ~r.log.published /\ r.log.sent = 0 /\ ~r.log.written

FromScan(r) ==
  /\ r.of = 0 /\ ~r.warned /\ ~r.log.filtered /\ r.list = r.log.digest
  /\ r.log.digest = Found(r.from, r.to)
  /\ r.flags.to # 0 => r.to = EndOf(r.flags, 0) /\ r.from = StartOf(r.flags, 0)

FromLog(r) ==
  LET j == r.of
  IN  /\ j \in Invocations /\ runs[j].log.written
      /\ r.from = runs[j].from /\ r.to = runs[j].to
      /\ r.list = IF Narrowed(runs[j].log) THEN runs[j].log.recipientDigest
                                           ELSE runs[j].log.digest
      /\ r.warned <=> Alarm(j, r.terms, r.path)

Starts(r) ==
  /\ runs' = Append(runs, r) /\ UNCHANGED <<journal, overlaps>>
  /\ Fresh(r) /\ (FromScan(r) \/ FromLog(r))

\* An invocation moves on.
Turns(i, s) ==
  \/ /\ Continues(runs[i], s) \/ Leaves(runs[i], s) \/ Finishes(runs[i], s) \/ Edited(runs[i], s)
     /\ UNCHANGED <<journal, overlaps>>
  \/ /\ Plans(runs[i], s, Paid(runs[i].path, KeyOf(runs[i])))
     /\ overlaps' = overlaps \union {{i, j} : j \in Sending} /\ UNCHANGED journal
  \/ \E a \in runs[i].left :
       /\ UNCHANGED overlaps
       /\ \/ Pays(runs[i], s, a) /\ Notes(i, a)
          \/ Lapses(runs[i], s, a) /\ (Notes(i, a) \/ UNCHANGED journal)

LEMMA RunsType ==
  ASSUME runs \in Seq(Run)
  PROVE  /\ Len(runs) \in Nat /\ Invocations = 1 .. Len(runs)
         /\ \A i \in Invocations : runs[i] \in Run
  BY ElementOfSeq, LenProperties DEF Invocations

LEMMA BecomesLemma ==
  ASSUME runs \in Seq(Run), NEW i \in Invocations, NEW s \in Run, Becomes(i, s)
  PROVE  /\ runs' \in Seq(Run) /\ Invocations' = Invocations
         /\ runs'[i] = s /\ \A k \in Invocations : k # i => runs'[k] = runs[k]
  <1>1. Len(runs) \in Nat /\ Invocations = 1 .. Len(runs)
    BY RunsType
  <1>2. runs' = [runs EXCEPT ![i] = s]
    BY DEF Becomes
  <1>3. runs' \in Seq(Run) /\ Len(runs') = Len(runs) /\ DOMAIN runs' = DOMAIN runs
    BY <1>1, <1>2, ExceptSeq DEF Invocations
  <1>4. QED
    BY <1>1, <1>2, <1>3 DEF Invocations

LEMMA StartsLemma ==
  ASSUME runs \in Seq(Run), NEW r \in Run, runs' = Append(runs, r),
         NEW n, n = Len(runs) + 1
  PROVE  /\ runs' \in Seq(Run) /\ n \notin Invocations
         /\ Invocations' = Invocations \union {n} /\ runs'[n] = r
         /\ \A k \in Invocations : runs'[k] = runs[k] /\ k < n
  <1>1. Len(runs) \in Nat /\ Invocations = 1 .. Len(runs)
    BY RunsType
  <1>2. /\ runs' \in Seq(Run) /\ Len(runs') = n
        /\ \A k \in 1 .. Len(runs) : runs'[k] = runs[k]
        /\ runs'[n] = r
    BY AppendProperties
  <1>3. DOMAIN runs' = 1 .. n
    BY <1>2, LenProperties
  <1>4. 1 .. n = (1 .. Len(runs)) \union {n}
    BY <1>1
  <1>5. QED
    BY <1>1, <1>2, <1>3, <1>4 DEF Invocations

\* The one paid next is one of those left.
LEMMA NextLemma ==
  ASSUME runs \in Seq(Run), NEW i \in Invocations, runs[i].left # {}
  PROVE  NextOf(i) \in runs[i].left
  <1>1. runs[i].left \subseteq Nat
    BY RunsType, CampaignAssumption DEF Run
  <1>2. \A S \in SUBSET Nat : S # {} => \E x \in S : \A y \in S : ~(y < x)
    <2>1. SUFFICES ASSUME NEW S \in SUBSET Nat, S # {}
                   PROVE  \E x \in S : \A y \in S : ~(y < x)
      OBVIOUS
    <2>2. PICK x \in S : \A y \in S : ~(<<y, x>> \in OpToRel(<, Nat))
      BY <2>1, WFMin, NatLessThanWellFounded
    <2>3. \A y \in S : y < x => <<y, x>> \in OpToRel(<, Nat)
      BY <2>1 DEF OpToRel
    <2>4. QED
      BY <2>2, <2>3
  <1>3. PICK x \in runs[i].left : \A y \in runs[i].left : ~(y < x)
    BY <1>1, <1>2
  <1>4. \A y \in runs[i].left : x =< y
    BY <1>1, <1>3
  <1>5. QED
    BY <1>3, <1>4 DEF NextOf, Min

\* A range that can be resolved lies within the chain; a -to fixes it.
LEMMA RangeLemma ==
  ASSUME NEW f \in RangeFlags, NEW h \in 1 .. MaxHeight, Resolvable(f, h)
  PROVE  /\ StartOf(f, h) \in 1 .. MaxHeight /\ EndOf(f, h) \in 1 .. MaxHeight
         /\ f.to # 0 => EndOf(f, h) = EndOf(f, 0) /\ StartOf(f, h) = StartOf(f, 0)
  <1>1. f.from \in Nat /\ f.last \in Nat /\ f.to \in Nat /\ MaxHeight \in Nat
    BY CampaignAssumption
  <1>2. EndOf(f, h) \in 1 .. MaxHeight /\ (f.to # 0 => EndOf(f, h) = EndOf(f, 0))
    BY <1>1 DEF EndOf, Resolvable
  <1>3. \A e \in 1 .. MaxHeight : f.last < e => e - f.last + 1 \in Nat \ {0}
    BY <1>1
  <1>4. StartOf(f, h) \in Nat \ {0}
    BY <1>1, <1>2, <1>3 DEF StartOf
  <1>5. StartOf(f, h) <= EndOf(f, h)
    BY DEF Resolvable
  <1>6. QED
    BY <1>1, <1>2, <1>4, <1>5 DEF StartOf

LEMMA FoundType ==
  ASSUME NEW from \in 1 .. MaxHeight, NEW to \in 1 .. MaxHeight
  PROVE  Found(from, to) \in SUBSET Users
  BY CampaignAssumption DEF Found

LEMMA ScanStep ==
  ASSUME runs \in Seq(Run), tip \in 1 .. MaxHeight,
         NEW f \in RangeFlags, NEW terms \in Terms \union {NoTerms}, NEW path \in Journals,
         Scan(f, terms, path)
  PROVE  \E r \in Run : Starts(r)
  <1>1. PICK from \in 1 .. MaxHeight, to \in 1 .. MaxHeight :
          /\ from = StartOf(f, tip) /\ to = EndOf(f, tip)
          /\ f.to # 0 => to = EndOf(f, 0) /\ from = StartOf(f, 0)
    BY RangeLemma DEF Scan
  <1>2. PICK found \in SUBSET Users : found = Found(from, to)
    BY FoundType
  <1>3. PICK l : l = NewScanLog(found)
    OBVIOUS
  <1>4. /\ l \in Log /\ l.digest = found
        /\ ~l.filtered /\ ~l.priced /\ ~l.published /\ ~l.written /\ l.sent = 0
    BY <1>3 DEF NewScanLog, NoLog, Log
  <1> DEFINE r == [phase |-> "scanned", flags |-> f, of |-> 0, from |-> from, to |-> to,
                   terms |-> terms, path |-> path,
                   list |-> found, left |-> {}, recorded |-> {}, lapsed |-> {},
                   sent |-> 0, failed |-> FALSE, warned |-> FALSE, log |-> l]
  <1>5. runs' = Append(runs, r)
    BY <1>1, <1>2, <1>3 DEF Scan, Begin
  <1>6. r \in Run
    BY <1>4, CampaignAssumption DEF Run
  <1>7. Fresh(r) /\ FromScan(r)
    BY <1>1, <1>2, <1>4 DEF Fresh, FromScan
  <1>8. UNCHANGED <<journal, overlaps>>
    BY DEF Scan
  <1>9. QED
    BY <1>5, <1>6, <1>7, <1>8 DEF Starts

LEMMA ReplayStep ==
  ASSUME runs \in Seq(Run), NEW j \in Ids, NEW override \in Terms \union {NoTerms},
         NEW path \in Journals, Replay(j, override, path)
  PROVE  \E r \in Run : Starts(r)
  <1>1. j \in Invocations /\ runs[j] \in Run /\ runs[j].log \in Log
    BY RunsType, LogType DEF Replay
  <1>2. PICK terms \in Terms \union {NoTerms} : terms = ReplayTerms(j, override)
    BY <1>1 DEF ReplayTerms, Run
  <1>3. PICK w \in BOOLEAN : w = Alarm(j, terms, path)
    BY DEF Alarm
  <1>4. PICK list \in SUBSET Users : list = ReplayList(runs[j].log)
    BY <1>1 DEF ReplayList, Log
  <1> DEFINE r == [phase |-> "filtered", flags |-> [from |-> 0, last |-> 0, to |-> 0],
                   of |-> j, from |-> runs[j].from, to |-> runs[j].to,
                   terms |-> terms, path |-> path, list |-> list, left |-> {},
                   recorded |-> {}, lapsed |-> {}, sent |-> 0, failed |-> FALSE,
                   warned |-> w, log |-> NoLog]
  <1>5. runs' = Append(runs, r)
    BY <1>2, <1>3, <1>4 DEF Replay, Begin
  <1>6. NoLog \in Log
    BY DEF NoLog, Log
  <1>7. j \in 0 .. MaxRuns
    BY CampaignAssumption DEF Ids
  <1>8. r \in Run
    BY <1>1, <1>6, <1>7 DEF Run
  <1>9. Fresh(r)
    BY DEF Fresh, NoLog
  <1>10. list = IF Narrowed(runs[j].log) THEN runs[j].log.recipientDigest
                                         ELSE runs[j].log.digest
    BY <1>4 DEF Replay, Replayable
  <1>11. runs[j].log.written
    BY DEF Replay, Replayable
  <1>12. FromLog(r)
    BY <1>1, <1>3, <1>10, <1>11 DEF FromLog
  <1>13. UNCHANGED <<journal, overlaps>>
    BY DEF Replay
  <1>14. QED
    BY <1>5, <1>8, <1>9, <1>12, <1>13 DEF Starts

LEMMA ProceedStep ==
  ASSUME runs \in Seq(Run), NEW i \in Ids,
         \/ LeaveUnfiltered(i) \/ Filter(i)
         \/ Plan(i) \/ LeaveUnsent(i) \/ StartSending(i)
         \/ Pay(i) \/ SendFails(i) \/ PayAndLapse(i) \/ Finish(i) \/ Kill(i)
         \/ Edit(i)
  PROVE  i \in Invocations /\ \E s \in Run : Becomes(i, s) /\ Turns(i, s)
  <1>1. i \in Invocations
    BY DEF LeaveUnfiltered, Filter, Plan, LeaveUnsent, StartSending, Pay, SendFails,
           PayAndLapse, Finish, Kill, Edit, At, Alive
  <1>2. PICK r \in Run : r = runs[i]
    BY <1>1, RunsType
  <1>3. CASE LeaveUnfiltered(i) \/ LeaveUnsent(i) \/ Kill(i)
    <2>1. PICK s : /\ Becomes(i, s)
                   /\ \/ r.phase \in {"scanned", "filtered", "planned"} /\ s = End(r, "over")
                      \/ r.phase \in AlivePhases /\ s = End(r, "killed")
      BY <1>2, <1>3 DEF LeaveUnfiltered, LeaveUnsent, Kill, At, Alive, AlivePhases
    <2>2. s \in Run /\ Leaves(r, s)
      BY <2>1, LeaveLemma
    <2>3. UNCHANGED <<journal, overlaps>>
      BY <1>3 DEF LeaveUnfiltered, LeaveUnsent, Kill
    <2>4. QED
      BY <1>1, <1>2, <2>1, <2>2, <2>3 DEF Turns
  <1>4. CASE Filter(i)
    <2>1. PICK kept \in SUBSET r.log.addresses :
            LET m == [Move(i, "filtered") EXCEPT !.list = kept, !.log = SetFilter(runs[i].log, kept)]
            IN  Becomes(i, IF kept = {} THEN End(m, "over") ELSE m)
      BY <1>2, <1>4 DEF Filter
    <2>2. PICK m : m = [[r EXCEPT !.phase = "filtered"]
                          EXCEPT !.list = kept, !.log = SetFilter(r.log, kept)]
      OBVIOUS
    <2>3. PICK s : s = IF kept = {} THEN End(m, "over") ELSE m
      OBVIOUS
    <2>4. Becomes(i, s)
      BY <1>2, <2>1, <2>2, <2>3 DEF Move
    <2>5. s \in Run /\ (Continues(r, s) \/ Leaves(r, s))
      BY <1>2, <1>4, <2>2, <2>3, FilterLemma DEF Filter, At
    <2>6. UNCHANGED <<journal, overlaps>>
      BY <1>4 DEF Filter
    <2>7. QED
      BY <1>1, <1>2, <2>4, <2>5, <2>6 DEF Turns
  <1>5. CASE Plan(i)
    <2>1. PICK paid : paid = Paid(runs[i].path, KeyOf(runs[i]))
      OBVIOUS
    <2>2. PICK s : s = [[r EXCEPT !.phase = "planned"]
                          EXCEPT !.left = r.list \ paid, !.log.priced = (r.of = 0)]
      OBVIOUS
    <2>3. Becomes(i, s)
      BY <1>2, <1>5, <2>1, <2>2 DEF Plan, Move
    <2>4. s \in Run /\ Plans(r, s, paid)
      BY <1>2, <1>5, <2>2, PlanLemma DEF Plan, At
    <2>5. overlaps' = overlaps \union {{i, j} : j \in Sending} /\ UNCHANGED journal
      BY <1>5 DEF Plan
    <2>6. QED
      BY <1>1, <1>2, <2>1, <2>3, <2>4, <2>5 DEF Turns
  <1>6. CASE StartSending(i)
    <2>1. PICK s : s = [r EXCEPT !.phase = "sending"]
      OBVIOUS
    <2>2. Becomes(i, s) /\ UNCHANGED <<journal, overlaps>>
      BY <1>2, <1>6, <2>1 DEF StartSending, Move
    <2>3. s \in Run /\ Continues(r, s)
      BY <1>2, <1>6, <2>1, StartLemma DEF StartSending, At
    <2>4. QED
      BY <1>1, <1>2, <2>2, <2>3 DEF Turns
  <1>7. CASE Pay(i)
    <2>1. PICK a \in r.left : a = NextOf(i)
      BY <1>1, <1>2, <1>7, NextLemma DEF Pay
    <2>2. PICK s : s = [r EXCEPT !.left = r.left \ {a}, !.recorded = r.recorded \union {a},
                                 !.sent = r.sent + 1]
      OBVIOUS
    <2>3. Becomes(i, s)
      BY <1>2, <1>7, <2>1, <2>2 DEF Pay
    <2>4. s \in Run /\ Pays(r, s, a)
      BY <1>2, <1>7, <2>2, PayLemma DEF Pay, At
    <2>5. Notes(i, a) /\ UNCHANGED overlaps
      BY <1>7, <2>1 DEF Pay, Write, Notes
    <2>6. QED
      BY <1>1, <1>2, <2>3, <2>4, <2>5 DEF Turns
  <1>8. CASE SendFails(i)
    <2>1. PICK s : s = [r EXCEPT !.left = r.left \ {NextOf(i)}, !.failed = TRUE]
      OBVIOUS
    <2>2. Becomes(i, s) /\ UNCHANGED <<journal, overlaps>>
      BY <1>2, <1>8, <2>1 DEF SendFails
    <2>3. s \in Run /\ Continues(r, s)
      BY <1>2, <1>8, <2>1, FailLemma DEF SendFails, At
    <2>4. QED
      BY <1>1, <1>2, <2>2, <2>3 DEF Turns
  <1>9. CASE PayAndLapse(i)
    <2>1. PICK a \in r.left : a = NextOf(i)
      BY <1>1, <1>2, <1>9, NextLemma DEF PayAndLapse
    <2>2. PICK m : m = [r EXCEPT !.left = r.left \ {a}, !.lapsed = r.lapsed \union {a},
                                 !.failed = TRUE]
      OBVIOUS
    <2>3. PICK s : /\ Becomes(i, s)
                   /\ s = m \/ s = End(Outcome(m), "over") \/ s = End(m, "killed")
      BY <1>2, <1>9, <2>1, <2>2 DEF PayAndLapse
    <2>4. s \in Run /\ Lapses(r, s, a)
      BY <1>2, <1>9, <2>2, <2>3, LapseLemma DEF PayAndLapse, At
    <2>5. (Notes(i, a) \/ UNCHANGED journal) /\ UNCHANGED overlaps
      BY <1>9, <2>1 DEF PayAndLapse, Write, Notes
    <2>6. QED
      BY <1>1, <1>2, <2>3, <2>4, <2>5 DEF Turns
  <1>10. CASE Finish(i)
    <2>1. PICK s : s = End(Outcome(r), IF r.left = {} /\ ~r.failed THEN "done" ELSE "over")
      OBVIOUS
    <2>2. Becomes(i, s) /\ UNCHANGED <<journal, overlaps>>
      BY <1>2, <1>10, <2>1 DEF Finish
    <2>3. s \in Run /\ Finishes(r, s)
      BY <1>2, <1>10, <2>1, FinishLemma DEF Finish, At
    <2>4. QED
      BY <1>1, <1>2, <2>2, <2>3 DEF Turns
  <1>11. CASE Edit(i)
    <2>1. PICK list \in SUBSET Users :
            \/ Becomes(i, [runs[i] EXCEPT !.log.addresses = list])
            \/ Becomes(i, [runs[i] EXCEPT !.log.recipients = list])
      BY <1>11 DEF Edit
    <2>2. PICK s : /\ Becomes(i, s)
                   /\ s \in {[r EXCEPT !.log.addresses = list], [r EXCEPT !.log.recipients = list]}
      BY <1>2, <2>1
    <2>3. s \in Run /\ Edited(r, s)
      BY <1>2, <1>11, <2>2, EditLemma DEF Edit
    <2>4. UNCHANGED <<journal, overlaps>>
      BY <1>11 DEF Edit
    <2>5. QED
      BY <1>1, <1>2, <2>2, <2>3, <2>4 DEF Turns
  <1>12. QED
    BY <1>3, <1>4, <1>5, <1>6, <1>7, <1>8, <1>9, <1>10, <1>11

\* A step: to the chain alone, a beginning, or a turn of somebody.
Step ==
  \/ UNCHANGED <<journal, runs, overlaps>>
  \/ \E r \in Run : Starts(r)
  \/ \E i \in Invocations : \E s \in Run : Becomes(i, s) /\ Turns(i, s)

LEMMA StepKinds ==
  ASSUME runs \in Seq(Run), tip \in 1 .. MaxHeight, [Next]_vars
  PROVE  Step
  <1>1. CASE UNCHANGED vars \/ NewMomentum
    BY <1>1 DEF vars, NewMomentum, Step
  <1>2. CASE ScanAnything
    BY <1>2, ScanStep DEF ScanAnything, Step
  <1>3. CASE ReplayAnything
    BY <1>3, ReplayStep DEF ReplayAnything, Step
  <1>4. CASE Proceed \/ EditALog
    BY <1>4, ProceedStep DEF Proceed, EditALog, Step
  <1>5. QED
    BY <1>1, <1>2, <1>3, <1>4 DEF Next

LEMMA BoundsStep ==
  ASSUME tip \in 1 .. MaxHeight, mishaps \in 0 .. MaxMishaps, [Next]_vars
  PROVE  tip' \in 1 .. MaxHeight /\ mishaps' \in 0 .. MaxMishaps
  <1>1. /\ tip' = tip \/ (tip < MaxHeight /\ tip' = tip + 1)
        /\ mishaps' = mishaps \/ (mishaps < MaxMishaps /\ mishaps' = mishaps + 1)
    BY DEF vars, Next, NewMomentum, ScanAnything, Scan, ReplayAnything, Replay, Proceed,
           EditALog, LeaveUnfiltered, Filter, Plan, LeaveUnsent, StartSending, Pay, SendFails,
           PayAndLapse, Finish, Kill, Edit
  <1>2. QED
    BY <1>1, CampaignAssumption

\* Who was paid by an invocation stays paid by it; once it has ended, only its
\* log changes.
Older(r, s) ==
  /\ Lasting(r, s) /\ r.recorded \subseteq s.recorded /\ r.lapsed \subseteq s.lapsed
  /\ r.phase \notin AlivePhases =>
       /\ s.phase = r.phase /\ Unspent(r, s) /\ Approved(r, s) /\ Account(r, s)
       /\ s.left = r.left

LEMMA TurnIsOlder ==
  ASSUME NEW i \in Invocations, NEW s \in Run, Turns(i, s)
  PROVE  Older(runs[i], s)
  <1>1. CASE Continues(runs[i], s)
    BY <1>1 DEF Older, Continues, Unspent, AlivePhases
  <1>2. CASE Leaves(runs[i], s) \/ Finishes(runs[i], s)
    BY <1>2 DEF Older, Leaves, Finishes, Unspent, AlivePhases
  <1>3. CASE Edited(runs[i], s)
    BY <1>3 DEF Older, Edited, Unspent
  <1>4. CASE Plans(runs[i], s, Paid(runs[i].path, KeyOf(runs[i])))
    BY <1>4 DEF Older, Plans, Unspent, AlivePhases
  <1>5. CASE \E a \in runs[i].left : Pays(runs[i], s, a) \/ Lapses(runs[i], s, a)
    BY <1>5 DEF Older, Pays, Lapses, AlivePhases
  <1>6. QED
    BY <1>1, <1>2, <1>3, <1>4, <1>5 DEF Turns

\* So nothing is taken back.
Grows ==
  /\ runs' \in Seq(Run) /\ Invocations \subseteq Invocations'
  /\ \A k \in Invocations : Older(runs[k], runs'[k])
  /\ \A path \in Journals : journal[path] \subseteq journal'[path]
  /\ overlaps \subseteq overlaps'

LEMMA StepGrows ==
  ASSUME runs \in Seq(Run), DOMAIN journal = Journals, Step
  PROVE  Grows
  <1>0. \A r : Older(r, r)
    BY DEF Older, Lasting, Unspent, Approved, Account
  <1>1. CASE UNCHANGED <<journal, runs, overlaps>>
    BY <1>0, <1>1 DEF Grows, Invocations
  <1>2. CASE \E r \in Run : Starts(r)
    BY <1>0, <1>2, StartsLemma DEF Starts, Grows
  <1>3. ASSUME NEW i \in Invocations, NEW s \in Run, Becomes(i, s), Turns(i, s)
        PROVE  Grows
    <2>1. \A k \in Invocations : Older(runs[k], runs'[k])
      BY <1>0, <1>3, BecomesLemma, TurnIsOlder
    <2>2. runs' \in Seq(Run) /\ Invocations \subseteq Invocations'
      BY <1>3, BecomesLemma
    <2>3. /\ journal' = journal \/ \E a : Notes(i, a)
          /\ overlaps \subseteq overlaps'
      BY <1>3 DEF Turns
    <2>4. \A path \in Journals : journal[path] \subseteq journal'[path]
      BY <2>3 DEF Notes
    <2>5. QED
      BY <2>1, <2>2, <2>3, <2>4 DEF Grows
  <1>4. QED
    BY <1>1, <1>2, <1>3 DEF Step

LEMMA GrowsLemma ==
  ASSUME Grows
  PROVE  /\ \A k \in Invocations : KeyOf(runs'[k]) = KeyOf(runs[k]) /\ PaidBy(k) \subseteq PaidBy(k)'
         /\ \A k, l \in Invocations : SameAirdrop(k, l)' <=> SameAirdrop(k, l)
         /\ \A path \in Journals : \A key : Paid(path, key) \subseteq Paid(path, key)'
  <1>1. \A k \in Invocations : KeyOf(runs'[k]) = KeyOf(runs[k]) /\ PaidBy(k) \subseteq PaidBy(k)'
    BY DEF Grows, Older, Lasting, KeyOf, PaidBy
  <1>2. \A k, l \in Invocations : SameAirdrop(k, l)' <=> SameAirdrop(k, l)
    BY <1>1 DEF Grows, Older, Lasting, SameAirdrop
  <1>3. \A path \in Journals : \A key : Paid(path, key) \subseteq Paid(path, key)'
    BY DEF Grows, Paid
  <1>4. QED
    BY <1>1, <1>2, <1>3
=============================================================================
