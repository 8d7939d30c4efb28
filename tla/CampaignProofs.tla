--------------------------- MODULE CampaignProofs ---------------------------
(***************************************************************************)
(* Theorems about the airdrops an operator runs over days, for any users,  *)
(* ranges, journals and number of invocations, which may run at the same   *)
(* time.  One lemma says of each part of the inductive invariant that a    *)
(* step keeps it.                                                          *)
(***************************************************************************)
EXTENDS CampaignSteps

LEMMA TypeStep ==
  ASSUME TypeOK, StageSound, [Next]_vars
  PROVE  TypeOK'
  <1>1. Step /\ tip' \in 1 .. MaxHeight /\ mishaps' \in 0 .. MaxMishaps
    BY StepKinds, BoundsStep DEF TypeOK
  <1>2. /\ runs \in Seq(Run) /\ overlaps \subseteq {{i, j} : i, j \in Invocations}
        /\ \A i \in Invocations : runs[i].of < i /\ runs[i].left \subseteq runs[i].list
    BY DEF TypeOK
  <1>3. CASE UNCHANGED <<journal, runs, overlaps>>
    BY <1>1, <1>2, <1>3 DEF TypeOK, Invocations
  <1>4. ASSUME NEW r \in Run, Starts(r)
        PROVE  TypeOK'
    <2>1. PICK n \in Nat : n = Len(runs) + 1
      BY <1>2, RunsType
    <2>2. /\ runs' \in Seq(Run) /\ Invocations' = Invocations \union {n} /\ runs'[n] = r
          /\ \A k \in Invocations : runs'[k] = runs[k] /\ k < n
      <3>1. runs' = Append(runs, r)
        BY <1>4 DEF Starts
      <3>2. runs \in Seq(Run)
        BY <1>2
      <3>3. QED
        BY <2>1, <3>1, <3>2, StartsLemma
    <2>3. r.of < n
      <3>1. Len(runs) \in Nat
        BY <1>2, RunsType
      <3>2. r.of = 0 \/ r.of \in Invocations
        BY <1>4 DEF Starts, FromScan, FromLog
      <3>3. QED
        BY <2>1, <2>2, <3>1, <3>2
    <2>4. r.left = {} /\ overlaps' = overlaps
      BY <1>4 DEF Starts, Fresh
    <2>5. overlaps' \subseteq {{i, j} : i, j \in Invocations'}
      BY <1>2, <2>2, <2>4
    <2>6. QED
      BY <1>1, <1>2, <2>2, <2>3, <2>4, <2>5 DEF TypeOK
  <1>5. ASSUME NEW i \in Invocations, NEW s \in Run, Becomes(i, s), Turns(i, s)
        PROVE  TypeOK'
    <2>1. /\ runs' \in Seq(Run) /\ Invocations' = Invocations
          /\ runs'[i] = s /\ \A k \in Invocations : k # i => runs'[k] = runs[k]
      BY <1>2, <1>5, BecomesLemma
    <2>2. s.of = runs[i].of
      BY <1>5, TurnIsOlder DEF Older, Lasting
    <2>3. s.left \subseteq s.list
      <3>1. runs[i].left \subseteq runs[i].list
        BY <1>2
      <3>2. runs[i].phase = "scanned" => runs[i].left = {}
        BY DEF StageSound, Sending
      <3>3. CASE Continues(runs[i], s) \/ Edited(runs[i], s)
        BY <3>1, <3>2, <3>3 DEF Continues, Edited, Approved
      <3>4. CASE Leaves(runs[i], s) \/ Finishes(runs[i], s)
        BY <3>4 DEF Leaves, Finishes
      <3>5. CASE Plans(runs[i], s, Paid(runs[i].path, KeyOf(runs[i])))
        BY <3>5 DEF Plans, Approved
      <3>6. CASE \E a \in runs[i].left : Pays(runs[i], s, a) \/ Lapses(runs[i], s, a)
        BY <3>1, <3>6 DEF Pays, Lapses, Approved
      <3>7. QED
        BY <1>5, <3>3, <3>4, <3>5, <3>6 DEF Turns
    <2>4. overlaps' \subseteq {{k, j} : k, j \in Invocations}
      <3>1. overlaps' = overlaps \/ overlaps' = overlaps \union {{i, j} : j \in Sending}
        BY <1>5 DEF Turns
      <3>2. Sending \subseteq Invocations
        BY DEF Sending
      <3>3. QED
        BY <1>2, <3>1, <3>2
    <2>5. QED
      BY <1>1, <1>2, <2>1, <2>2, <2>3, <2>4 DEF TypeOK
  <1>6. QED
    BY <1>1, <1>3, <1>4, <1>5 DEF Step

LEMMA JournalStep ==
  ASSUME TypeOK, JournalSound, Step
  PROVE  JournalSound'
  <1>1. /\ runs \in Seq(Run) /\ journal \in [Journals -> SUBSET [run : Keys, addr : Users]]
        /\ Grows
    BY StepGrows DEF TypeOK, JournalSound
  <1>2. \A path \in Journals : \A line \in journal[path] : \E j \in Invocations' :
          runs'[j].path = path /\ KeyOf(runs'[j]) = line.run /\ line.addr \in PaidBy(j)'
    BY <1>1, GrowsLemma DEF JournalSound, Grows, Older, Lasting
  <1>3. CASE UNCHANGED journal
    BY <1>2, <1>3 DEF JournalSound
  <1>4. ASSUME NEW i \in Invocations, NEW s \in Run, Becomes(i, s), Turns(i, s),
               NEW a \in runs[i].left, Notes(i, a), a \in s.recorded \union s.lapsed
        PROVE  JournalSound'
    <2>1. runs'[i] = s /\ i \in Invocations'
      BY <1>1, <1>4, BecomesLemma
    <2>2. a \in Users /\ runs[i].path \in Journals /\ KeyOf(runs[i]) \in Keys
      BY <1>1, <1>4, RunsType DEF Run, KeyOf, RunKey, Keys
    <2>3. PICK line : line = [run |-> KeyOf(runs[i]), addr |-> a]
      OBVIOUS
    <2>4. /\ line \in [run : Keys, addr : Users]
          /\ runs'[i].path = runs[i].path /\ KeyOf(runs'[i]) = line.run
          /\ line.addr \in PaidBy(i)'
      BY <1>1, <1>4, <2>1, <2>2, <2>3, GrowsLemma DEF Grows, Older, Lasting, PaidBy
    <2>5. \A path \in Journals :
            journal'[path] = IF path = runs[i].path THEN journal[path] \union {line}
                                                    ELSE journal[path]
      BY <1>1, <1>4, <2>3 DEF Notes
    <2>6. journal' \in [Journals -> SUBSET [run : Keys, addr : Users]]
      BY <1>1, <1>4, <2>2, <2>3, <2>4 DEF Notes
    <2>7. \A path \in Journals : IsFiniteSet(journal'[path])
      <3>1. \A path \in Journals : IsFiniteSet(journal[path]) /\ IsFiniteSet(journal[path] \union {line})
        BY FS_AddElement DEF JournalSound
      <3>2. QED
        BY <2>5, <3>1
    <2>8. QED
      BY <1>2, <2>1, <2>4, <2>5, <2>6, <2>7 DEF JournalSound
  <1>5. QED
    BY <1>3, <1>4 DEF Step, Starts, Turns, Pays, Lapses

\* Whom a journal has for an airdrop are finitely many.
LEMMA PaidFinite ==
  ASSUME JournalSound, NEW path \in Journals, NEW key
  PROVE  IsFiniteSet(Paid(path, key))
  <1> DEFINE lines == {l \in journal[path] : l.run = key}
             f == [l \in lines |-> l.addr]
  <1>1. IsFiniteSet(lines)
    BY FS_Subset DEF JournalSound
  <1>2. f \in Surjection(lines, Paid(path, key))
    BY DEF Surjection, Paid
  <1>3. QED
    BY <1>1, <1>2, FS_Surjection

LEMMA PaidFinitePrimed ==
  ASSUME JournalSound', NEW path \in Journals, NEW key
  PROVE  IsFiniteSet(Paid(path, key))'
  <1> DEFINE lines == {l \in journal'[path] : l.run = key}
             f == [l \in lines |-> l.addr]
  <1>1. IsFiniteSet(lines)
    BY FS_Subset DEF JournalSound
  <1>2. f \in Surjection(lines, Paid(path, key)')
    BY DEF Surjection, Paid
  <1>3. QED
    BY <1>1, <1>2, FS_Surjection

\* A turn, where everybody else stays as they are.
LEMMA TurnLemma ==
  ASSUME TypeOK, NEW i \in Invocations, NEW s \in Run, Becomes(i, s), Turns(i, s)
  PROVE  /\ runs[i] \in Run /\ Invocations' = Invocations
         /\ runs'[i] = s /\ \A k \in Invocations : k # i => runs'[k] = runs[k]
         /\ Older(runs[i], s)
  <1>1. runs \in Seq(Run)
    BY DEF TypeOK
  <1>2. QED
    BY <1>1, RunsType, BecomesLemma, TurnIsOlder

\* A beginning, likewise.
LEMMA BeginLemma ==
  ASSUME TypeOK, NEW r \in Run, Starts(r)
  PROVE  \E n \in Nat :
           /\ n \notin Invocations /\ Invocations' = Invocations \union {n} /\ runs'[n] = r
           /\ \A k \in Invocations : runs'[k] = runs[k]
  <1>1. runs \in Seq(Run) /\ runs' = Append(runs, r)
    BY DEF TypeOK, Starts
  <1>2. PICK n \in Nat : n = Len(runs) + 1
    BY <1>1, RunsType
  <1>3. QED
    BY <1>1, <1>2, StartsLemma

\* What RecordSound says of one invocation.
Counted(k) ==
  /\ runs[k].recorded \subseteq Paid(runs[k].path, KeyOf(runs[k]))
  /\ IsFiniteSet(runs[k].recorded) /\ runs[k].sent = Cardinality(runs[k].recorded)

LEMMA RecordStep ==
  ASSUME TypeOK, JournalSound, RecordSound, StageSound, Step
  PROVE  RecordSound'
  <1>1. /\ Grows /\ Invocations \subseteq Invocations'
        /\ \A path \in Journals : \A key : Paid(path, key) \subseteq Paid(path, key)'
        /\ \A k \in Invocations : KeyOf(runs'[k]) = KeyOf(runs[k]) /\ runs'[k].path = runs[k].path
    BY StepGrows, GrowsLemma DEF TypeOK, JournalSound, Grows, Older, Lasting
  <1>2. \A k \in Invocations : runs[k].path \in Journals
    BY RunsType, SMTT(30) DEF TypeOK, Run
  <1>3. \A k \in Invocations :
          runs'[k].recorded = runs[k].recorded /\ runs'[k].sent = runs[k].sent => Counted(k)'
    <2>1. SUFFICES ASSUME NEW k \in Invocations, runs'[k].recorded = runs[k].recorded,
                          runs'[k].sent = runs[k].sent
                   PROVE  Counted(k)'
      OBVIOUS
    <2>2. Counted(k)
      BY DEF RecordSound, Counted
    <2>3. Paid(runs[k].path, KeyOf(runs[k])) \subseteq Paid(runs[k].path, KeyOf(runs[k]))'
      <3>1. PICK path, key : path \in Journals /\ path = runs[k].path /\ key = KeyOf(runs[k])
        BY <1>2
      <3>2. Paid(path, key) \subseteq Paid(path, key)'
        <4>1. path \in Journals
          BY <3>1
        <4>2. QED
          BY <1>1, <4>1
      <3>3. path = runs'[k].path /\ key = KeyOf(runs'[k])
        BY <1>1, <3>1
      <3>4. QED
        BY <3>1, <3>2, <3>3 DEF Paid
    <2>4. QED
      BY <2>1, <2>2, <2>3 DEF Counted
  <1>4. CASE UNCHANGED <<journal, runs, overlaps>>
    BY <1>4 DEF RecordSound, Invocations, Paid
  <1>5. ASSUME NEW r \in Run, Starts(r)
        PROVE  RecordSound'
    <2>1. PICK n \in Nat :
            /\ Invocations' = Invocations \union {n} /\ runs'[n] = r
            /\ \A k \in Invocations : runs'[k] = runs[k]
      BY <1>5, BeginLemma
    <2>2. r.recorded = {} /\ r.sent = 0
      BY <1>5 DEF Starts, Fresh
    <2>3. QED
      BY <1>3, <2>1, <2>2, FS_EmptySet DEF RecordSound, Counted
  <1>6. ASSUME NEW i \in Invocations, NEW s \in Run, Becomes(i, s), Turns(i, s)
        PROVE  RecordSound'
    <2>1. /\ runs[i] \in Run /\ Invocations' = Invocations
          /\ runs'[i] = s /\ \A k \in Invocations : k # i => runs'[k] = runs[k]
      BY <1>6, TurnLemma
    <2>2. CASE Unspent(runs[i], s)
      BY <1>3, <2>1, <2>2 DEF RecordSound, Counted, Unspent
    <2>3. ASSUME NEW a \in runs[i].left, Pays(runs[i], s, a), Notes(i, a)
          PROVE  RecordSound'
      <3>1. s.recorded = runs[i].recorded \union {a} /\ s.sent = runs[i].sent + 1
        BY <2>3 DEF Pays
      <3>2. a \notin runs[i].recorded
        BY DEF StageSound, PaidBy
      <3>3. PICK line : line = [run |-> KeyOf(runs[i]), addr |-> a]
        OBVIOUS
      <3>4. line.run = KeyOf(runs[i]) /\ line.addr = a /\ line \in journal'[runs[i].path]
        BY <1>2, <2>3, <3>3 DEF Notes, JournalSound
      <3>5. a \in Paid(runs[i].path, KeyOf(runs[i]))'
        BY <1>1, <3>4, <2>1 DEF Paid
      <3>6. runs[i].recorded \subseteq Paid(runs[i].path, KeyOf(runs[i]))
            /\ IsFiniteSet(runs[i].recorded) /\ runs[i].sent = Cardinality(runs[i].recorded)
        BY DEF RecordSound
      <3>7. runs'[i].recorded \subseteq Paid(runs[i].path, KeyOf(runs[i]))'
        <4>1. PICK path, key : path \in Journals /\ path = runs[i].path /\ key = KeyOf(runs[i])
          BY <1>2
        <4>2. Paid(path, key) \subseteq Paid(path, key)'
          <5>1. path \in Journals
            BY <4>1
          <5>2. QED
            BY <1>1, <5>1
        <4>3. path = runs'[i].path /\ key = KeyOf(runs'[i])
          BY <1>1, <4>1
        <4>4. runs[i].recorded \subseteq Paid(runs[i].path, KeyOf(runs[i]))'
          BY <3>6, <4>1, <4>2, <4>3 DEF Paid
        <4>5. QED
          BY <2>1, <3>1, <3>5, <4>4
      <3>8. IsFiniteSet(s.recorded) /\ s.sent = Cardinality(s.recorded)
        BY <3>1, <3>2, <3>6, FS_AddElement
      <3>9. QED
        BY <1>3, <2>1, <3>7, <3>8 DEF RecordSound, Counted
    <2>4. ASSUME NEW a \in runs[i].left, Lapses(runs[i], s, a)
          PROVE  RecordSound'
      BY <1>3, <2>1, <2>4 DEF RecordSound, Counted, Lapses
    <2>5. QED
      BY <1>6, <2>2, <2>3, <2>4 DEF Turns, Continues, Leaves, Finishes, Edited, Plans
  <1>7. QED
    BY <1>4, <1>5, <1>6 DEF Step

\* What the stages ask of one record.
Staged(r) ==
  /\ r.phase \in {"scanned", "filtered", "planned"} => r.recorded \union r.lapsed = {}
  /\ r.left # {} => r.phase \in {"planned", "sending"}
  /\ r.left \intersect (r.recorded \union r.lapsed) = {}
  /\ r.phase \in AlivePhases => ~r.log.written /\ ~r.log.published /\ r.log.sent = 0
  /\ r.phase \in {"planned", "sending"} /\ r.of = 0 => r.log.priced
  /\ r.log.written => r.of = 0 /\ r.phase # "killed"

LEMMA StagedLemma == StageSound <=> \A i \in Invocations : Staged(runs[i])
  BY DEF StageSound, Staged, AlivePhases, Alive, Sending, PaidBy

LEMMA StagedPrimed == StageSound' <=> \A i \in Invocations' : Staged(runs'[i])
  BY DEF StageSound, Staged, AlivePhases, Alive, Sending, PaidBy

LEMMA StageStep ==
  ASSUME TypeOK, StageSound, Step
  PROVE  StageSound'
  <1>1. \A i \in Invocations : Staged(runs[i])
    BY StagedLemma
  <1>2. CASE UNCHANGED <<journal, runs, overlaps>>
    BY <1>1, <1>2, StagedPrimed DEF Invocations
  <1>3. ASSUME NEW r \in Run, Starts(r)
        PROVE  StageSound'
    <2>1. PICK n \in Nat :
            /\ Invocations' = Invocations \union {n} /\ runs'[n] = r
            /\ \A k \in Invocations : runs'[k] = runs[k]
      BY <1>3, BeginLemma
    <2>2. Staged(r)
      BY <1>3 DEF Starts, Fresh, Staged
    <2>3. QED
      BY <1>1, <2>1, <2>2, StagedPrimed
  <1>4. ASSUME NEW i \in Invocations, NEW s \in Run, Becomes(i, s), Turns(i, s)
        PROVE  StageSound'
    <2>1. /\ runs[i] \in Run /\ Invocations' = Invocations
          /\ runs'[i] = s /\ \A k \in Invocations : k # i => runs'[k] = runs[k]
      BY <1>4, TurnLemma
    <2>2. PICK r \in Run : r = runs[i] /\ Staged(r)
      BY <1>1, <2>1
    <2>3. Staged(s)
      <3>1. CASE Continues(r, s)
        BY <2>2, <3>1 DEF Continues, Staged, Lasting, Unspent, Account, AlivePhases
      <3>2. CASE Leaves(r, s)
        BY <2>2, <3>2 DEF Leaves, Staged, Lasting, Unspent, AlivePhases
      <3>3. CASE Finishes(r, s)
        BY <2>2, <3>3 DEF Finishes, Reported, Staged, Lasting, Unspent, AlivePhases
      <3>4. CASE Edited(r, s)
        BY <2>2, <3>4 DEF Edited, Staged, Lasting, Unspent, Account
      <3>5. CASE \E paid : Plans(r, s, paid)
        BY <2>2, <3>5 DEF Plans, Staged, Lasting, Unspent, AlivePhases
      <3>6. CASE \E a \in r.left : Pays(r, s, a)
        BY <2>2, <3>6 DEF Pays, Staged, Lasting, Account, AlivePhases
      <3>7. CASE \E a \in r.left : Lapses(r, s, a)
        BY <2>2, <3>7, ZenonT(60) DEF Lapses, Reported, Staged, Lasting, Account, AlivePhases
      <3>8. QED
        BY <1>4, <2>2, <3>1, <3>2, <3>3, <3>4, <3>5, <3>6, <3>7 DEF Turns
    <2>4. QED
      BY <1>1, <2>1, <2>3, StagedPrimed
  <1>5. QED
    BY <1>2, <1>3, <1>4 DEF Step

\* Whether it has read the journal, and may send.
Reading(r) == r.phase \in {"planned", "sending"}

\* But for the reading of the journal, nobody is added to those left to pay; and
\* but for a payment by one who sends, nobody to those on record.
LEMMA TurnSpends ==
  ASSUME NEW i \in Invocations, NEW s \in Run, Turns(i, s)
  PROVE  \/ /\ Plans(runs[i], s, Paid(runs[i].path, KeyOf(runs[i])))
            /\ overlaps' = overlaps \union {{i, j} : j \in Sending}
         \/ /\ Reading(s) => Reading(runs[i])
            /\ s.left \subseteq runs[i].left /\ overlaps' = overlaps
            /\ s.recorded # runs[i].recorded => Reading(runs[i])
            /\ s.recorded \subseteq runs[i].recorded \union runs[i].left
  <1>1. CASE Continues(runs[i], s) \/ Leaves(runs[i], s)
    BY <1>1 DEF Turns, Continues, Leaves, Unspent, Reading, AlivePhases
  <1>2. CASE Finishes(runs[i], s) \/ Edited(runs[i], s)
    BY <1>2 DEF Turns, Finishes, Edited, Unspent, Reading
  <1>3. CASE Plans(runs[i], s, Paid(runs[i].path, KeyOf(runs[i])))
    BY <1>3 DEF Turns, Continues, Leaves, Finishes, Edited, Pays, Lapses, Plans
  <1>4. CASE \E a \in runs[i].left : Pays(runs[i], s, a)
    BY <1>4 DEF Turns, Pays, Plans, Reading
  <1>5. CASE \E a \in runs[i].left : Lapses(runs[i], s, a)
    BY <1>5 DEF Turns, Lapses, Plans, Reading
  <1>6. QED
    BY <1>1, <1>2, <1>3, <1>4, <1>5 DEF Turns

Apart(k, l) ==
  /\ k \in Sending /\ l \in Sending => {k, l} \in overlaps
  /\ SameAirdrop(k, l) /\ {k, l} \notin overlaps =>
       /\ runs[k].left \intersect runs[l].recorded = {}
       /\ runs[k].recorded \intersect runs[l].recorded = {}

LEMMA ApartStep ==
  ASSUME TypeOK, JournalSound, RecordSound, StageSound, LeftUnpaid, PaidOncePerKey, Step
  PROVE  LeftUnpaid' /\ PaidOncePerKey'
  <1>1. \A k, l \in Invocations : k # l => Apart(k, l)
    BY DEF LeftUnpaid, PaidOncePerKey, Apart
  <1>2. SUFFICES \A k, l \in Invocations' : k # l => Apart(k, l)'
    BY DEF LeftUnpaid, PaidOncePerKey, Apart
  <1>3. /\ \A k, l \in Invocations : SameAirdrop(k, l)' <=> SameAirdrop(k, l)
        /\ overlaps \subseteq overlaps'
    BY StepGrows, GrowsLemma DEF TypeOK, JournalSound, Grows
  <1>4. /\ \A k \in Invocations : k \in Sending <=> Reading(runs[k])
        /\ \A k \in Invocations' : k \in Sending' <=> Reading(runs'[k])
    BY DEF Sending, Reading
  <1>5. ASSUME NEW k \in Invocations, NEW l \in Invocations, k # l,
               k \in Invocations', l \in Invocations',
               Reading(runs'[k]) => Reading(runs[k]), Reading(runs'[l]) => Reading(runs[l]),
               runs'[k].left \subseteq runs[k].left,
               runs'[k].recorded = runs[k].recorded, runs'[l].recorded = runs[l].recorded
        PROVE  Apart(k, l)'
    BY <1>1, <1>3, <1>4, <1>5 DEF Apart
  <1>6. CASE UNCHANGED <<journal, runs, overlaps>>
    BY <1>5, <1>6 DEF Invocations
  <1>7. ASSUME NEW r \in Run, Starts(r)
        PROVE  \A k, l \in Invocations' : k # l => Apart(k, l)'
    <2>1. PICK n \in Nat :
            /\ Invocations' = Invocations \union {n} /\ runs'[n] = r
            /\ \A k \in Invocations : runs'[k] = runs[k]
      BY <1>7, BeginLemma
    <2>2. ~Reading(r) /\ r.left = {} /\ r.recorded = {}
      BY <1>7 DEF Starts, Fresh, Reading
    <2>3. \A k \in Invocations' : Apart(k, n)' /\ Apart(n, k)'
      BY <1>4, <2>1, <2>2 DEF Apart
    <2>4. QED
      BY <1>5, <2>1, <2>3
  <1>8. ASSUME NEW i \in Invocations, NEW s \in Run, Becomes(i, s), Turns(i, s)
        PROVE  \A k, l \in Invocations' : k # l => Apart(k, l)'
    <2>1. /\ Invocations' = Invocations
          /\ runs'[i] = s /\ \A k \in Invocations : k # i => runs'[k] = runs[k]
      BY <1>8, TurnLemma
    <2>2. \A k, l \in Invocations : k # l /\ k # i /\ l # i => Apart(k, l)'
      BY <1>5, <2>1
    <2>3. SUFFICES ASSUME NEW k \in Invocations, k # i
                   PROVE  Apart(k, i)' /\ Apart(i, k)'
      BY <2>1, <2>2
    <2>4. runs'[k] = runs[k] /\ {i, k} = {k, i}
      BY <2>1, <2>3
    <2>5. Apart(k, i) /\ Apart(i, k) /\ (SameAirdrop(k, i) <=> SameAirdrop(i, k))
      BY <1>1, <2>3 DEF SameAirdrop
    <2>6. CASE /\ Plans(runs[i], s, Paid(runs[i].path, KeyOf(runs[i])))
               /\ overlaps' = overlaps \union {{i, j} : j \in Sending}
      <3>1. /\ s.left = runs[i].list \ Paid(runs[i].path, KeyOf(runs[i]))
            /\ s.recorded = runs[i].recorded /\ runs[i].phase = "filtered"
        BY <2>6 DEF Plans, Unspent
      <3>2. runs[i].recorded = {}
        BY <3>1 DEF StageSound, PaidBy
      <3>3. k \in Sending => {i, k} \in overlaps'
        BY <2>6
      <3>4. k \in Sending' <=> k \in Sending
        BY <1>4, <2>1, <2>4
      <3>5. ASSUME SameAirdrop(i, k) \/ SameAirdrop(k, i)
            PROVE  s.left \intersect runs[k].recorded = {}
        <4>1. runs[i].path = runs[k].path /\ KeyOf(runs[i]) = KeyOf(runs[k])
          BY <3>5 DEF SameAirdrop
        <4>2. runs[k].recorded \subseteq Paid(runs[i].path, KeyOf(runs[i]))
          BY <4>1 DEF RecordSound
        <4>3. QED
          BY <3>1, <4>2
      <3>6. Apart(k, i)'
        BY <1>3, <2>1, <2>4, <2>5, <3>1, <3>2, <3>3, <3>4 DEF Apart
      <3>7. Apart(i, k)'
        BY <1>3, <2>1, <2>4, <2>5, <3>1, <3>2, <3>3, <3>4, <3>5 DEF Apart
      <3>8. QED
        BY <3>6, <3>7
    <2>7. CASE /\ Reading(s) => Reading(runs[i])
               /\ s.left \subseteq runs[i].left /\ overlaps' = overlaps
               /\ s.recorded # runs[i].recorded => Reading(runs[i])
               /\ s.recorded \subseteq runs[i].recorded \union runs[i].left
      <3>1. CASE s.recorded = runs[i].recorded
        BY <1>5, <2>1, <2>3, <2>4, <2>7, <3>1
      <3>2. CASE s.recorded # runs[i].recorded
        <4>1. i \in Sending
          BY <1>4, <2>7, <3>2
        <4>2. CASE k \in Sending
          <5>1. {i, k} \in overlaps'
            BY <2>5, <2>7, <4>1, <4>2 DEF Apart
          <5>2. QED
            BY <2>4, <5>1 DEF Apart
        <4>3. CASE k \notin Sending
          <5>1. runs[k].left = {}
            BY <4>3 DEF StageSound
          <5>2. k \notin Sending'
            BY <1>4, <2>1, <2>4, <4>3
          <5>3. Apart(k, i)'
            BY <1>3, <2>1, <2>4, <2>5, <2>7, <5>1, <5>2 DEF Apart
          <5>4. Apart(i, k)'
            BY <1>3, <2>1, <2>4, <2>5, <2>7, <5>2 DEF Apart
          <5>5. QED
            BY <5>3, <5>4
        <4>4. QED
          BY <4>2, <4>3
      <3>3. QED
        BY <3>1, <3>2
    <2>8. QED
      BY <1>8, <2>6, <2>7, TurnSpends
  <1>9. QED
    BY <1>6, <1>7, <1>8 DEF Step

LEMMA RangeStep ==
  ASSUME TypeOK, RangeKept, Step
  PROVE  RangeKept'
  <1>1. CASE UNCHANGED <<journal, runs, overlaps>>
    BY <1>1 DEF RangeKept, Invocations
  <1>2. ASSUME NEW r \in Run, Starts(r)
        PROVE  RangeKept'
    <2>1. PICK n \in Nat :
            /\ n \notin Invocations /\ Invocations' = Invocations \union {n} /\ runs'[n] = r
            /\ \A k \in Invocations : runs'[k] = runs[k]
      BY <1>2, BeginLemma
    <2>2. 0 \notin Invocations
      BY RunsType DEF TypeOK
    <2>3. r.of = 0 => FromScan(r)
      BY <1>2, <2>2 DEF Starts, FromLog
    <2>4. QED
      BY <2>1, <2>3 DEF RangeKept, FromScan
  <1>3. ASSUME NEW i \in Invocations, NEW s \in Run, Becomes(i, s), Turns(i, s)
        PROVE  RangeKept'
    BY <1>3, TurnLemma DEF RangeKept, Older, Lasting
  <1>4. QED
    BY <1>1, <1>2, <1>3 DEF Step

\* What DigestKept says of one record.
DigestOf(r) ==
  r.of = 0 /\ r.phase # "killed" =>
    /\ r.log.digest = Found(r.from, r.to)
    /\ r.list = IF r.log.filtered THEN r.log.recipientDigest ELSE r.log.digest

LEMMA DigestStep ==
  ASSUME TypeOK, DigestKept, Step
  PROVE  DigestKept'
  <1>1. \A k \in Invocations : DigestOf(runs[k])
    BY DEF DigestKept, DigestOf
  <1>2. SUFFICES \A k \in Invocations' : DigestOf(runs'[k])
    BY DEF DigestKept, DigestOf
  <1>3. CASE UNCHANGED <<journal, runs, overlaps>>
    BY <1>1, <1>3 DEF Invocations
  <1>4. ASSUME NEW r \in Run, Starts(r)
        PROVE  \A k \in Invocations' : DigestOf(runs'[k])
    <2>1. PICK n \in Nat :
            /\ n \notin Invocations /\ Invocations' = Invocations \union {n} /\ runs'[n] = r
            /\ \A k \in Invocations : runs'[k] = runs[k]
      BY <1>4, BeginLemma
    <2>2. 0 \notin Invocations
      BY RunsType DEF TypeOK
    <2>3. r.of = 0 => FromScan(r)
      BY <1>4, <2>2 DEF Starts, FromLog
    <2>4. QED
      BY <1>1, <2>1, <2>3 DEF DigestOf, FromScan
  <1>5. ASSUME NEW i \in Invocations, NEW s \in Run, Becomes(i, s), Turns(i, s)
        PROVE  \A k \in Invocations' : DigestOf(runs'[k])
    <2>1. /\ Invocations' = Invocations /\ Older(runs[i], s)
          /\ runs'[i] = s /\ \A k \in Invocations : k # i => runs'[k] = runs[k]
      BY <1>5, TurnLemma
    <2>2. PICK r : r = runs[i] /\ DigestOf(r)
      BY <1>1
    <2>3. DigestOf(s)
      <3>1. CASE Approved(r, s)
        <4>1. /\ s.of = r.of /\ s.from = r.from /\ s.to = r.to
              /\ r.phase = "killed" => s.phase = "killed"
          BY <2>1, <2>2 DEF Older, Lasting, AlivePhases
        <4>2. QED
          BY <2>2, <3>1, <4>1 DEF DigestOf, Approved
      <3>2. CASE Continues(r, s) \/ Leaves(r, s)
        BY <2>2, <3>2, <3>1 DEF DigestOf, Continues, Leaves, Lasting
      <3>3. CASE \E a : Lapses(r, s, a)
        BY <3>3, <3>1 DEF DigestOf, Lapses, Reported
      <3>4. QED
        BY <1>5, <2>2, <3>1, <3>2, <3>3
           DEF Turns, Finishes, Reported, Edited, Plans, Pays
    <2>4. QED
      BY <1>1, <2>1, <2>3
  <1>6. QED
    BY <1>3, <1>4, <1>5 DEF Step

\* Who has a line was paid by an invocation with that journal and that key.
LEMMA PayerExists ==
  ASSUME JournalSound, NEW path \in Journals, NEW key, NEW a \in Paid(path, key)
  PROVE  \E k \in Invocations :
           runs[k].path = path /\ KeyOf(runs[k]) = key /\ a \in PaidBy(k)
  BY DEF Paid, JournalSound

LEMMA CoveredStep ==
  ASSUME TypeOK, JournalSound, CoveredSoFar, SuccessCoversList, Step
  PROVE  CoveredSoFar' /\ SuccessCoversList'
  <1> DEFINE Covered(k, a) == \E j \in Invocations :
               a \in PaidBy(j) /\ KeyOf(runs[j]) = KeyOf(runs[k])
  <1>1. \A k \in Invocations : \A a :
          Covered(k, a) => k \in Invocations' /\ Covered(k, a)'
    BY StepGrows, GrowsLemma DEF TypeOK, JournalSound, Grows
  <1>2. /\ \A k \in Invocations : k \in Sending /\ ~runs[k].failed =>
             \A a \in runs[k].list \ runs[k].left : Covered(k, a)
        /\ \A k \in Invocations : runs[k].phase = "done" =>
             \A a \in runs[k].list : \E j \in Invocations :
               /\ a \in PaidBy(j) /\ runs[j].terms = runs[k].terms
               /\ runs[j].from = runs[k].from /\ runs[j].to = runs[k].to
    BY DEF CoveredSoFar, SuccessCoversList
  <1>3. \A k \in Invocations : runs[k].phase = "done" =>
          \A a \in runs[k].list : Covered(k, a)
    BY <1>2 DEF KeyOf, RunKey
  <1>4. /\ \A k \in Invocations : k \in Sending <=> Reading(runs[k])
        /\ \A k \in Invocations' : k \in Sending' <=> Reading(runs'[k])
    BY DEF Sending, Reading
  <1>5. SUFFICES ASSUME NEW k \in Invocations',
                        \/ Reading(runs'[k]) /\ ~runs'[k].failed
                        \/ runs'[k].phase = "done",
                        NEW a \in runs'[k].list,
                        Reading(runs'[k]) => a \notin runs'[k].left
                 PROVE  Covered(k, a)'
    <2>1. CoveredSoFar'
      BY <1>4, <1>5 DEF CoveredSoFar
    <2>2. \A k \in Invocations' : runs'[k].phase = "done" =>
            \A a \in runs'[k].list : Covered(k, a)'
      BY <1>5 DEF Reading
    <2>3. SuccessCoversList'
      BY <2>2 DEF SuccessCoversList, KeyOf, RunKey
    <2>4. QED
      BY <2>1, <2>3
  <1>6. CASE k \in Invocations /\ runs'[k] = runs[k]
    BY <1>1, <1>2, <1>3, <1>4, <1>5, <1>6
  <1>7. CASE UNCHANGED <<journal, runs, overlaps>>
    BY <1>6, <1>7 DEF Invocations
  <1>8. ASSUME NEW r \in Run, Starts(r)
        PROVE  Covered(k, a)'
    <2>1. PICK n \in Nat :
            /\ Invocations' = Invocations \union {n} /\ runs'[n] = r
            /\ \A j \in Invocations : runs'[j] = runs[j]
      BY <1>8, BeginLemma
    <2>2. r.phase \in {"scanned", "filtered"}
      BY <1>8 DEF Starts, Fresh
    <2>3. k # n
      BY <1>5, <2>1, <2>2 DEF Reading
    <2>4. QED
      BY <1>6, <2>1, <2>3
  <1>9. ASSUME NEW i \in Invocations, NEW s \in Run, Becomes(i, s), Turns(i, s)
        PROVE  Covered(k, a)'
    <2>1. /\ Invocations' = Invocations /\ runs[i] \in Run
          /\ runs'[i] = s /\ \A j \in Invocations : j # i => runs'[j] = runs[j]
      BY <1>9, TurnLemma
    <2>2. CASE k # i
      BY <1>6, <2>1, <2>2
    <2>3. CASE k = i
      <3>1. PICK r \in Run : r = runs[i]
        BY <2>1
      <3>2. /\ (Reading(s) /\ ~s.failed) \/ s.phase = "done"
            /\ a \in s.list /\ (Reading(s) => a \notin s.left)
        BY <1>5, <2>1, <2>3
      <3>3. Reading(r) /\ ~r.failed /\ a \in r.list \ r.left => Covered(i, a)'
        BY <1>1, <1>2, <1>4, <3>1
      <3>4. r.phase = "done" /\ a \in r.list => Covered(i, a)'
        BY <1>1, <1>3, <3>1
      <3>5. CASE Continues(r, s)
        BY <3>2, <3>3, <3>5, <2>3 DEF Continues, Reading, Approved
      <3>6. CASE Leaves(r, s) \/ \E b \in r.left : Lapses(r, s, b)
        BY <3>2, <3>6 DEF Leaves, Lapses, Reading
      <3>7. CASE Finishes(r, s)
        BY <3>2, <3>3, <3>7, <2>3 DEF Finishes, Reported, Approved, Reading
      <3>8. CASE Edited(r, s)
        BY <3>2, <3>3, <3>4, <3>8, <2>3 DEF Edited, Approved, Reading
      <3>9. CASE Plans(r, s, Paid(r.path, KeyOf(r)))
        <4>1. a \in Paid(r.path, KeyOf(r))
          BY <3>2, <3>9 DEF Plans, Approved, Reading
        <4>2. Covered(i, a)
          BY <3>1, <4>1, PayerExists DEF Run
        <4>3. QED
          BY <1>1, <2>3, <4>2
      <3>10. CASE \E b \in r.left : Pays(r, s, b)
        <4>1. PICK b \in r.left : Pays(r, s, b)
          BY <3>10
        <4>2. CASE a = b
          <5>1. a \in PaidBy(i)'
            BY <2>1, <4>1, <4>2 DEF Pays, PaidBy
          <5>2. QED
            BY <2>1, <2>3, <5>1
        <4>3. CASE a # b
          BY <2>3, <3>2, <3>3, <4>1, <4>3 DEF Pays, Approved, Reading
        <4>4. QED
          BY <4>2, <4>3
      <3>11. QED
        BY <1>9, <3>1, <3>5, <3>6, <3>7, <3>8, <3>9, <3>10 DEF Turns
    <2>4. QED
      BY <2>2, <2>3
  <1>10. QED
    BY <1>7, <1>8, <1>9 DEF Step

\* What LogTellsWhatWasSent says of one invocation.
Told(k) ==
  runs[k].log.written =>
    /\ PaidBy(k) # {} => runs[k].log.priced /\ runs[k].log.published
    /\ runs[k].recorded # {} => runs[k].log.sent > 0
    /\ runs[k].log.sent <= Cardinality(Paid(runs[k].path, KeyOf(runs[k])))

LEMMA LogStep ==
  ASSUME TypeOK, JournalSound, RecordSound, StageSound, LogTellsWhatWasSent, Step,
         JournalSound'
  PROVE  LogTellsWhatWasSent'
  <1>1. /\ \A path \in Journals : \A key : Paid(path, key) \subseteq Paid(path, key)'
        /\ \A k \in Invocations : KeyOf(runs'[k]) = KeyOf(runs[k]) /\ runs'[k].path = runs[k].path
    BY StepGrows, GrowsLemma DEF TypeOK, JournalSound, Grows, Older, Lasting
  <1>2. \A k \in Invocations : runs[k] \in Run
    BY RunsType DEF TypeOK
  <1>3. \A path \in Journals : \A key :
          /\ IsFiniteSet(Paid(path, key)) /\ Cardinality(Paid(path, key)) \in Nat
          /\ Cardinality(Paid(path, key))' \in Nat
          /\ Cardinality(Paid(path, key)) <= Cardinality(Paid(path, key))'
    <2>1. SUFFICES ASSUME NEW path \in Journals, NEW key
                   PROVE  /\ IsFiniteSet(Paid(path, key)) /\ Cardinality(Paid(path, key)) \in Nat
                          /\ Cardinality(Paid(path, key))' \in Nat
                          /\ Cardinality(Paid(path, key)) <= Cardinality(Paid(path, key))'
      OBVIOUS
    <2>2. IsFiniteSet(Paid(path, key))
      BY PaidFinite
    <2>3. IsFiniteSet(Paid(path, key))'
      BY PaidFinitePrimed
    <2>4. Paid(path, key) \subseteq Paid(path, key)'
      BY <1>1
    <2>5. QED
      BY <2>2, <2>3, <2>4, FS_Subset, FS_CardinalityType
  <1>4. \A k \in Invocations : \A n \in Nat :
          n <= Cardinality(Paid(runs[k].path, KeyOf(runs[k]))) =>
            n <= Cardinality(Paid(runs[k].path, KeyOf(runs[k])))'
    <2>1. SUFFICES ASSUME NEW k \in Invocations, NEW n \in Nat,
                          n <= Cardinality(Paid(runs[k].path, KeyOf(runs[k])))
                   PROVE  n <= Cardinality(Paid(runs[k].path, KeyOf(runs[k])))'
      OBVIOUS
    <2>2. PICK path, key : path \in Journals /\ path = runs[k].path /\ key = KeyOf(runs[k])
      BY <1>2 DEF Run
    <2>3. path = runs'[k].path /\ key = KeyOf(runs'[k])
      BY <1>1, <2>2
    <2>4. n <= Cardinality(Paid(path, key))'
      BY <1>3, <2>1, <2>2
    <2>5. QED
      BY <2>3, <2>4
  <1>5. \A k \in Invocations : Told(k)
    BY DEF LogTellsWhatWasSent, Told
  <1>6. SUFFICES \A k \in Invocations' : Told(k)'
    BY DEF LogTellsWhatWasSent, Told
  <1>7. \A k \in Invocations :
          Unspent(runs[k], runs'[k]) /\ Account(runs[k], runs'[k])
            /\ (runs'[k].log.written => runs[k].log.written) => Told(k)'
    <2>1. SUFFICES ASSUME NEW k \in Invocations,
                          Unspent(runs[k], runs'[k]), Account(runs[k], runs'[k]),
                          runs'[k].log.written, runs[k].log.written
                   PROVE  Told(k)'
      BY DEF Told
    <2>2. PaidBy(k)' = PaidBy(k) /\ runs[k].log.sent \in Nat
      BY <1>2, <2>1, LogType DEF Unspent, PaidBy, Log
    <2>3. Told(k)
      BY <1>5
    <2>4. runs[k].log.sent <= Cardinality(Paid(runs[k].path, KeyOf(runs[k])))'
      BY <1>4, <2>1, <2>2, <2>3 DEF Told
    <2>5. QED
      BY <2>1, <2>2, <2>3, <2>4 DEF Told, Unspent, Account
  <1>8. CASE UNCHANGED <<journal, runs, overlaps>>
    BY <1>5, <1>8 DEF Told, Invocations, Paid, PaidBy
  <1>9. ASSUME NEW r \in Run, Starts(r)
        PROVE  \A k \in Invocations' : Told(k)'
    <2>1. PICK n \in Nat :
            /\ Invocations' = Invocations \union {n} /\ runs'[n] = r
            /\ \A k \in Invocations : runs'[k] = runs[k]
      BY <1>9, BeginLemma
    <2>2. ~r.log.written
      BY <1>9 DEF Starts, Fresh
    <2>3. Told(n)'
      BY <2>1, <2>2 DEF Told
    <2>4. QED
      BY <1>7, <2>1, <2>3 DEF Unspent, Account
  <1>10. ASSUME NEW i \in Invocations, NEW s \in Run, Becomes(i, s), Turns(i, s)
        PROVE  \A k \in Invocations' : Told(k)'
    <2>1. /\ Invocations' = Invocations
          /\ runs'[i] = s /\ \A j \in Invocations : j # i => runs'[j] = runs[j]
      BY <1>10, TurnLemma
    <2>2. PICK r \in Run : r = runs[i]
      BY <1>2
    <2>3. Staged(r)
      BY <2>2, StagedLemma
    <2>4. /\ r.recorded \subseteq Paid(runs[i].path, KeyOf(runs[i]))
          /\ IsFiniteSet(r.recorded) /\ r.sent = Cardinality(r.recorded)
      BY <2>2 DEF RecordSound
    <2>5. /\ r.sent \in Nat /\ (r.recorded # {} => r.sent > 0)
          /\ r.sent <= Cardinality(Paid(runs[i].path, KeyOf(runs[i])))
      <3>1. r.sent \in Nat
        BY DEF Run
      <3>2. r.recorded # {} => r.sent > 0
        BY <2>4, <3>1, FS_EmptySet
      <3>3. IsFiniteSet(Paid(runs[i].path, KeyOf(runs[i])))
        BY <1>2, <1>3 DEF Run
      <3>4. QED
        BY <2>4, <3>1, <3>2, <3>3, FS_Subset
    <2>6. PaidBy(i)' = s.recorded \union s.lapsed
      BY <2>1 DEF PaidBy
    <2>7. Told(i)'
      <3>1. CASE Unspent(r, s) /\ Account(r, s) /\ (s.log.written => r.log.written)
        BY <1>7, <2>1, <2>2, <3>1
      <3>2. CASE ~s.log.written
        BY <2>1, <3>2 DEF Told
      <3>3. CASE r.phase \in {"scanned", "filtered", "planned"} /\ Unspent(r, s) /\ Account(r, s)
        <4>1. s.log.sent = 0 /\ PaidBy(i)' = {} /\ s.recorded = {}
          BY <2>3, <2>6, <3>3 DEF Staged, Unspent, Account, AlivePhases
        <4>2. 0 <= Cardinality(Paid(runs[i].path, KeyOf(runs[i])))'
          BY <1>4, <1>2, <1>3 DEF Run
        <4>3. QED
          BY <2>1, <4>1, <4>2 DEF Told
      <3>4. CASE /\ r.phase = "sending" /\ Reported(r, s)
                 /\ s.recorded = r.recorded /\ s.log.written
        <4>1. r.of = 0
          BY <3>4 DEF Reported
        <4>2. s.log.priced /\ s.log.published /\ s.log.sent = r.sent
          BY <2>3, <3>4, <4>1 DEF Staged, Reported
        <4>3. r.sent <= Cardinality(Paid(runs[i].path, KeyOf(runs[i])))'
          BY <1>4, <2>5
        <4>4. QED
          BY <2>1, <2>5, <3>4, <4>2, <4>3 DEF Told
      <3>5. CASE r.phase \in AlivePhases /\ (s.log.written => r.log.written)
        BY <2>3, <3>2, <3>5 DEF Staged
      <3>6. CASE Continues(r, s) \/ Edited(r, s)
        BY <3>1, <3>6 DEF Continues, Edited
      <3>7. CASE Leaves(r, s)
        BY <3>2, <3>3, <3>7 DEF Leaves, AlivePhases
      <3>8. CASE Finishes(r, s)
        BY <3>2, <3>4, <3>8 DEF Finishes, Unspent
      <3>9. CASE \E paid : Plans(r, s, paid)
        BY <3>5, <3>9 DEF Plans, AlivePhases
      <3>10. CASE \E a : Pays(r, s, a)
        BY <3>5, <3>10 DEF Pays, AlivePhases
      <3>11. CASE \E a : Lapses(r, s, a)
        BY <3>2, <3>4, <3>5, <3>11 DEF Lapses, AlivePhases
      <3>12. QED
        BY <1>10, <2>2, <3>6, <3>7, <3>8, <3>9, <3>10, <3>11 DEF Turns
    <2>8. \A k \in Invocations : k # i => Told(k)'
      BY <1>7, <2>1 DEF Unspent, Account
    <2>9. QED
      BY <2>1, <2>7, <2>8
  <1>11. QED
    BY <1>8, <1>9, <1>10 DEF Step

\* A log that was written, and a journal with no line for the airdrop in it: if
\* anybody is on record for that log's run, the alarm is raised.
LEMMA AlarmLemma ==
  ASSUME TypeOK, JournalSound, LogTellsWhatWasSent,
         NEW j \in Invocations, runs[j].log.written,
         NEW path \in Journals, NEW terms, ~Alarm(j, terms, path)
  PROVE  runs[j].recorded # {} =>
           \E k \in Invocations :
             runs[k].path = path /\ KeyOf(runs[k]) = RunKey(terms, runs[j].from, runs[j].to)
  <1>1. SUFFICES ASSUME runs[j].recorded # {}
                 PROVE  \E k \in Invocations : runs[k].path = path
                          /\ KeyOf(runs[k]) = RunKey(terms, runs[j].from, runs[j].to)
    OBVIOUS
  <1>2. PaidBy(j) # {} /\ runs[j].log \in Log
    BY <1>1, RunsType, LogType DEF PaidBy, TypeOK
  <1>3. runs[j].log.priced /\ runs[j].log.published
        /\ runs[j].log.sent \in Nat /\ runs[j].log.sent > 0
    BY <1>1, <1>2 DEF LogTellsWhatWasSent, Log
  <1>4. PICK key : key = RunKey(terms, runs[j].from, runs[j].to)
    OBVIOUS
  <1>5. IsFiniteSet(Paid(path, key)) /\ Cardinality(Paid(path, key)) \in Nat
    BY PaidFinite, FS_CardinalityType
  <1>6. Cardinality(Paid(path, key)) # 0
    BY <1>3, <1>4, <1>5 DEF Alarm
  <1>7. PICK a : a \in Paid(path, key)
    BY <1>5, <1>6, FS_EmptySet
  <1>8. QED
    BY <1>4, <1>7, PayerExists

\* No alarm for the journal and the terms of the log's own run.
LEMMA NoAlarmLemma ==
  ASSUME TypeOK, JournalSound, LogTellsWhatWasSent,
         NEW j \in Invocations, runs[j].log.written,
         NEW path, path = runs[j].path, NEW terms, terms = runs[j].terms
  PROVE  ~Alarm(j, terms, path)
  <1>1. runs[j].log \in Log /\ path \in Journals
    BY RunsType, LogType, SMTT(30) DEF TypeOK, Run
  <1>2. RunKey(terms, runs[j].from, runs[j].to) = KeyOf(runs[j])
    BY DEF KeyOf
  <1>3. runs[j].log.sent <= Cardinality(Paid(path, KeyOf(runs[j])))
    BY DEF LogTellsWhatWasSent
  <1>4. Cardinality(Paid(path, KeyOf(runs[j]))) \in Nat /\ runs[j].log.sent \in Nat
    BY <1>1, PaidFinite, FS_CardinalityType DEF Log
  <1>5. QED
    BY <1>2, <1>3, <1>4 DEF Alarm

LEMMA NoFalseAlarmStep ==
  ASSUME TypeOK, JournalSound, LogTellsWhatWasSent, NoFalseAlarm, Step
  PROVE  NoFalseAlarm'
  <1>1. /\ Invocations \subseteq Invocations' /\ \A k \in Invocations : Lasting(runs[k], runs'[k])
        /\ runs \in Seq(Run)
    BY StepGrows DEF TypeOK, JournalSound, Grows, Older
  <1>2. \A k \in Replays : runs[k].of \in Invocations
    <2>1. Len(runs) \in Nat /\ Invocations = 1 .. Len(runs)
          /\ \A k \in Invocations : runs[k] \in Run
      BY <1>1, RunsType
    <2>2. \A k \in Invocations : runs[k].of \in Nat
      BY <2>1, CampaignAssumption DEF Run
    <2>3. \A k \in Replays : runs[k].of # 0 /\ runs[k].of < k /\ k \in Invocations
      BY DEF TypeOK, Replays
    <2>4. QED
      BY <2>1, <2>2, <2>3
  <1>3. \A k \in Invocations : k \in Replays' /\ runs'[k].warned =>
          \/ runs'[k].path # runs'[runs'[k].of].path
          \/ runs'[k].terms # runs'[runs'[k].of].terms
    BY <1>1, <1>2 DEF NoFalseAlarm, Lasting, Replays
  <1>4. ASSUME NEW r \in Run, Starts(r)
        PROVE  NoFalseAlarm'
    <2>1. PICK n \in Nat :
            /\ n \notin Invocations /\ Invocations' = Invocations \union {n} /\ runs'[n] = r
            /\ \A k \in Invocations : runs'[k] = runs[k]
      BY <1>4, BeginLemma
    <2>2. r.of # 0 /\ r.warned =>
            /\ r.of \in Invocations
            /\ r.path # runs[r.of].path \/ r.terms # runs[r.of].terms
      <3>1. SUFFICES ASSUME r.of # 0, r.warned
                     PROVE  /\ r.of \in Invocations
                            /\ r.path # runs[r.of].path \/ r.terms # runs[r.of].terms
        OBVIOUS
      <3>2. FromLog(r)
        BY <1>4, <3>1 DEF Starts, FromScan
      <3>3. r.of \in Invocations /\ runs[r.of].log.written /\ Alarm(r.of, r.terms, r.path)
        BY <3>1, <3>2 DEF FromLog
      <3>4. QED
        BY <3>3, NoAlarmLemma
    <2>3. QED
      BY <1>3, <2>1, <2>2 DEF NoFalseAlarm, Replays
  <1>5. CASE Invocations' = Invocations
    BY <1>3, <1>5 DEF NoFalseAlarm, Replays
  <1>6. QED
    BY <1>1, <1>4, <1>5, BecomesLemma DEF Step, Invocations

\* What ReplaySound says of a replay and the run whose log it is.
Follows(i, j) ==
  /\ j \in Invocations \ Alive
  /\ runs[i].from = runs[j].from /\ runs[i].to = runs[j].to
  /\ {i, j} \notin overlaps
  /\ runs[i].terms = runs[j].terms /\ runs[i].path = runs[j].path =>
       (runs[i].left \union PaidBy(i)) \intersect runs[j].recorded = {}
  /\ runs[i].terms = runs[j].terms /\ runs[i].path # runs[j].path =>
       \/ runs[j].recorded = {}
       \/ runs[i].warned
       \/ \E k \in Invocations \ {i, j} : SameAirdrop(k, i)

LEMMA FollowsBegin ==
  ASSUME TypeOK, JournalSound, StageSound, LogTellsWhatWasSent,
         NEW r \in Run, Starts(r), r.of # 0,
         NEW n \in Nat, n \notin Invocations, Invocations' = Invocations \union {n},
         runs'[n] = r, \A k \in Invocations : runs'[k] = runs[k]
  PROVE  Follows(n, r.of)'
  <1>1. FromLog(r) /\ Fresh(r) /\ overlaps' = overlaps
    BY DEF Starts, FromScan
  <1>2. PICK j \in Invocations : j = r.of /\ runs'[j] = runs[j] /\ runs[j].log.written
    BY <1>1 DEF FromLog
  <1>3. j \in Invocations' \ Alive'
    BY <1>2 DEF StageSound, Alive
  <1>4. r.from = runs[j].from /\ r.to = runs[j].to
    BY <1>1, <1>2 DEF FromLog
  <1>5. {n, j} \notin overlaps'
    <2>1. \A pair \in overlaps : pair \subseteq Invocations
      BY DEF TypeOK
    <2>2. QED
      BY <1>1, <2>1
  <1>6. r.left \union PaidBy(n)' = {}
    BY <1>1 DEF Fresh, PaidBy
  <1>7. ASSUME r.terms = runs[j].terms, r.path # runs[j].path, runs[j].recorded # {}, ~r.warned
        PROVE  \E k \in Invocations' \ {n, j} : SameAirdrop(k, n)'
    <2>1. ~Alarm(j, r.terms, r.path) /\ r.path \in Journals
      BY <1>1, <1>2, <1>7 DEF FromLog, Run
    <2>2. PICK k \in Invocations :
            runs[k].path = r.path /\ KeyOf(runs[k]) = RunKey(r.terms, runs[j].from, runs[j].to)
      BY <1>2, <1>7, <2>1, AlarmLemma
    <2>3. KeyOf(runs[k]) = KeyOf(r)
      BY <1>4, <2>2 DEF KeyOf
    <2>4. k # n /\ k # j /\ SameAirdrop(k, n)'
      BY <1>7, <2>2, <2>3 DEF SameAirdrop
    <2>5. QED
      BY <2>4
  <1>8. QED
    BY <1>2, <1>3, <1>4, <1>5, <1>6, <1>7 DEF Follows

LEMMA FollowsTurn ==
  ASSUME TypeOK, JournalSound, RecordSound, Grows,
         NEW i \in Invocations, NEW s \in Run, Becomes(i, s), Turns(i, s),
         NEW k \in Replays, Follows(k, runs[k].of)
  PROVE  Follows(k, runs[k].of)'
  <1>1. /\ runs[i] \in Run /\ Invocations' = Invocations /\ Older(runs[i], s)
        /\ runs'[i] = s /\ \A l \in Invocations : l # i => runs'[l] = runs[l]
    BY TurnLemma
  <1>2. PICK j \in Invocations : j = runs[k].of /\ Follows(k, j) /\ j \notin Alive
    BY DEF Follows
  <1>3. /\ k \in Invocations /\ Lasting(runs[k], runs'[k]) /\ Lasting(runs[j], runs'[j])
        /\ runs'[k].of = j
    BY <1>2 DEF Replays, Grows, Older, Lasting
  <1>4. runs[j].phase \notin AlivePhases
    BY <1>2 DEF Alive, AlivePhases
  <1>5. runs'[j].phase = runs[j].phase /\ runs'[j].recorded = runs[j].recorded
    BY <1>1, <1>2, <1>4 DEF Older, Unspent
  <1>6. j \in Invocations' \ Alive'
    BY <1>1, <1>4, <1>5 DEF Alive, AlivePhases
  <1>7. {k, j} \notin overlaps'
    <2>1. overlaps' = overlaps
            \/ (runs[i].phase = "filtered" /\ overlaps' = overlaps \union {{i, l} : l \in Sending})
      BY DEF Turns, Plans
    <2>2. runs[i].phase = "filtered" => j # i
      BY <1>4 DEF AlivePhases
    <2>3. j \notin Sending
      BY <1>4 DEF Sending, AlivePhases
    <2>4. QED
      BY <1>2, <2>1, <2>2, <2>3 DEF Follows
  <1>8. ASSUME runs[k].terms = runs[j].terms, runs[k].path = runs[j].path
        PROVE  (runs'[k].left \union PaidBy(k)') \intersect runs[j].recorded = {}
    <2>1. (runs[k].left \union PaidBy(k)) \intersect runs[j].recorded = {}
      BY <1>2, <1>8 DEF Follows
    <2>2. CASE k # i
      BY <1>1, <1>3, <2>1, <2>2 DEF PaidBy
    <2>3. CASE k = i
      <3>1. CASE Plans(runs[i], s, Paid(runs[i].path, KeyOf(runs[i])))
        <4>1. KeyOf(runs[i]) = KeyOf(runs[j])
          BY <1>2, <1>8, <2>3 DEF Follows, KeyOf
        <4>2. runs[j].recorded \subseteq Paid(runs[i].path, KeyOf(runs[i]))
          BY <1>8, <2>3, <4>1 DEF RecordSound
        <4>3. s.left = runs[i].list \ Paid(runs[i].path, KeyOf(runs[i]))
              /\ s.recorded = runs[i].recorded /\ s.lapsed = runs[i].lapsed
          BY <3>1 DEF Plans, Unspent
        <4>4. QED
          BY <1>1, <2>1, <2>3, <4>2, <4>3 DEF PaidBy
      <3>2. CASE \E a \in runs[i].left : Pays(runs[i], s, a) \/ Lapses(runs[i], s, a)
        BY <1>1, <2>1, <2>3, <3>2 DEF PaidBy, Pays, Lapses
      <3>3. CASE Unspent(runs[i], s) /\ s.left \subseteq runs[i].left
        BY <1>1, <2>1, <2>3, <3>3 DEF PaidBy, Unspent
      <3>4. QED
        BY <3>1, <3>2, <3>3 DEF Turns, Continues, Leaves, Finishes, Edited
    <2>4. QED
      BY <2>2, <2>3
  <1>9. ASSUME NEW l \in Invocations \ {k, j}, SameAirdrop(l, k)
        PROVE  l \in Invocations' \ {k, j} /\ SameAirdrop(l, k)'
    BY <1>1, <1>3, <1>9, GrowsLemma
  <1>10. Follows(k, j)'
    BY <1>2, <1>3, <1>5, <1>6, <1>7, <1>8, <1>9 DEF Follows, Lasting
  <1>11. QED
    BY <1>3, <1>10 DEF Follows

LEMMA ReplaySoundStep ==
  ASSUME TypeOK, JournalSound, RecordSound, StageSound, LogTellsWhatWasSent, ReplaySound, Step
  PROVE  ReplaySound'
  <1>1. \A k \in Replays : Follows(k, runs[k].of)
    BY DEF ReplaySound, Follows
  <1>2. SUFFICES \A k \in Replays' : Follows(k, runs[k].of)'
    BY DEF ReplaySound, Follows
  <1>3. CASE UNCHANGED <<journal, runs, overlaps>>
    <2>1. /\ Invocations' = Invocations /\ Replays' = Replays /\ Alive' = Alive
          /\ \A k : PaidBy(k)' = PaidBy(k)
          /\ \A k, l : SameAirdrop(k, l)' <=> SameAirdrop(k, l)
      BY <1>3 DEF Replays, Invocations, Alive, PaidBy, SameAirdrop
    <2>2. \A k, j : Follows(k, j)' <=> Follows(k, j)
      BY <1>3, <2>1 DEF Follows
    <2>3. QED
      BY <1>1, <1>3, <2>1, <2>2
  <1>4. ASSUME NEW r \in Run, Starts(r)
        PROVE  \A k \in Replays' : Follows(k, runs[k].of)'
    <2>1. PICK n \in Nat :
            /\ n \notin Invocations /\ Invocations' = Invocations \union {n} /\ runs'[n] = r
            /\ \A k \in Invocations : runs'[k] = runs[k]
      BY <1>4, BeginLemma
    <2>2. r.of # 0 => Follows(n, r.of)'
      BY <1>4, <2>1, FollowsBegin
    <2>3. overlaps' = overlaps
      BY <1>4 DEF Starts
    <2>4. ASSUME NEW k \in Replays
          PROVE  Follows(k, runs[k].of)'
      <3>1. PICK j \in Invocations : j = runs[k].of /\ Follows(k, j) /\ j \notin Alive
        BY <1>1 DEF Follows
      <3>2. k \in Invocations /\ runs'[k] = runs[k] /\ runs'[j] = runs[j]
        BY <2>1, <3>1 DEF Replays
      <3>3. j \in Invocations' \ Alive' /\ PaidBy(k)' = PaidBy(k)
        BY <2>1, <3>1, <3>2 DEF Alive, PaidBy
      <3>4. \A l \in Invocations : SameAirdrop(l, k)' <=> SameAirdrop(l, k)
        BY <2>1, <3>2 DEF SameAirdrop
      <3>5. Follows(k, j)'
        BY <2>1, <2>3, <3>1, <3>2, <3>3, <3>4 DEF Follows
      <3>6. QED
        BY <3>1, <3>2, <3>5 DEF Follows
    <2>5. \A k \in Replays' : k \in Replays \/ (k = n /\ r.of # 0)
      BY <2>1 DEF Replays
    <2>6. Follows(n, runs[n].of)' <=> Follows(n, r.of)'
      BY <2>1 DEF Follows
    <2>7. QED
      BY <2>2, <2>4, <2>5, <2>6
  <1>5. ASSUME NEW i \in Invocations, NEW s \in Run, Becomes(i, s), Turns(i, s)
        PROVE  \A k \in Replays' : Follows(k, runs[k].of)'
    <2>1. Grows
      BY StepGrows DEF TypeOK, JournalSound
    <2>2. Replays' = Replays
      BY <1>5, TurnLemma DEF Replays, Older, Lasting
    <2>3. QED
      BY <1>1, <1>5, <2>1, <2>2, FollowsTurn
  <1>6. QED
    BY <1>3, <1>4, <1>5 DEF Step

-----------------------------------------------------------------------------
(* The inductive invariant, and what follows from it. *)

LEMMA CampaignInit ==
  ASSUME Init
  PROVE  CampaignInv
  <1>1. /\ tip \in 1 .. MaxHeight /\ journal = [path \in Journals |-> {}]
        /\ runs = <<>> /\ overlaps = {} /\ mishaps = 0
    BY DEF Init
  <1>2. runs \in Seq(Run) /\ Invocations = {}
    BY <1>1, EmptySeq, LenProperties DEF Invocations
  <1>3. TypeOK
    BY <1>1, <1>2, CampaignAssumption DEF TypeOK
  <1>4. JournalSound
    BY <1>1, FS_EmptySet DEF JournalSound
  <1>5. RecordSound /\ StageSound /\ LeftUnpaid /\ RangeKept /\ DigestKept /\ PaidOncePerKey
    BY <1>2 DEF RecordSound, StageSound, LeftUnpaid, RangeKept, DigestKept, PaidOncePerKey
  <1>6. ReplaySound /\ CoveredSoFar /\ SuccessCoversList /\ LogTellsWhatWasSent /\ NoFalseAlarm
    BY <1>2 DEF ReplaySound, CoveredSoFar, SuccessCoversList, LogTellsWhatWasSent,
                NoFalseAlarm, Replays
  <1>7. QED
    BY <1>3, <1>4, <1>5, <1>6 DEF CampaignInv

LEMMA CampaignStep ==
  ASSUME CampaignInv, [Next]_vars
  PROVE  CampaignInv'
  <1>1. /\ TypeOK /\ JournalSound /\ RecordSound /\ StageSound /\ LeftUnpaid
        /\ RangeKept /\ DigestKept /\ ReplaySound /\ CoveredSoFar
        /\ PaidOncePerKey /\ SuccessCoversList /\ LogTellsWhatWasSent /\ NoFalseAlarm
    BY DEF CampaignInv
  <1>2. Step
    BY <1>1, StepKinds DEF TypeOK
  <1>3. TypeOK'
    BY <1>1, TypeStep
  <1>4. JournalSound' /\ RecordSound' /\ StageSound'
    BY <1>1, <1>2, JournalStep, RecordStep, StageStep
  <1>5. LeftUnpaid' /\ PaidOncePerKey'
    BY <1>1, <1>2, ApartStep
  <1>6. RangeKept' /\ DigestKept'
    BY <1>1, <1>2, RangeStep, DigestStep
  <1>7. CoveredSoFar' /\ SuccessCoversList'
    BY <1>1, <1>2, CoveredStep
  <1>8. LogTellsWhatWasSent'
    BY <1>1, <1>2, <1>4, LogStep
  <1>9. ReplaySound' /\ NoFalseAlarm'
    BY <1>1, <1>2, ReplaySoundStep, NoFalseAlarmStep
  <1>10. QED
    BY <1>3, <1>4, <1>5, <1>6, <1>7, <1>8, <1>9 DEF CampaignInv

\* The inductive invariant holds throughout.
THEOREM CampaignInvariant == Spec => []CampaignInv
  <1>1. Init => CampaignInv
    BY CampaignInit
  <1>2. CampaignInv /\ [Next]_vars => CampaignInv'
    BY CampaignStep
  <1>3. QED
    BY <1>1, <1>2, PTL DEF Spec

\* The invocations' records, the overlaps and the bounds keep their types.
THEOREM CampaignTypeCorrect == Spec => []TypeOK
  <1>1. CampaignInv => TypeOK
    BY DEF CampaignInv
  <1>2. QED
    BY <1>1, CampaignInvariant, PTL

\* Nobody is paid and recorded twice in the same airdrop with the same journal,
\* however many invocations, scans and replays, take part, unless one had read
\* the journal while the other was sending.
THEOREM OncePerAirdrop == Spec => []PaidOncePerKey
  <1>1. CampaignInv => PaidOncePerKey
    BY DEF CampaignInv
  <1>2. QED
    BY <1>1, CampaignInvariant, PTL

\* The same flags with a -to among them resume an airdrop, whatever the chain
\* has grown to: they name the same range, and so the same airdrop.
THEOREM SameFlagsWithToResume == Spec => []ClosedRangeResumes
  <1>1. CampaignInv => ClosedRangeResumes
    <2>1. SUFFICES ASSUME CampaignInv, NEW i \in Invocations, NEW j \in Invocations,
                          i # j, SameFlags(i, j), runs[i].flags.to # 0, {i, j} \notin overlaps
                   PROVE  runs[i].recorded \intersect runs[j].recorded = {}
      BY DEF ClosedRangeResumes
    <2>2. runs[i].to = runs[j].to /\ runs[i].from = runs[j].from
      BY <2>1 DEF CampaignInv, RangeKept, SameFlags
    <2>3. SameAirdrop(i, j)
      BY <2>1, <2>2 DEF SameFlags, SameAirdrop, KeyOf
    <2>4. QED
      BY <2>1, <2>3 DEF CampaignInv, PaidOncePerKey
  <1>2. QED
    BY <1>1, CampaignInvariant, PTL

\* A replay with the terms and the journal of the log's run pays and records
\* nobody whom that run had paid and recorded.
THEOREM ReplayNeverRepeats == Spec => []ReplayResumes
  <1>1. CampaignInv => ReplayResumes
    BY DEF CampaignInv, ReplaySound, ReplayResumes, PaidBy
  <1>2. QED
    BY <1>1, CampaignInvariant, PTL

\* A replay that does pay somebody again, since its journal is another, has
\* warned of it, unless others filled that journal for the same airdrop.
THEOREM RepeatIsWarnedOf == Spec => []WarnsBeforeRepeat
  <1>1. CampaignInv => WarnsBeforeRepeat
    <2>1. SUFFICES ASSUME CampaignInv, NEW i \in Replays, NEW j, j = runs[i].of,
                          runs[i].terms = runs[j].terms,
                          PaidBy(i) \intersect runs[j].recorded # {}
                   PROVE  \/ runs[i].warned
                          \/ \E k \in Invocations \ {i, j} : SameAirdrop(k, i)
      BY DEF WarnsBeforeRepeat
    <2>2. runs[i].path # runs[j].path /\ runs[j].recorded # {}
      BY <2>1 DEF CampaignInv, ReplaySound
    <2>3. QED
      BY <2>1, <2>2 DEF CampaignInv, ReplaySound
  <1>2. QED
    BY <1>1, CampaignInvariant, PTL

\* Nobody is warned whose journal is the one the log's run wrote, with its terms.
THEOREM WarningIsWarranted == Spec => []NoFalseAlarm
  <1>1. CampaignInv => NoFalseAlarm
    BY DEF CampaignInv
  <1>2. QED
    BY <1>1, CampaignInvariant, PTL

\* When a run reports success, everybody on its list has been paid its terms for
\* its range, by itself or by a run before it.
THEOREM SuccessIsComplete == Spec => []SuccessCoversList
  <1>1. CampaignInv => SuccessCoversList
    BY DEF CampaignInv
  <1>2. QED
    BY <1>1, CampaignInvariant, PTL

\* A log that was written tells of the sends, and claims none that its journal
\* does not have.
THEOREM LogIsTruthful == Spec => []LogTellsWhatWasSent
  <1>1. CampaignInv => LogTellsWhatWasSent
    BY DEF CampaignInv
  <1>2. QED
    BY <1>1, CampaignInvariant, PTL

\* A replay begins with the list that was approved; or with everybody the scan
\* found, if the log has no recipients left.  An edit makes it take no other: a
\* list that was edited is not the one of its digest.
THEOREM LoggedListIsReplayed == Spec => ReplayTakesLoggedList
  <1> DEFINE Takes ==
        \A i \in Invocations' \ Invocations :
          LET j == runs'[i].of
          IN  j # 0 =>
                \/ runs'[i].list = runs[j].list
                \/ /\ runs[j].log.filtered /\ runs[j].log.recipients = {}
                   /\ runs'[i].list = Found(runs[j].from, runs[j].to)
  <1>1. CampaignInv /\ [Next]_vars => [Takes]_vars
    <2>1. SUFFICES ASSUME CampaignInv, [Next]_vars
                   PROVE  Takes
      OBVIOUS
    <2>2. TypeOK /\ StageSound /\ DigestKept /\ Step
      BY <2>1, StepKinds DEF CampaignInv, TypeOK
    <2>3. ASSUME NEW r \in Run, Starts(r)
          PROVE  Takes
      <3>1. PICK n \in Nat :
              /\ n \notin Invocations /\ Invocations' = Invocations \union {n} /\ runs'[n] = r
              /\ \A k \in Invocations : runs'[k] = runs[k]
        BY <2>2, <2>3, BeginLemma
      <3>2. SUFFICES ASSUME r.of # 0
                     PROVE  \/ r.list = runs[r.of].list
                            \/ /\ runs[r.of].log.filtered /\ runs[r.of].log.recipients = {}
                               /\ r.list = Found(runs[r.of].from, runs[r.of].to)
        BY <3>1
      <3>3. FromLog(r)
        BY <2>3, <3>2 DEF Starts, FromScan
      <3>4. PICK j \in Invocations : j = r.of /\ runs[j].log.written
        BY <3>3 DEF FromLog
      <3>5. r.list = IF Narrowed(runs[j].log) THEN runs[j].log.recipientDigest
                                              ELSE runs[j].log.digest
        BY <3>3, <3>4 DEF FromLog
      <3>6. runs[j].of = 0 /\ runs[j].phase # "killed"
        BY <2>2, <3>4 DEF StageSound
      <3>7. QED
        BY <2>2, <3>2, <3>4, <3>5, <3>6 DEF DigestKept, Narrowed
    <2>4. CASE Invocations' = Invocations
      BY <2>4
    <2>5. CASE UNCHANGED <<journal, runs, overlaps>>
      BY <2>4, <2>5 DEF Invocations
    <2>6. ASSUME NEW i \in Invocations, NEW s \in Run, Becomes(i, s)
          PROVE  Takes
      <3>1. Invocations' = Invocations
        BY <2>2, <2>6, BecomesLemma DEF TypeOK
      <3>2. QED
        BY <2>4, <3>1
    <2>7. QED
      BY <2>2, <2>3, <2>5, <2>6 DEF Step
  <1>2. QED
    BY <1>1, CampaignInvariant, PTL DEF Spec, ReplayTakesLoggedList
=============================================================================
