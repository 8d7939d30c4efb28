--------------------------- MODULE AccountProofs ---------------------------
(***************************************************************************)
(* Theorems about what an airdrop accounts for: the journal, the report    *)
(* and the exit status agree with the payments on the chain, whatever goes *)
(* wrong, and the airdrop implements Payout.                               *)
(***************************************************************************)
EXTENDS AirdropProofs, FiniteSetTheorems

(* What a step of the airdrop does to the payments and the journal. *)

Charge == UNCHANGED faults \/ Misfortune

\* Nothing; the send to be recorded, if there is one, stays.
Still ==
  /\ UNCHANGED <<chain, minted, journal>> /\ Charge
  /\ SendReturned("ok")' <=> SendReturned("ok")

\* The node accepts the block of a call.
Publishes ==
  /\ pc \in {"receiving", "sending"} /\ Published
  /\ UNCHANGED <<journal, runVars, draft>> /\ Charge

\* The acknowledged send is recorded, or it is too late for that.
Enters ==
  /\ SendReturned("ok") /\ ~SendReturned("ok")'
  /\ UNCHANGED <<chain, minted, inv>>
  /\ \/ Record(inv.run, List[i], lastHash) /\ UNCHANGED faults
     \/ RecordCutShort(inv.run, List[i], lastHash) /\ Misfortune /\ ~cancelled'

LEMMA StepKinds ==
  ASSUME TypeInv, [AirdropNext]_airdropVars
  PROVE  Still \/ Publishes \/ Enters
  <1> USE DEF SendReturned
  <1>1. ASSUME NEW why, Exit(why), UNCHANGED <<chain, minted, journal>>, Charge,
               ~(pc = "sending" /\ spc = "returned" /\ result = "ok")
        PROVE  Still
    BY <1>1 DEF Exit, Still
  <1>2. ASSUME NEW why, Exit(why), UNCHANGED <<chain, minted>>, SendReturned("ok"),
               RecordCutShort(inv.run, List[i], lastHash), Misfortune
        PROVE  Enters
    BY <1>2 DEF Exit, Forget, Enters
  <1>3. CASE \E r \in Runs, sending, receive \in BOOLEAN : Invoke(r, sending, receive)
    BY <1>3 DEF Invoke, ledgerVars, Still, Charge
  <1>4. CASE ReadPaid \/ FetchPending \/ PageCollected \/ StartSending \/ Skip
    BY <1>4 DEF ReadPaid, FetchPending, PageCollected, StartSending, Skip, AtRecipient, Goto,
       ledgerVars, Still, Charge
  <1>5. CASE CollectNext \/ SendNext
    BY <1>5 DEF CollectNext, SendNext, AtRecipient, Call, Goto, ledgerVars, Still, Charge
  <1>6. CASE ReceiveReturned
    BY <1>1, <1>6 DEF ReceiveReturned, Goto, ledgerVars, Still, Charge
  <1>7. CASE Unreadable \/ PlanEnds \/ Canceled \/ SendCanceled \/ Finish
    BY <1>1, <1>7 DEF Unreadable, PlanEnds, Canceled, SendCanceled, Finish, AtRecipient,
       ledgerVars, Charge
  <1>8. CASE PlanFails
    BY <1>1, <1>8 DEF PlanFails, Charge
  <1>9. CASE SendFailed
    <2>1. UNCHANGED <<chain, minted, journal, faults>> /\ result = "error"
      BY <1>9 DEF SendFailed, ledgerVars
    <2>2. CASE Exit("stopped")
      BY <1>1, <2>1, <2>2 DEF Charge
    <2>3. CASE Goto("loop")
      BY <2>1, <2>3 DEF Goto, Still, Charge
    <2>4. QED
      BY <1>9, <2>2, <2>3 DEF SendFailed
  <1>10. CASE SendRecorded
    BY <1>10 DEF SendRecorded, Goto, ledgerVars, Enters
  <1>11. CASE SendNotRecorded
    BY <1>2, <1>11 DEF SendNotRecorded
  <1>12. CASE Crash
    <2>1. Exit("crash") /\ Misfortune /\ UNCHANGED <<chain, visible, minted>>
      BY <1>12 DEF Crash
    <2>2. CASE SendReturned("ok")
      BY <1>2, <1>12, <2>1, <2>2 DEF Crash
    <2>3. CASE ~SendReturned("ok")
      BY <1>1, <1>12, <2>1, <2>3 DEF Crash, Charge
    <2>4. QED
      BY <2>2, <2>3
  <1>13. CASE SenderWorks \/ SenderSuffers \/ Interrupted
    <2>1. /\ UNCHANGED <<journal, runVars, draft>> /\ Charge
          /\ Quiet \/ (Published /\ pc \in {"receiving", "sending"})
      <3>1. CASE SenderWorks \/ SenderSuffers
        BY <3>1, SenderStepLemma DEF SenderWorks, SenderSuffers, Charge
      <3>2. CASE Interrupted
        BY <3>2 DEF Interrupted, Interrupt, Quiet, Charge
      <3>3. QED
        BY <1>13, <3>1, <3>2
    <2>2. CASE Quiet
      <3>1. SendReturned("ok")' => SendReturned("ok")
        BY <2>1, <2>2 DEF Quiet, runVars
      <3>2. SendReturned("ok") => SendReturned("ok")'
        BY <1>13 DEF SenderWorks, SenderSuffers, Interrupted, SendStep, SendMishap, PollFrontier,
           FirstBlock, FrontierTimeout, Price, PriceFails, PublishOk, PublishRefused,
           PublishFails, PublishReplyLost, PublishInterrupted, Abandon, Interrupt, runVars
      <3>3. QED
        BY <2>1, <2>2, <3>1, <3>2 DEF Quiet, Still
    <2>3. QED
      BY <2>1, <2>2 DEF Publishes
  <1>14. CASE NodeReports \/ UNCHANGED airdropVars
    BY <1>14 DEF NodeReports, CatchUp, airdropVars, ledgerVars, senderVars, runVars, Still, Charge
  <1>15. QED
    BY <1>3, <1>4, <1>5, <1>6, <1>7, <1>8, <1>9, <1>10, <1>11, <1>12, <1>13, <1>14
       DEF AirdropNext, Process, Mishap, Plan, Run

-----------------------------------------------------------------------------
(* The airdrop implements Payout, on a node that refuses a block at a      *)
(* height that is taken.                                                   *)

\* The chain with the block of a call.
LEMMA ChainGrows ==
  ASSUME PayOnceInv, Publishes
  PROVE  /\ draft \in Sends \union Receives
         /\ height \in 1 .. Len(chain) + 1 /\ (~Displaces => height = Len(chain) + 1)
         /\ Len(chain) \in Nat /\ Len(chain') = height
         /\ \A k \in 1 .. height - 1 : chain'[k] = chain[k]
         /\ chain'[height] = [hash |-> minted + 1, kind |-> draft.kind,
                              of |-> draft.of, run |-> draft.run]
         /\ SendReturned("ok")' <=> pc = "sending" /\ result' = "ok" /\ spc' = "returned"
         /\ ~SendReturned("ok")
  <1> USE DEF PayOnceInv, AirdropTypeOK
  <1>1. draft \in Sends \union Receives
    BY DEF Drafted, Publishes, Published
  <1>2. Len(chain) \in Nat /\ height \in Nat
    BY BlockType DEF SenderTypeOK
  <1>3. /\ height \in 1 .. Len(chain) + 1 /\ Len(chain') = height
        /\ \A k \in 1 .. height - 1 : chain'[k] = chain[k]
        /\ chain'[height] = [hash |-> minted + 1, kind |-> draft.kind,
                              of |-> draft.of, run |-> draft.run]
    BY <1>1, AcceptLemma DEF Publishes, Published
  <1>4. ~Displaces => height = Len(chain) + 1
    BY DEF Publishes, Published, Accepts, Fits
  <1>5. QED
    BY <1>1, <1>2, <1>3, <1>4 DEF Publishes, Published, SendReturned, runVars

LEMMA PaymentJoins ==
  ASSUME PayOnceInv, ~Displaces, Publishes, pc = "sending"
  PROVE  /\ PaymentAt(Len(chain))' = [run |-> inv.run, to |-> List[i], id |-> minted + 1]
         /\ PaymentAt(Len(chain))' \in Promise!Payment
         /\ PaymentsMade' = PaymentsMade \union {PaymentAt(Len(chain))'}
         /\ \A q \in PaymentsMade : q.id < minted + 1
  <1> USE DEF PayOnceInv, AirdropTypeOK
  <1> DEFINE p == [run |-> inv.run, to |-> List[i], id |-> minted + 1]
  <1>1. /\ height = Len(chain) + 1 /\ Len(chain) \in Nat /\ Len(chain') = height
        /\ \A k \in 1 .. height - 1 : chain'[k] = chain[k]
        /\ chain'[height] = [hash |-> minted + 1, kind |-> draft.kind,
                              of |-> draft.of, run |-> draft.run]
    BY ChainGrows
  <1>2. draft.kind = "send" /\ draft.of = List[i] /\ draft.run = inv.run
        /\ i \in DOMAIN List
    BY DEF Drafted
  <1>3. Heights(Len(chain), "send")' = Heights(Len(chain), "send") \union {Len(chain')}
    BY <1>1, <1>2 DEF Heights
  <1>4. PaymentAt(Len(chain))' = p
    BY <1>1, <1>2 DEF PaymentAt
  <1>5. \A h \in Heights(Len(chain), "send") :
          PaymentAt(h)' = PaymentAt(h) /\ PaymentAt(h).id < minted + 1
    <2>1. SUFFICES ASSUME NEW h \in Heights(Len(chain), "send")
                   PROVE  PaymentAt(h)' = PaymentAt(h) /\ PaymentAt(h).id < minted + 1
      OBVIOUS
    <2>2. h \in 1 .. Len(chain) /\ chain'[h] = chain[h] /\ h \in DOMAIN chain
      BY <1>1, <2>1, BlockType DEF Heights
    <2>3. chain[h].hash <= minted /\ chain[h].hash \in Nat /\ minted \in Nat
      BY <2>2, BlockType DEF HashesGrow, Block, LedgerTypeOK
    <2>4. QED
      BY <2>2, <2>3 DEF PaymentAt
  <1>6. PaymentsMade' = PaymentsMade \union {PaymentAt(Len(chain))'}
    BY <1>3, <1>5 DEF PaymentsMade
  <1>7. p \in Promise!Payment
    <2>1. List[i] \in Addrs
      BY <1>2, ListType, ElementOfSeq
    <2>2. QED
      BY <2>1 DEF Promise!Payment, RunTypeOK, Invocation, LedgerTypeOK
  <1>8. \A q \in PaymentsMade : q.id < minted + 1
    BY <1>5 DEF PaymentsMade
  <1>9. QED
    BY <1>4, <1>6, <1>7, <1>8

\* A line about a payment joins the entries, unless it is torn.
LEMMA EntryJoins ==
  ASSUME PayOnceInv, SendReturned("ok"), NEW form \in {"whole", "bare", "torn"},
         Write(inv.run, List[i], lastHash, form)
  PROVE  Entries' = Entries \union (IF form = "torn" THEN {} ELSE {PaymentAt(Len(chain))})
  <1> USE DEF PayOnceInv, AirdropTypeOK
  <1> DEFINE E(k) == [run |-> journal[k].run, to |-> journal[k].addr, id |-> journal[k].hash]
             F(k) == [run |-> journal'[k].run, to |-> journal'[k].addr, id |-> journal'[k].hash]
             last == Len(journal) + 1
  <1>1. inv.run \in Runs /\ List[i] \in Addrs /\ lastHash \in Nat
    BY SendReturnedType DEF TypeInv
  <1>2. /\ journal' \in Seq(Line) /\ Len(journal') = last
        /\ \A k \in 1 .. Len(journal) :
             /\ journal'[k].run = journal[k].run /\ journal'[k].addr = journal[k].addr
             /\ journal'[k].hash = journal[k].hash
             /\ journal'[k].form = "torn" <=> journal[k].form = "torn"
        /\ journal'[last].run = inv.run /\ journal'[last].addr = List[i]
        /\ journal'[last].hash = lastHash
        /\ journal'[last].form = "torn" <=> form = "torn"
    BY <1>1, WriteLemma
  <1>3. Len(journal) \in Nat /\ DOMAIN journal = 1 .. Len(journal) /\ DOMAIN journal' = 1 .. last
    BY <1>2, LineType, LenProperties
  <1>4. Written' = Written \union (IF form = "torn" THEN {} ELSE {last})
    BY <1>2, <1>3 DEF Written
  <1>5. \A k \in Written : F(k) = E(k)
    BY <1>2, <1>3 DEF Written
  <1>6. F(last) = PaymentAt(Len(chain))
    BY <1>2 DEF Acknowledged, PaymentAt
  <1>7. Entries = {E(k) : k \in Written} /\ Entries' = {F(k) : k \in Written'}
    BY DEF Entries
  <1> HIDE DEF E, F, last
  <1>8. QED
    BY <1>4, <1>5, <1>6, <1>7

\* Who is on record is in the book, and nobody else.
LEMMA BookIsJournal ==
  ASSUME NEW r, NEW a
  PROVE  Promise!InBook(r, a) <=> a \in Recorded(r)
  <1> DEFINE E(k) == [run |-> journal[k].run, to |-> journal[k].addr, id |-> journal[k].hash]
  <1>1. Entries = {E(k) : k \in Written}
    BY DEF Entries
  <1>2. \A k : E(k).run = journal[k].run /\ E(k).to = journal[k].addr
    OBVIOUS
  <1> HIDE DEF E
  <1>3. Promise!InBook(r, a) <=> \E k \in Written : journal[k].run = r /\ journal[k].addr = a
    BY <1>1, <1>2 DEF Promise!InBook
  <1>4. QED
    BY <1>3 DEF Recorded, Lines

LEMMA PromiseStep ==
  ASSUME PayOnceInv, ~Displaces, [AirdropNext]_airdropVars
  PROVE  [Promise!PayoutNext]_<<PaymentsMade, Entries, ToEnter>>
  <1>1. CASE Still
    BY <1>1 DEF Still, PaymentsMade, PaymentAt, Heights, Entries, Written, ToEnter
  <1>2. CASE Publishes
    <2>1. Entries' = Entries /\ ToEnter = {}
      BY <1>2, ChainGrows DEF Entries, Written, ToEnter, Publishes
    <2>2. CASE pc = "sending"
      <3> DEFINE p == PaymentAt(Len(chain))'
      <3>1. /\ PaymentAt(Len(chain))' = [run |-> inv.run, to |-> List[i], id |-> minted + 1]
            /\ PaymentAt(Len(chain))' \in Promise!Payment
            /\ PaymentsMade' = PaymentsMade \union {PaymentAt(Len(chain))'}
            /\ \A q \in PaymentsMade : q.id < minted + 1
        BY <1>2, <2>2, PaymentJoins
      <3>2. ToEnter' \in {{p}, {}}
        BY DEF ToEnter
      <3>3. ~Promise!InBook(inv.run, List[i])
        BY <2>2, NotRecorded, BookIsJournal DEF PayOnceInv, TypeInv
      <3>4. Promise!Pay(p)
        BY <2>1, <3>1, <3>2, <3>3 DEF Promise!Pay
      <3>5. p \in PaymentsMade'
        BY <3>1
      <3>6. QED
        BY <3>4, <3>5 DEF Promise!PayoutNext
    <2>3. CASE pc = "receiving"
      <3>1. draft.kind = "receive"
        BY <2>3 DEF PayOnceInv, Drafted, Receives
      <3>2. /\ height = Len(chain) + 1 /\ Len(chain) \in Nat /\ Len(chain') = height
            /\ \A k \in 1 .. height - 1 : chain'[k] = chain[k]
            /\ chain'[height].kind = "receive"
        BY <1>2, <3>1, ChainGrows
      <3>3. Heights(Len(chain), "send")' = Heights(Len(chain), "send")
        BY <3>2 DEF Heights
      <3>4. \A h \in Heights(Len(chain), "send") : PaymentAt(h)' = PaymentAt(h)
        BY <3>2 DEF Heights, PaymentAt
      <3>5. PaymentsMade' = PaymentsMade
        BY <3>3, <3>4 DEF PaymentsMade
      <3>6. ToEnter' = {}
        BY <1>2, <2>3, ChainGrows DEF ToEnter
      <3>7. QED
        BY <2>1, <3>5, <3>6
    <2>4. QED
      BY <1>2, <2>2, <2>3 DEF Publishes
  <1>3. CASE Enters
    <2>1. PaymentsMade' = PaymentsMade
      BY <1>3 DEF Enters, PaymentsMade, PaymentAt, Heights
    <2>2. ToEnter = {PaymentAt(Len(chain))} /\ ToEnter' = {}
      BY <1>3 DEF Enters, ToEnter
    <2>3. \/ UNCHANGED journal
          \/ \E form \in {"whole", "bare", "torn"} : Write(inv.run, List[i], lastHash, form)
      BY <1>3 DEF Enters, Record, RecordCutShort
    <2>4. Entries' = Entries \/ Entries' = Entries \union ToEnter
      <3>1. CASE UNCHANGED journal
        BY <3>1 DEF Entries, Written
      <3>2. CASE \E form \in {"whole", "bare", "torn"} :
                   Write(inv.run, List[i], lastHash, form)
        BY <1>3, <2>2, <3>2, EntryJoins DEF Enters
      <3>3. QED
        BY <2>3, <3>1, <3>2
    <2>5. Promise!Enter \/ Promise!LoseEntry
      BY <2>1, <2>2, <2>4 DEF Promise!Enter, Promise!LoseEntry
    <2>6. QED
      BY <2>5 DEF Promise!PayoutNext
  <1>4. QED
    BY <1>1, <1>2, <1>3, StepKinds DEF PayOnceInv, TypeInv

LEMMA PromiseInit ==
  ASSUME AirdropInit
  PROVE  Promise!PayoutInit
  <1>1. PICK older \in {<<>>, <<Older>>} : chain = older
    BY DEF AirdropInit, LedgerInit
  <1>2. Heights(Len(chain), "send") = {}
    BY <1>1 DEF Heights, Older
  <1>3. Entries = {} /\ ToEnter = {}
    BY DEF AirdropInit, JournalInit, Entries, Written, ToEnter, SendReturned
  <1>4. QED
    BY <1>2, <1>3 DEF PaymentsMade, Promise!PayoutInit

\* planAndSend and Airdrop.Run, over any number of invocations and mishaps,
\* implement Payout.
THEOREM AirdropKeepsPromise ==
  ASSUME ~Displaces
  PROVE  AirdropSpec => KeepsPromise
  <1>1. AirdropInit => Promise!PayoutInit
    BY PromiseInit
  <1>2. PayOnceInv /\ [AirdropNext]_airdropVars
          => [Promise!PayoutNext]_<<PaymentsMade, Entries, ToEnter>>
    BY PromiseStep
  <1>3. QED
    BY <1>1, <1>2, PayOnceInvariant, PTL DEF AirdropSpec, KeepsPromise, Promise!PayoutSpec

-----------------------------------------------------------------------------
(* Every line is about a payment: what is in the book was paid.            *)

BookSound == Entries \union ToEnter \subseteq PaymentsMade

LEMMA BookStaysSound ==
  ASSUME BookSound, [Promise!PayoutNext]_<<PaymentsMade, Entries, ToEnter>>
  PROVE  BookSound'
  <1>1. CASE UNCHANGED <<PaymentsMade, Entries, ToEnter>>
    BY <1>1 DEF BookSound
  <1>2. CASE \E p \in PaymentsMade' : Promise!Pay(p)
    BY <1>2 DEF BookSound, Promise!Pay
  <1>3. CASE Promise!Enter \/ Promise!LoseEntry
    BY <1>3 DEF BookSound, Promise!Enter, Promise!LoseEntry
  <1>4. QED
    BY <1>1, <1>2, <1>3 DEF Promise!PayoutNext

LEMMA SoundBookIsSent ==
  ASSUME PayOnceInv, BookSound
  PROVE  NoLineWithoutSend
  <1> DEFINE E(k) == [run |-> journal[k].run, to |-> journal[k].addr, id |-> journal[k].hash]
  <1>1. SUFFICES ASSUME NEW r \in Runs, NEW k \in Lines(r)
                 PROVE  \E h \in Payments(r, journal[k].addr) : chain[h].hash = journal[k].hash
    BY DEF NoLineWithoutSend
  <1>2. k \in Written /\ journal[k].run = r
    BY <1>1 DEF Lines
  <1>3. E(k) \in PaymentsMade
    BY <1>2 DEF BookSound, Entries
  <1>4. PICK h \in Heights(Len(chain), "send") : E(k) = PaymentAt(h)
    BY <1>3 DEF PaymentsMade
  <1>5. chain[h].run = r /\ chain[h].of = journal[k].addr /\ chain[h].hash = journal[k].hash
    BY <1>2, <1>4 DEF PaymentAt
  <1>6. QED
    BY <1>4, <1>5 DEF Payments

\* On a node that refuses a block at a height that is taken, nobody is on
\* record, and so skipped by a later invocation, who was not paid.
THEOREM NobodySkippedUnpaid ==
  ASSUME ~Displaces
  PROVE  AirdropSpec => []NoLineWithoutSend
  <1>1. AirdropInit => BookSound
    BY PromiseInit DEF Promise!PayoutInit, BookSound
  <1>2. PayOnceInv /\ BookSound /\ [AirdropNext]_airdropVars => BookSound'
    BY PromiseStep, BookStaysSound
  <1>3. PayOnceInv /\ BookSound => NoLineWithoutSend
    BY SoundBookIsSent
  <1>4. QED
    BY <1>1, <1>2, <1>3, PayOnceInvariant, PTL DEF AirdropSpec

-----------------------------------------------------------------------------
(* What the journal and the report say of an invocation, and what the      *)
(* mishaps may have cost it.                                               *)

\* A step pays with a mishap for each lapse it may cause, or gives up the one
\* that an interrupt was charged for.
Pays(n) == ToCome' + n + faults <= ToCome + faults'

Costs ==
  /\ Pays(0)
  /\ minted' # minted => spc' = "returned" /\ (result' = "ok" \/ Pays(1))

LEMMA StepCosts ==
  ASSUME TypeInv, [AirdropNext]_airdropVars
  PROVE  Costs
  <1> USE DEF Costs, Pays, ToCome
  <1>0. faults \in Nat /\ minted \in Nat /\ cancelled \in BOOLEAN
    BY DEF TypeInv, AirdropTypeOK, LedgerTypeOK, SenderTypeOK
  <1>1. ASSUME NEW why, Exit(why), UNCHANGED minted, Charge
        PROVE  Costs
    BY <1>0, <1>1 DEF Exit, Forget, Charge, Misfortune
  <1>2. ASSUME UNCHANGED <<spc, result, cancelled, minted>>, Charge
        PROVE  Costs
    BY <1>0, <1>2 DEF Charge, Misfortune
  <1>3. CASE \E r \in Runs, sending, receive \in BOOLEAN : Invoke(r, sending, receive)
    BY <1>2, <1>3 DEF Invoke, ledgerVars, senderVars, Charge
  <1>4. CASE ReadPaid \/ FetchPending \/ PageCollected \/ StartSending \/ Skip \/ SendRecorded
    BY <1>2, <1>4 DEF ReadPaid, FetchPending, PageCollected, StartSending, Skip, SendRecorded,
       ledgerVars, senderVars, Charge
  <1>5. CASE CollectNext \/ SendNext
    BY <1>0, <1>5 DEF CollectNext, SendNext, Call, ledgerVars
  <1>6. CASE ReceiveReturned \/ SendFailed
    BY <1>1, <1>2, <1>6 DEF ReceiveReturned, SendFailed, ledgerVars, senderVars, Charge
  <1>7. CASE Unreadable \/ PlanEnds \/ Canceled \/ SendCanceled \/ Finish
    BY <1>1, <1>7 DEF Unreadable, PlanEnds, Canceled, SendCanceled, Finish, ledgerVars, Charge
  <1>8. CASE PlanFails \/ SendNotRecorded \/ Crash
    BY <1>1, <1>8 DEF PlanFails, SendNotRecorded, Crash, Charge
  <1>9. CASE SenderWorks \/ SenderSuffers \/ Interrupted
    <2> USE <1>0
    <2>1. CASE PollFrontier \/ FirstBlock \/ FrontierTimeout
      BY <2>1 DEF PollFrontier, FirstBlock, FrontierTimeout, BuildOn, Return, ledgerVars,
         Misfortune
    <2>2. CASE Price \/ PriceFails \/ PublishRefused \/ PublishFails \/ Abandon
      BY <2>2 DEF Price, PriceFails, PublishRefused, PublishFails, Abandon, Return, ledgerVars,
         Misfortune
    <2>3. CASE PublishOk \/ PublishReplyLost \/ PublishInterrupted
      BY <2>3 DEF PublishOk, PublishReplyLost, PublishInterrupted, Accept, Return, Misfortune
    <2>4. CASE Interrupt
      BY <2>4 DEF Interrupt, Misfortune
    <2>5. QED
      BY <1>9, <2>1, <2>2, <2>3, <2>4 DEF SenderWorks, SenderSuffers, Interrupted, SendStep,
         SendMishap
  <1>10. CASE NodeReports \/ UNCHANGED airdropVars
    BY <1>2, <1>10 DEF NodeReports, CatchUp, airdropVars, ledgerVars, senderVars, Charge
  <1>11. QED
    BY <1>3, <1>4, <1>5, <1>6, <1>7, <1>8, <1>9, <1>10
       DEF AirdropNext, Process, Mishap, Plan, Run

\* What is on record stays there, under the same hash.
LinesStay ==
  \A r : /\ Lines(r) \subseteq Lines(r)'
         /\ \A k \in Lines(r) : journal'[k].addr = journal[k].addr
                             /\ journal'[k].hash = journal[k].hash

LEMMA WriteKeepsLines ==
  ASSUME TypeInv, SendReturned("ok"), NEW form \in {"whole", "bare", "torn"},
         Write(inv.run, List[i], lastHash, form), UNCHANGED inv
  PROVE  /\ LinesStay
         /\ form # "torn" =>
              /\ Len(journal) + 1 \in Lines(inv.run)'
              /\ journal'[Len(journal) + 1].addr = List[i]
              /\ journal'[Len(journal) + 1].hash = lastHash
  <1> USE DEF TypeInv, AirdropTypeOK
  <1>1. inv.run \in Runs /\ List[i] \in Addrs /\ lastHash \in Nat
    BY SendReturnedType
  <1>2. /\ journal' \in Seq(Line) /\ Len(journal') = Len(journal) + 1
        /\ \A k \in 1 .. Len(journal) :
             /\ journal'[k].run = journal[k].run /\ journal'[k].addr = journal[k].addr
             /\ journal'[k].hash = journal[k].hash
             /\ journal'[k].form = "torn" <=> journal[k].form = "torn"
        /\ journal'[Len(journal')].run = inv.run /\ journal'[Len(journal')].addr = List[i]
        /\ journal'[Len(journal')].hash = lastHash
        /\ journal'[Len(journal')].form = "torn" <=> form = "torn"
    BY <1>1, WriteLemma
  <1>3. Len(journal) \in Nat /\ DOMAIN journal = 1 .. Len(journal)
        /\ DOMAIN journal' = 1 .. Len(journal) + 1
    BY <1>2, LineType, LenProperties
  <1>4. LinesStay
    BY <1>2, <1>3 DEF LinesStay, Lines, Written
  <1>5. CASE form # "torn"
    <2>1. Len(journal) + 1 \in DOMAIN journal' /\ Len(journal') = Len(journal) + 1
      BY <1>2, <1>3
    <2>2. journal'[Len(journal) + 1].run = inv.run /\ journal'[Len(journal) + 1].form # "torn"
      BY <1>2, <1>5
    <2>3. Len(journal) + 1 \in Lines(inv.run)'
      BY <2>1, <2>2 DEF Lines, Written
    <2>4. QED
      BY <1>2, <1>4, <2>3
  <1>6. QED
    BY <1>4, <1>5

LEMMA LinesKept ==
  ASSUME TypeInv, [AirdropNext]_airdropVars
  PROVE  LinesStay /\ \A r : Recorded(r) \subseteq Recorded(r)'
  <1>1. LinesStay
    <2>1. CASE UNCHANGED journal
      BY <2>1 DEF LinesStay, Lines, Written
    <2>2. CASE Enters
      <3>1. inv' = inv
        BY <2>2 DEF Enters
      <3>2. \/ UNCHANGED journal
            \/ \E form \in {"whole", "bare", "torn"} : Write(inv.run, List[i], lastHash, form)
        BY <2>2 DEF Enters, Record, RecordCutShort
      <3>3. QED
        BY <2>1, <2>2, <3>1, <3>2, WriteKeepsLines DEF Enters
    <2>3. QED
      BY <2>1, <2>2, StepKinds DEF Still, Publishes
  <1>2. \A r : Recorded(r) \subseteq Recorded(r)'
    BY <1>1 DEF LinesStay, Recorded
  <1>3. QED
    BY <1>1, <1>2

LEMMA LinesFinite ==
  ASSUME JournalTypeOK, JournalTypeOK', NEW r
  PROVE  /\ IsFiniteSet(Lines(r)) /\ Cardinality(Lines(r)) \in Nat
         /\ IsFiniteSet(Lines(r)') /\ Cardinality(Lines(r)') \in Nat
  <1>1. ASSUME NEW n \in Nat, NEW S \in SUBSET (1 .. n)
        PROVE  IsFiniteSet(S) /\ Cardinality(S) \in Nat
    <2>1. IsFiniteSet(1 .. n)
      BY FS_Interval
    <2>2. IsFiniteSet(S)
      BY <2>1, FS_Subset
    <2>3. QED
      BY <2>2, FS_CardinalityType
  <1>2. Lines(r) \in SUBSET (1 .. Len(journal)) /\ Len(journal) \in Nat
    BY LenProperties DEF JournalTypeOK, Lines, Written
  <1>3. Lines(r)' \in SUBSET (1 .. Len(journal')) /\ Len(journal') \in Nat
    BY LenProperties DEF JournalTypeOK, Lines, Written
  <1>4. QED
    BY <1>1, <1>2, <1>3

\* A send that is recorded puts one more line in the journal, for the recipient
\* the run is at.
LEMMA RecordedAtLast ==
  ASSUME TypeInv, SendRecorded
  PROVE  /\ List[i] \in Recorded(inv.run)'
         /\ Cardinality(Lines(inv.run)') >= Cardinality(Lines(inv.run)) + 1
  <1> USE DEF TypeInv, AirdropTypeOK
  <1>1. /\ SendReturned("ok") /\ Write(inv.run, List[i], lastHash, "whole") /\ UNCHANGED inv
      BY DEF SendRecorded, Record, Goto
  <1> DEFINE new == Len(journal) + 1
  <1>2. LinesStay /\ new \in Lines(inv.run)' /\ journal'[new].addr = List[i]
    BY <1>1, WriteKeepsLines
  <1>3. List[i] \in Recorded(inv.run)'
    BY <1>2 DEF Recorded
  <1>4. new \notin Lines(inv.run)
    BY LineType DEF Lines, Written
  <1>5. JournalTypeOK'
    BY <1>1, RecordType DEF Record, SendRecorded
  <1>6. IsFiniteSet(Lines(inv.run)) /\ IsFiniteSet(Lines(inv.run)')
        /\ Cardinality(Lines(inv.run)) \in Nat /\ Cardinality(Lines(inv.run)') \in Nat
    <2> DEFINE r == inv.run
    <2>1. Lines(inv.run)' = Lines(r)'
      BY <1>1 DEF Lines
    <2> HIDE DEF r
    <2>2. /\ IsFiniteSet(Lines(r)) /\ Cardinality(Lines(r)) \in Nat
          /\ IsFiniteSet(Lines(r)') /\ Cardinality(Lines(r)') \in Nat
      BY <1>5, LinesFinite
    <2>3. QED
      BY <2>1, <2>2 DEF r
  <1>7. Lines(inv.run) \union {new} \in SUBSET Lines(inv.run)'
    BY <1>1, <1>2 DEF LinesStay
  <1>8. Cardinality(Lines(inv.run) \union {new}) = Cardinality(Lines(inv.run)) + 1
    BY <1>4, <1>6, FS_AddElement
  <1>9. Cardinality(Lines(inv.run) \union {new}) <= Cardinality(Lines(inv.run)')
    BY <1>6, <1>7, FS_Subset
  <1>10. QED
    BY <1>3, <1>6, <1>8, <1>9

-----------------------------------------------------------------------------
(* AccountInv: NoneMissed, SentIsRecorded, LapsesPaidFor.                  *)

LEMMA NoneMissedStep ==
  ASSUME TypeInv, NoneMissed, [AirdropNext]_airdropVars
  PROVE  NoneMissed'
  <1> USE DEF TypeInv, AirdropTypeOK
  <1>0. /\ \A r : Recorded(r) \subseteq Recorded(r)'
        /\ DOMAIN List = 1 .. Len(List) /\ Len(List) \in Nat
        /\ i \in Nat /\ rep.failed \in Nat
    BY LinesKept, ListType DEF RunTypeOK, Report
  <1>1. ASSUME UNCHANGED inv
        PROVE  List' = List /\ Recorded(inv.run) \subseteq Recorded(inv.run)'
    BY <1>0, <1>1 DEF List, Recorded, Lines, Written
  <1>2. ASSUME NEW why, why # "done", Exit(why)
        PROVE  NoneMissed'
    BY <1>2 DEF Exit, NoneMissed
  <1>3. ASSUME UNCHANGED <<inv, exit, alreadyPaid, i, rep>>,
               pc' \in {"loop", "sending"} <=> pc \in {"loop", "sending"},
               pc' \in {"down", "plan"} => pc \in {"down", "plan"},
               pc \in {"down", "plan"} => pc' \in {"down", "plan"}
        PROVE  NoneMissed'
    BY <1>1, <1>3 DEF NoneMissed
  <1>4. CASE \E r \in Runs, sending, receive \in BOOLEAN : Invoke(r, sending, receive)
    BY <1>4 DEF Invoke, NoneMissed
  <1>5. CASE ReadPaid
    BY <1>1, <1>5 DEF ReadPaid, Goto, NoneMissed, Recorded, Lines, Written
  <1>6. CASE FetchPending \/ CollectNext \/ PageCollected \/ SendNext
    BY <1>3, <1>6 DEF FetchPending, CollectNext, PageCollected, SendNext, AtRecipient, Goto
  <1>7. CASE ReceiveReturned
    BY <1>2, <1>3, <1>7 DEF ReceiveReturned, Goto
  <1>8. CASE Unreadable \/ PlanFails \/ PlanEnds \/ Canceled \/ SendCanceled
    BY <1>2, <1>8 DEF Unreadable, PlanFails, PlanEnds, Canceled, SendCanceled
  <1>9. CASE StartSending
    BY <1>0, <1>1, <1>9 DEF StartSending, Goto, NoneMissed
  <1>10. CASE Skip
    <2>1. List[i] \in Recorded(inv.run)
      BY <1>10 DEF Skip, AtRecipient, NoneMissed
    <2>2. \A j \in DOMAIN List : j < i + 1 => j < i \/ j = i
      BY <1>0
    <2>3. rep'.failed = rep.failed
      BY <1>10 DEF Skip, RunTypeOK, Report
    <2>4. UNCHANGED <<pc, inv, exit, alreadyPaid>> /\ pc = "loop" /\ i' = i + 1
      BY <1>10 DEF Skip, AtRecipient
    <2>5. QED
      BY <1>1, <2>1, <2>2, <2>3, <2>4 DEF NoneMissed
  <1>11. CASE SendFailed
    <2>1. rep'.failed # 0
      BY <1>0, <1>11 DEF SendFailed, RunTypeOK, Report
    <2>2. CASE Exit("stopped")
      BY <1>2, <2>2
    <2>3. CASE Goto("loop") /\ UNCHANGED alreadyPaid
      BY <1>1, <1>11, <2>1, <2>3 DEF SendFailed, SendReturned, Goto, NoneMissed
    <2>4. QED
      BY <1>11, <2>2, <2>3 DEF SendFailed
  <1>12. CASE SendRecorded
    <2>1. List[i] \in Recorded(inv.run)'
      BY <1>12, RecordedAtLast
    <2>2. \A j \in DOMAIN List : j < i + 1 => j < i \/ j = i
      BY <1>0
    <2>3. rep'.failed = rep.failed
      BY <1>12 DEF SendRecorded, RunTypeOK, Report
    <2>4. UNCHANGED <<inv, exit, alreadyPaid>> /\ pc = "sending" /\ pc' = "loop" /\ i' = i + 1
      BY <1>12 DEF SendRecorded, SendReturned, Goto
    <2>5. QED
      BY <1>1, <2>1, <2>2, <2>3, <2>4 DEF NoneMissed
  <1>13. CASE SendNotRecorded \/ Crash
    BY <1>2, <1>13 DEF SendNotRecorded, Crash
  <1>14. CASE Finish
    <2>1. CASE rep.failed > 0
      BY <1>2, <1>14, <2>1 DEF Finish
    <2>2. CASE rep.failed = 0
      <3>1. \A j \in DOMAIN List : List[j] \in Recorded(inv.run)
        BY <1>0, <1>14, <2>2 DEF Finish, NoneMissed
      <3>2. Exit("done")
        BY <1>14, <2>2 DEF Finish
      <3>3. QED
        BY <1>1, <3>1, <3>2 DEF Exit, NoneMissed
    <2>3. QED
      BY <1>0, <2>1, <2>2
  <1>15. CASE SenderWorks \/ SenderSuffers \/ Interrupted \/ NodeReports \/ UNCHANGED airdropVars
    BY <1>3, <1>15 DEF SenderWorks, SenderSuffers, Interrupted, NodeReports, airdropVars, runVars
  <1>16. QED
    BY <1>4, <1>5, <1>6, <1>7, <1>8, <1>9, <1>10, <1>11, <1>12, <1>13, <1>14, <1>15
       DEF AirdropNext, Process, Mishap, Plan, Run

LEMMA SentIsRecordedStep ==
  ASSUME TypeInv, TypeInv', SentIsRecorded, [AirdropNext]_airdropVars
  PROVE  SentIsRecorded'
  <1> USE DEF TypeInv, AirdropTypeOK
  <1>1. rep \in Report /\ rep.sent \in Nat
    BY DEF RunTypeOK, Report
  <1>2. Cardinality(Lines(inv.run)) \in Nat /\ Cardinality(Lines(inv.run)') \in Nat
    <2>1. PICK r : r = inv.run
      OBVIOUS
    <2>2. PICK q : q = inv'.run
      OBVIOUS
    <2>3. Lines(inv.run)' = Lines(q)'
      BY <2>2 DEF Lines
    <2>4. Cardinality(Lines(r)) \in Nat
      BY LinesFinite
    <2>5. Cardinality(Lines(q)') \in Nat
      BY LinesFinite
    <2>6. QED
      BY <2>1, <2>3, <2>4, <2>5
  <1>3. inv' = inv => Cardinality(Lines(inv.run)) <= Cardinality(Lines(inv.run)')
    <2>1. PICK r : r = inv.run
      OBVIOUS
    <2>2. IsFiniteSet(Lines(r)')
      BY LinesFinite
    <2>3. Lines(r) \in SUBSET Lines(r)'
      BY LinesKept DEF LinesStay
    <2>4. Cardinality(Lines(r)) <= Cardinality(Lines(r)')
      BY <2>2, <2>3, FS_Subset
    <2>5. inv' = inv => Lines(inv.run)' = Lines(r)'
      BY <2>1 DEF Lines
    <2>6. QED
      BY <2>1, <2>4, <2>5
  <1>4. CASE \E r \in Runs, sending, receive \in BOOLEAN : Invoke(r, sending, receive)
    BY <1>2, <1>4 DEF Invoke, NoReport, SentIsRecorded
  <1>5. CASE SendRecorded
    <2>1. rep'.sent = rep.sent + 1 /\ inv' = inv
      BY <1>1, <1>5 DEF SendRecorded, Goto, Report
    <2>2. Cardinality(Lines(inv.run)') >= Cardinality(Lines(inv.run)) + 1
      BY <1>5, RecordedAtLast
    <2>3. QED
      BY <1>1, <1>2, <2>1, <2>2 DEF SentIsRecorded
  <1>6. CASE inv' = inv /\ rep'.sent = rep.sent
    BY <1>1, <1>2, <1>3, <1>6 DEF SentIsRecorded
  <1>7. CASE Skip \/ SendFailed
    <2>1. inv' = inv /\ rep'.sent = rep.sent
      BY <1>1, <1>7 DEF Skip, SendFailed, Exit, Goto, Report
    <2>2. QED
      BY <1>6, <2>1
  <1>8. CASE Plan
    <2>1. UNCHANGED <<inv, rep>>
      BY <1>8 DEF Plan, ReadPaid, Unreadable, FetchPending, CollectNext, PageCollected,
         ReceiveReturned, PlanFails, PlanEnds, StartSending, Exit, Goto
    <2>2. QED
      BY <1>6, <2>1
  <1>9. CASE Canceled \/ SendNext \/ SendCanceled \/ SendNotRecorded \/ Finish \/ Crash
    <2>1. UNCHANGED <<inv, rep>>
      BY <1>9 DEF Canceled, SendNext, SendCanceled, SendNotRecorded, Finish, Crash, Exit, Goto
    <2>2. QED
      BY <1>6, <2>1
  <1>10. CASE SenderWorks \/ SenderSuffers \/ Interrupted \/ NodeReports \/ UNCHANGED airdropVars
    <2>1. UNCHANGED <<inv, rep>>
      BY <1>10 DEF SenderWorks, SenderSuffers, Interrupted, NodeReports, airdropVars, runVars
    <2>2. QED
      BY <1>6, <2>1
  <1>11. QED
    BY <1>4, <1>5, <1>7, <1>8, <1>9, <1>10 DEF AirdropNext, Process, Mishap, Run

LEMMA LineStays ==
  ASSUME TypeInv, [AirdropNext]_airdropVars, NEW h, chain'[h] = chain[h], HasLine(h)
  PROVE  HasLine(h)'
  <1>1. PICK r : r = chain[h].run
    OBVIOUS
  <1>2. PICK k \in Lines(r) : journal[k].hash = chain[h].hash
    BY <1>1 DEF HasLine
  <1>3. k \in Lines(r)' /\ journal'[k].hash = journal[k].hash
    BY <1>2, LinesKept DEF LinesStay
  <1>4. Lines(chain[h].run)' = Lines(r)'
    BY <1>1 DEF Lines
  <1>5. QED
    BY <1>2, <1>3, <1>4 DEF HasLine

\* A step makes at most one payment lapse, and pays for it.
LEMMA LapseIsPaidFor ==
  ASSUME PayOnceInv, [AirdropNext]_airdropVars
  PROVE  \/ Pays(0) /\ Lapses' \subseteq Lapses
         \/ Pays(1) /\ \E h : Lapses' \subseteq Lapses \union {h}
  <1> USE DEF PayOnceInv, AirdropTypeOK
  <1>0. TypeInv /\ Costs
    BY StepCosts DEF TypeInv
  <1>1. \A h : chain'[h] = chain[h] /\ HasLine(h) => HasLine(h)'
    BY <1>0, LineStays
  <1>2. CASE Still
    <2>1. InFlight' = InFlight /\ Heights(Len(chain), "send")' = Heights(Len(chain), "send")
      BY <1>2 DEF Still, InFlight, Heights
    <2>2. \A h : HasLine(h) => HasLine(h)'
      BY <1>1, <1>2 DEF Still
    <2>3. QED
      BY <1>0, <2>1, <2>2 DEF Lapses, Costs
  <1>3. CASE Publishes
    <2>1. /\ height \in 1 .. Len(chain) + 1
          /\ Len(chain) \in Nat /\ Len(chain') = height
          /\ \A k \in 1 .. height - 1 : chain'[k] = chain[k]
          /\ chain'[height].kind = draft.kind
          /\ SendReturned("ok")' <=> pc = "sending" /\ result' = "ok" /\ spc' = "returned"
          /\ ~SendReturned("ok")
      BY <1>3, ChainGrows
    <2>2. spc' = "returned" /\ (result' = "ok" \/ Pays(1))
      <3>1. minted' = minted + 1 /\ minted \in Nat
        BY <1>3 DEF Publishes, Published, Accept, LedgerTypeOK
      <3>2. QED
        BY <1>0, <3>1 DEF Costs
    <2>3. \A h \in Lapses' : h \in Lapses \/ h = height
      <3>1. SUFFICES ASSUME NEW h \in Heights(Len(chain), "send")', h # height, ~HasLine(h)'
                     PROVE  h \in Lapses
        BY DEF Lapses
      <3>2. h \in 1 .. height - 1 /\ h \in 1 .. Len(chain) /\ chain'[h].kind = "send"
        BY <2>1, <3>1 DEF Heights
      <3>3. chain'[h] = chain[h]
        BY <2>1, <3>2
      <3>4. h \in Heights(Len(chain), "send") /\ ~HasLine(h)
        BY <1>1, <3>1, <3>2, <3>3 DEF Heights
      <3>5. QED
        BY <2>1, <3>4 DEF Lapses, InFlight
    <2>4. CASE Pays(1)
      BY <2>3, <2>4
    <2>5. CASE ~Pays(1)
      <3>1. result' = "ok" /\ spc' = "returned"
        BY <2>2, <2>5
      <3>2. height \notin Lapses'
        <4>1. CASE pc = "sending"
          BY <2>1, <3>1, <4>1 DEF Lapses, InFlight
        <4>2. CASE pc = "receiving"
          <5>1. chain'[height].kind = "receive"
            BY <2>1, <4>2 DEF Drafted, Receives
          <5>2. QED
            BY <5>1 DEF Lapses, Heights
        <4>3. QED
          BY <1>3, <4>1, <4>2 DEF Publishes
      <3>3. QED
        BY <1>0, <2>3, <3>2 DEF Costs
    <2>6. QED
      BY <2>4, <2>5
  <1>4. CASE Enters
    <2>1. chain' = chain /\ inv' = inv /\ SendReturned("ok") /\ ~SendReturned("ok")'
      BY <1>4 DEF Enters
    <2>2. \A h \in Lapses' : h \in Lapses \/ h = Len(chain)
      <3>1. SUFFICES ASSUME NEW h \in Heights(Len(chain), "send"), h # Len(chain), ~HasLine(h)
                     PROVE  h \in Lapses
        BY <1>1, <2>1 DEF Lapses, Heights
      <3>2. QED
        BY <3>1 DEF Lapses, InFlight
    <2>3. CASE Record(inv.run, List[i], lastHash) /\ UNCHANGED faults
      <3>1. /\ Len(journal) + 1 \in Lines(inv.run)'
            /\ journal'[Len(journal) + 1].hash = lastHash
        BY <1>0, <2>1, <2>3, WriteKeepsLines DEF Record
      <3>2. chain[Len(chain)].hash = lastHash /\ chain[Len(chain)].run = inv.run
        BY <2>1 DEF Acknowledged
      <3>3. Lines(chain[Len(chain)].run)' = Lines(inv.run)'
        BY <2>1, <3>2 DEF Lines
      <3>4. HasLine(Len(chain))'
        BY <2>1, <3>1, <3>2, <3>3 DEF HasLine
      <3>5. Len(chain) \notin Lapses'
        BY <2>1, <3>4 DEF Lapses
      <3>6. QED
        BY <1>0, <2>2, <3>5 DEF Costs
    <2>4. CASE Misfortune /\ ~cancelled'
      <3>1. faults' = faults + 1 /\ faults \in Nat
        BY <2>4 DEF Misfortune, LedgerTypeOK
      <3>2. Pays(1)
        BY <2>4, <3>1 DEF Pays, ToCome
      <3>3. QED
        BY <2>2, <3>2
    <2>5. QED
      BY <1>4, <2>3, <2>4 DEF Enters
  <1>5. QED
    BY <1>0, <1>2, <1>3, <1>4, StepKinds

LEMMA LapsesStep ==
  ASSUME PayOnceInv, LapsesPaidFor, [AirdropNext]_airdropVars
  PROVE  LapsesPaidFor'
  <1>1. IsFiniteSet(Lapses) /\ Cardinality(Lapses) \in Nat
    <2>1. Lapses \in SUBSET (1 .. Len(chain)) /\ Len(chain) \in Int
      BY BlockType DEF PayOnceInv, AirdropTypeOK, Lapses, Heights
    <2>2. IsFiniteSet(1 .. Len(chain))
      BY <2>1, FS_Interval
    <2>3. IsFiniteSet(Lapses)
      BY <2>1, <2>2, FS_Subset
    <2>4. QED
      BY <2>3, FS_CardinalityType
  <1>2. faults \in Nat /\ faults' \in Nat /\ ToCome \in Nat /\ ToCome' \in Nat
    <2>1. faults' \in Nat
      BY StepKinds DEF PayOnceInv, TypeInv, AirdropTypeOK, Still, Publishes, Enters, Charge,
         Misfortune, LedgerTypeOK
    <2>2. QED
      BY <2>1 DEF PayOnceInv, AirdropTypeOK, LedgerTypeOK, ToCome
  <1> DEFINE n == Cardinality(Lapses)
  <1>3. n + ToCome <= faults
    BY DEF LapsesPaidFor
  <1>4. \A p \in {0, 1} : \A m \in Nat : m <= n + p /\ Pays(p) => m + ToCome' <= faults'
    <2>1. \A p, l, m, c, d, k, e \in Nat :
            l + c <= k /\ m <= l + p /\ d + p + k <= c + e => m + d <= e
      OBVIOUS
    <2> HIDE DEF n
    <2>2. \A p, m \in Nat :
            m <= n + p /\ ToCome' + p + faults <= ToCome + faults' => m + ToCome' <= faults'
      BY <1>1, <1>2, <1>3, <2>1 DEF n
    <2>3. QED
      BY <2>2 DEF Pays
  <1>5. CASE Pays(0) /\ Lapses' \subseteq Lapses
    <2>1. Cardinality(Lapses') <= n /\ IsFiniteSet(Lapses')
      BY <1>1, <1>5, FS_Subset
    <2>2. Cardinality(Lapses') \in Nat
      BY <2>1, FS_CardinalityType
    <2>3. Cardinality(Lapses') <= n + 0
      BY <1>1, <2>1, <2>2
    <2>4. Cardinality(Lapses') + ToCome' <= faults'
      BY <1>4, <1>5, <2>2, <2>3
    <2>5. QED
      BY <2>4 DEF LapsesPaidFor
  <1>6. CASE Pays(1) /\ \E h : Lapses' \subseteq Lapses \union {h}
    <2>1. PICK h : Lapses' \subseteq Lapses \union {h}
      BY <1>6
    <2>2. IsFiniteSet(Lapses \union {h})
      BY <1>1, FS_AddElement
    <2>3. Cardinality(Lapses \union {h}) = IF h \in Lapses THEN n ELSE n + 1
      BY <1>1, FS_AddElement
    <2>4. IsFiniteSet(Lapses') /\ Cardinality(Lapses') <= Cardinality(Lapses \union {h})
      BY <2>1, <2>2, FS_Subset
    <2>5. Cardinality(Lapses') \in Nat
      BY <2>4, FS_CardinalityType
    <2>6. Cardinality(Lapses') <= n + 1
      BY <1>1, <2>3, <2>4, <2>5
    <2>7. Cardinality(Lapses') + ToCome' <= faults'
      BY <1>4, <1>6, <2>5, <2>6
    <2>8. QED
      BY <2>7 DEF LapsesPaidFor
  <1>7. QED
    BY <1>5, <1>6, LapseIsPaidFor

LEMMA AccountInit ==
  ASSUME AirdropInit
  PROVE  AccountInv
  <1>1. NoneMissed
    BY DEF AirdropInit, NoneMissed
  <1>2. Lapses = {}
    <2>1. PICK older \in {<<>>, <<Older>>} : chain = older
      BY DEF AirdropInit, LedgerInit
    <2>2. QED
      BY <2>1 DEF Heights, Older, Lapses
  <1>3. LapsesPaidFor
    BY <1>2, FS_EmptySet DEF AirdropInit, LedgerInit, SenderInit, LapsesPaidFor, ToCome
  <1>4. Lines(inv.run) = {} /\ rep.sent = 0
    BY DEF AirdropInit, JournalInit, Lines, Written, NoReport
  <1>5. SentIsRecorded
    BY <1>4, FS_EmptySet DEF SentIsRecorded
  <1>6. QED
    BY <1>1, <1>3, <1>5 DEF AccountInv

\* The report and the journal agree throughout, and every lapse is paid for.
THEOREM AccountInvariant == AirdropSpec => []AccountInv
  <1>1. AirdropInit => AccountInv
    BY AccountInit
  <1>2. PayOnceInv /\ PayOnceInv' /\ AccountInv /\ [AirdropNext]_airdropVars => AccountInv'
    BY NoneMissedStep, SentIsRecordedStep, LapsesStep DEF AccountInv, PayOnceInv, TypeInv
  <1>3. QED
    BY <1>1, <1>2, PayOnceInvariant, PTL DEF AirdropSpec

\* Whatever the node, the disk and the operator do, at most as many payments
\* are without their line as there were mishaps, and so at most as many are
\* made once too often.
THEOREM LapsesAreFew == AirdropSpec => []OneLapsePerMishap
  <1>1. PayOnceInv /\ AccountInv => OneLapsePerMishap
    <2> SUFFICES ASSUME PayOnceInv, AccountInv PROVE OneLapsePerMishap
      OBVIOUS
    <2>1. Lapses \in SUBSET (1 .. Len(chain)) /\ Len(chain) \in Int
      BY BlockType DEF PayOnceInv, AirdropTypeOK, Lapses, Heights
    <2>2. Cardinality(Lapses) \in Nat
      <3>1. IsFiniteSet(1 .. Len(chain))
        BY <2>1, FS_Interval
      <3>2. IsFiniteSet(Lapses)
        BY <2>1, <3>1, FS_Subset
      <3>3. QED
        BY <3>2, FS_CardinalityType
    <2>3. faults \in Nat /\ ToCome \in Nat
      BY DEF PayOnceInv, AirdropTypeOK, LedgerTypeOK, ToCome
    <2>4. QED
      BY <2>2, <2>3 DEF AccountInv, LapsesPaidFor, OneLapsePerMishap
  <1>2. QED
    BY <1>1, AccountInvariant, PayOnceInvariant, PTL

\* An invocation never reports more payments than the journal has lines for.
THEOREM ReportIsRecorded == AirdropSpec => []SentIsRecorded
  <1>1. AccountInv => SentIsRecorded
    BY DEF AccountInv
  <1>2. QED
    BY <1>1, AccountInvariant, PTL

\* On a node that refuses a block at a height that is taken, an invocation
\* that ends well has left every recipient paid and on record.
THEOREM DoneIsPaid ==
  ASSUME ~Displaces
  PROVE  AirdropSpec => []DoneMeansPaid
  <1>1. AirdropTypeOK /\ AccountInv /\ NoLineWithoutSend => DoneMeansPaid
    <2> SUFFICES ASSUME AirdropTypeOK, AccountInv, NoLineWithoutSend, exit = "done",
                        NEW k \in DOMAIN List
                 PROVE  Payments(inv.run, List[k]) # {} /\ List[k] \in Recorded(inv.run)
      BY DEF DoneMeansPaid
    <2>1. List[k] \in Recorded(inv.run) /\ inv.run \in Runs
      BY DEF AccountInv, NoneMissed, AirdropTypeOK, RunTypeOK, Invocation
    <2>2. PICK l \in Lines(inv.run) : journal[l].addr = List[k]
      BY <2>1 DEF Recorded
    <2>3. Payments(inv.run, journal[l].addr) # {}
      BY <2>1, <2>2 DEF NoLineWithoutSend
    <2>4. QED
      BY <2>1, <2>2, <2>3
  <1>2. QED
    BY <1>1, AirdropTypeCorrect, AccountInvariant, NobodySkippedUnpaid, PTL
=============================================================================
