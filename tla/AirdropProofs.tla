--------------------------- MODULE AirdropProofs ---------------------------
(***************************************************************************)
(* Theorems about the airdrop, for every number of recipients, airdrops,   *)
(* deposits and mishaps, on a node where blocks may displace each other or *)
(* not.                                                                    *)
(***************************************************************************)
EXTENDS Airdrop, SenderProofs

(* What the operators on the journal do. *)

\* A line is added at the end; the lines above keep all but their form, and
\* none of them becomes a torn line or ceases to be one.
LEMMA WriteLemma ==
  ASSUME JournalTypeOK,
         NEW r \in Runs, NEW a \in Addrs, NEW h \in Nat,
         NEW form \in {"whole", "bare", "torn"}, Write(r, a, h, form)
  PROVE  /\ journal' \in Seq(Line)
         /\ Len(journal') = Len(journal) + 1
         /\ \A k \in 1 .. Len(journal) :
              /\ journal'[k].run = journal[k].run /\ journal'[k].addr = journal[k].addr
              /\ journal'[k].hash = journal[k].hash
              /\ journal'[k].form = "torn" <=> journal[k].form = "torn"
         /\ journal'[Len(journal')].run = r /\ journal'[Len(journal')].addr = a
         /\ journal'[Len(journal')].hash = h
         /\ journal'[Len(journal')].form = "torn" <=> form = "torn"
  <1> DEFINE f == IF OnBareLine /\ form # "torn" THEN "garbled" ELSE form
             l == [run |-> r, addr |-> a, hash |-> h, form |-> f]
             e == [k \in DOMAIN journal |->
                    IF OnBareLine /\ k = Len(journal)
                    THEN [journal[k] EXCEPT !.form = "garbled"]
                    ELSE journal[k]]
  <1>1. l \in Line
    BY DEF Line
  <1>2. Len(journal) \in Nat /\ DOMAIN journal = 1 .. Len(journal)
    BY LenProperties DEF JournalTypeOK
  <1>3. \A k \in 1 .. Len(journal) :
          /\ e[k] \in Line
          /\ e[k].run = journal[k].run /\ e[k].addr = journal[k].addr
          /\ e[k].hash = journal[k].hash
          /\ e[k].form = "torn" <=> journal[k].form = "torn"
    <2> SUFFICES ASSUME NEW k \in 1 .. Len(journal)
                 PROVE  /\ e[k] \in Line
                        /\ e[k].run = journal[k].run /\ e[k].addr = journal[k].addr
                        /\ e[k].hash = journal[k].hash
                        /\ e[k].form = "torn" <=> journal[k].form = "torn"
      OBVIOUS
    <2>1. journal[k] \in Line
      BY ElementOfSeq DEF JournalTypeOK
    <2>2. CASE OnBareLine /\ k = Len(journal)
      <3>1. e[k] = [journal[k] EXCEPT !.form = "garbled"]
        BY <1>2, <2>2
      <3>2. journal[k].form = "bare"
        BY <2>2 DEF OnBareLine
      <3> HIDE DEF e
      <3>3. QED
        BY <2>1, <3>1, <3>2 DEF Line
    <2>3. CASE ~(OnBareLine /\ k = Len(journal))
      <3>1. e[k] = journal[k]
        BY <1>2, <2>3
      <3>2. QED
        BY <2>1, <3>1
    <2>4. QED
      BY <2>2, <2>3
  <1>4. e \in Seq(Line) /\ Len(e) = Len(journal)
    <2>1. e \in [1 .. Len(journal) -> Line]
      BY <1>2, <1>3
    <2> HIDE DEF e
    <2>2. e \in Seq(Line)
      BY <1>2, <2>1, SeqDef
    <2>3. QED
      BY <1>2, <2>1, <2>2, LenProperties
  <1>5. journal' = Append(e, l)
    BY DEF Write
  <1> HIDE DEF l, e
  <1>6. journal' \in Seq(Line) /\ Len(journal') = Len(journal) + 1
        /\ journal'[Len(journal')] = l /\ \A k \in 1 .. Len(journal) : journal'[k] = e[k]
    BY <1>1, <1>4, <1>5, AppendProperties
  <1>7. QED
    BY <1>3, <1>6 DEF l

-----------------------------------------------------------------------------
(* Types.  That a block put on the chain is a send or a receive needs to   *)
(* know what is being drafted.                                             *)

TypeInv == AirdropTypeOK /\ Drafted

LEMMA ListType ==
  ASSUME RunTypeOK
  PROVE  List \in Seq(Addrs) /\ Len(List) \in Nat /\ DOMAIN List = 1 .. Len(List)
  BY AirdropAssumption, LenProperties DEF List, RunTypeOK, Invocation

LEMMA RecipientType ==
  ASSUME RunTypeOK, i <= Len(List)
  PROVE  i \in DOMAIN List /\ List[i] \in Addrs
  <1>1. i \in 1 .. Len(List)
    BY ListType DEF RunTypeOK
  <1>2. QED
    BY <1>1, ListType, ElementOfSeq

LEMMA ExitType ==
  ASSUME RunTypeOK, rep' \in Report,
         NEW why \in {"done", "failed", "stopped", "canceled", "journal", "unreadable",
                      "error", "short", "dry", "crash"},
         Exit(why)
  PROVE  SenderTypeOK' /\ RunTypeOK' /\ Drafted'
  <1>1. SenderTypeOK'
    BY DEF Exit, Forget, SenderTypeOK
  <1>2. RunTypeOK'
    BY DEF Exit, RunTypeOK
  <1>3. Drafted'
    BY DEF Exit, Forget, Drafted
  <1>4. QED
    BY <1>1, <1>2, <1>3

LEMMA LineType ==
  ASSUME JournalTypeOK
  PROVE  /\ Len(journal) \in Nat /\ DOMAIN journal = 1 .. Len(journal)
         /\ \A k \in DOMAIN journal : journal[k] \in Line
  BY ElementOfSeq, LenProperties DEF JournalTypeOK

LEMMA SenderStepType ==
  ASSUME TypeInv, SendStep \/ SendMishap \/ Interrupt, UNCHANGED <<journal, runVars>>
  PROVE  TypeInv'
  <1> USE DEF TypeInv, AirdropTypeOK
  <1>1. JournalTypeOK' /\ RunTypeOK'
    BY DEF runVars, JournalTypeOK, RunTypeOK
  <1>2. LedgerTypeOK' /\ SenderTypeOK' /\ Drafting' /\ UNCHANGED draft
    BY SenderStepKeepsType, SenderStepLemma DEF Drafted, Drafting
  <1>3. Drafted'
    BY <1>2 DEF Drafted, Drafting, runVars, List
  <1>4. QED
    BY <1>1, <1>2, <1>3

LEMMA PlanType ==
  ASSUME TypeInv, Plan
  PROVE  TypeInv'
  <1> USE DEF TypeInv, AirdropTypeOK
  <1>1. CASE ReadPaid
    <2>1. Recorded(inv.run) \subseteq Addrs
      BY LineType DEF Recorded, Lines, Written, Line
    <2>2. QED
      BY <1>1, <2>1 DEF ReadPaid, Goto, ledgerVars, senderVars, LedgerTypeOK, SenderTypeOK,
         JournalTypeOK, RunTypeOK, Drafted
  <1>2. CASE FetchPending
    BY <1>2 DEF FetchPending, Goto, ledgerVars, senderVars, LedgerTypeOK, SenderTypeOK,
       JournalTypeOK, RunTypeOK, Drafted, Unreceived
  <1>3. CASE CollectNext
    <2>1. PICK d \in pending : /\ Call([kind |-> "receive", of |-> d, run |-> Nobody])
                              /\ pending' = pending \ {d}
      BY <1>3 DEF CollectNext
    <2>2. draft' \in Receives
      BY <2>1 DEF RunTypeOK, Receives, Call
    <2>3. SenderTypeOK'
      BY <2>1, <2>2 DEF SenderTypeOK, Call
    <2>4. LedgerTypeOK' /\ JournalTypeOK'
      BY <1>3 DEF CollectNext, ledgerVars, LedgerTypeOK, JournalTypeOK
    <2>5. RunTypeOK' /\ Drafted'
      BY <1>3, <2>1, <2>2 DEF CollectNext, Goto, RunTypeOK, Drafted
    <2>6. QED
      BY <2>3, <2>4, <2>5
  <1>4. CASE PageCollected \/ StartSending
    BY <1>4, SMTT(30) DEF PageCollected, StartSending, Goto, ledgerVars, senderVars, LedgerTypeOK,
       SenderTypeOK, JournalTypeOK, RunTypeOK, Drafted
  <1>5. CASE ReceiveReturned
    <2>1. LedgerTypeOK' /\ JournalTypeOK'
      BY <1>5 DEF ReceiveReturned, ledgerVars, LedgerTypeOK, JournalTypeOK
    <2>2. CASE Exit("error")
      BY <1>5, <2>1, <2>2, ExitType DEF ReceiveReturned, RunTypeOK
    <2>3. CASE Goto("collect") /\ UNCHANGED <<senderVars, alreadyPaid, pending, i, consecutive>>
      BY <1>5, <2>1, <2>3 DEF ReceiveReturned, Goto, senderVars, SenderTypeOK, RunTypeOK, Drafted
    <2>4. QED
      BY <1>5, <2>2, <2>3 DEF ReceiveReturned
  <1>6. CASE Unreadable \/ PlanEnds
    <2>1. LedgerTypeOK' /\ JournalTypeOK'
      BY <1>6 DEF Unreadable, PlanEnds, ledgerVars, LedgerTypeOK, JournalTypeOK
    <2>2. rep' \in Report
      BY <1>6 DEF Unreadable, PlanEnds, RunTypeOK
    <2>3. Exit("unreadable") \/ Exit("dry") \/ Exit("short")
      BY <1>6 DEF Unreadable, PlanEnds
    <2>4. QED
      BY <2>1, <2>2, <2>3, ExitType
  <1>7. CASE PlanFails
    <2>1. LedgerTypeOK' /\ JournalTypeOK'
      BY <1>7, MisfortuneType DEF PlanFails, LedgerTypeOK, JournalTypeOK
    <2>2. rep' \in Report /\ Exit("error")
      BY <1>7 DEF PlanFails, RunTypeOK
    <2>3. QED
      BY <2>1, <2>2, ExitType
  <1>8. QED
    BY <1>1, <1>2, <1>3, <1>4, <1>5, <1>6, <1>7 DEF Plan

\* The acknowledged send has what a line of the journal is made of.
LEMMA SendReturnedType ==
  ASSUME TypeInv, SendReturned("ok")
  PROVE  inv.run \in Runs /\ List[i] \in Addrs /\ lastHash \in Nat
  <1>1. i \in DOMAIN List
    BY DEF TypeInv, Drafted, SendReturned
  <1>2. List \in Seq(Addrs)
    BY AirdropAssumption DEF TypeInv, AirdropTypeOK, RunTypeOK, Invocation, List
  <1>3. List[i] \in Addrs
    BY <1>1, <1>2, LenProperties, ElementOfSeq
  <1>4. QED
    BY <1>3 DEF TypeInv, AirdropTypeOK, RunTypeOK, Invocation, SenderTypeOK

LEMMA RecordType ==
  ASSUME TypeInv, SendReturned("ok"),
         Record(inv.run, List[i], lastHash) \/ RecordCutShort(inv.run, List[i], lastHash)
  PROVE  JournalTypeOK'
  <1>1. CASE UNCHANGED journal
    BY <1>1 DEF TypeInv, AirdropTypeOK, JournalTypeOK
  <1>2. CASE \E form \in {"whole", "bare", "torn"} : Write(inv.run, List[i], lastHash, form)
    BY <1>2, WriteLemma, SendReturnedType DEF TypeInv, AirdropTypeOK, JournalTypeOK
  <1>3. QED
    BY <1>1, <1>2 DEF Record, RecordCutShort

LEMMA RunType ==
  ASSUME TypeInv, Run
  PROVE  TypeInv'
  <1> USE DEF TypeInv, AirdropTypeOK
  <1>1. CASE Canceled \/ SendCanceled \/ Finish
    <2>1. LedgerTypeOK' /\ JournalTypeOK'
      BY <1>1 DEF Canceled, SendCanceled, Finish, ledgerVars, LedgerTypeOK, JournalTypeOK
    <2>2. rep' \in Report
      BY <1>1 DEF Canceled, SendCanceled, Finish, RunTypeOK
    <2>3. Exit("canceled") \/ Exit("failed") \/ Exit("done")
      BY <1>1 DEF Canceled, SendCanceled, Finish
    <2>4. QED
      BY <2>1, <2>2, <2>3, ExitType
  <1>2. CASE Skip
    <2>1. LedgerTypeOK' /\ SenderTypeOK' /\ JournalTypeOK'
      BY <1>2 DEF Skip, ledgerVars, senderVars, LedgerTypeOK, SenderTypeOK, JournalTypeOK
    <2>2. rep' \in Report /\ i' \in Nat \ {0}
      BY <1>2 DEF Skip, RunTypeOK, Report
    <2>3. RunTypeOK'
      BY <1>2, <2>2 DEF Skip, RunTypeOK
    <2>4. Drafted'
      BY <1>2 DEF Skip, AtRecipient, senderVars, Drafted
    <2>5. QED
      BY <2>1, <2>3, <2>4
  <1>3. CASE SendNext
    <2>1. i \in DOMAIN List /\ List[i] \in Addrs
      BY <1>3, RecipientType DEF SendNext, AtRecipient
    <2>2. LedgerTypeOK' /\ JournalTypeOK' /\ RunTypeOK'
      BY <1>3 DEF SendNext, Goto, ledgerVars, LedgerTypeOK, JournalTypeOK, RunTypeOK
    <2>3. draft' \in Sends /\ SenderTypeOK'
      BY <1>3, <2>1 DEF SendNext, Call, Sends, SenderTypeOK, RunTypeOK, Invocation
    <2>4. Drafted'
      BY <1>3, <2>1, <2>3 DEF SendNext, Call, Goto, Drafted, List
    <2>5. QED
      BY <2>2, <2>3, <2>4
  <1>4. CASE SendFailed
    <2>1. LedgerTypeOK' /\ JournalTypeOK'
      BY <1>4 DEF SendFailed, ledgerVars, LedgerTypeOK, JournalTypeOK
    <2>2. rep' \in Report
      BY <1>4 DEF SendFailed, RunTypeOK, Report
    <2>3. CASE Exit("stopped")
      BY <2>1, <2>2, <2>3, ExitType
    <2>4. CASE ~Exit("stopped")
      BY <1>4, <2>1, <2>2, <2>4 DEF SendFailed, Goto, senderVars, SenderTypeOK, RunTypeOK, Drafted
    <2>5. QED
      BY <2>3, <2>4
  <1>5. CASE SendRecorded
    <2>1. JournalTypeOK'
      BY <1>5, RecordType DEF SendRecorded
    <2>2. LedgerTypeOK' /\ SenderTypeOK'
      BY <1>5 DEF SendRecorded, ledgerVars, senderVars, LedgerTypeOK, SenderTypeOK
    <2>3. RunTypeOK' /\ Drafted'
      BY <1>5 DEF SendRecorded, Goto, senderVars, RunTypeOK, Report, Drafted
    <2>4. QED
      BY <2>1, <2>2, <2>3
  <1>6. CASE SendNotRecorded
    <2>1. JournalTypeOK'
      BY <1>6, RecordType DEF SendNotRecorded
    <2>2. LedgerTypeOK'
      BY <1>6, MisfortuneType DEF SendNotRecorded
    <2>3. rep' \in Report /\ Exit("journal")
      BY <1>6 DEF SendNotRecorded, RunTypeOK
    <2>4. QED
      BY <2>1, <2>2, <2>3, ExitType
  <1>7. QED
    BY <1>1, <1>2, <1>3, <1>4, <1>5, <1>6 DEF Run

LEMMA CrashType ==
  ASSUME TypeInv, Crash
  PROVE  TypeInv'
  <1> USE DEF TypeInv, AirdropTypeOK
  <1>1. JournalTypeOK'
    BY RecordType DEF Crash, JournalTypeOK
  <1>2. LedgerTypeOK'
    BY MisfortuneType DEF Crash
  <1>3. rep' \in Report /\ Exit("crash")
    BY DEF Crash, RunTypeOK
  <1>4. QED
    BY <1>1, <1>2, <1>3, ExitType

LEMMA TypeInit ==
  ASSUME AirdropInit
  PROVE  TypeInv
  <1>1. LedgerTypeOK
    <2>1. PICK older \in {<<>>, <<Older>>} :
            chain = older /\ visible = Len(older) /\ minted = Len(older)
      BY DEF AirdropInit, LedgerInit
    <2>2. Older \in Block
      BY DEF Older, Block
    <2>3. CASE older = <<>>
      BY <2>1, <2>3, EmptySeq, LedgerAssumption DEF AirdropInit, LedgerInit, LedgerTypeOK
    <2>4. CASE older = <<Older>>
      <3>1. <<Older>> \in Seq(Block) /\ Len(<<Older>>) = 1
        BY <2>2
      <3>2. QED
        BY <2>1, <2>4, <3>1, LedgerAssumption DEF AirdropInit, LedgerInit, LedgerTypeOK
    <2>5. QED
      BY <2>1, <2>3, <2>4
  <1>2. SenderTypeOK
    BY DEF AirdropInit, SenderInit, SenderTypeOK
  <1>3. RunTypeOK
    BY DEF AirdropInit, RunTypeOK, NoReport, Report
  <1>4. JournalTypeOK
    BY EmptySeq DEF AirdropInit, JournalInit, JournalTypeOK
  <1>5. QED
    BY <1>1, <1>2, <1>3, <1>4 DEF TypeInv, AirdropTypeOK, Drafted, AirdropInit, SenderInit

LEMMA TypeStep ==
  ASSUME TypeInv, [AirdropNext]_airdropVars
  PROVE  TypeInv'
  <1> USE DEF TypeInv, AirdropTypeOK
  <1>1. CASE \E r \in Runs, sending, receive \in BOOLEAN : Invoke(r, sending, receive)
    BY <1>1 DEF Invoke, ledgerVars, senderVars, LedgerTypeOK, SenderTypeOK, JournalTypeOK,
       RunTypeOK, Invocation, NoReport, Report, Drafted
  <1>2. CASE Process
    BY <1>2, PlanType, RunType, SenderStepType DEF Process, SenderWorks
  <1>3. CASE Mishap
    BY <1>3, CrashType, SenderStepType DEF Mishap, SenderSuffers, Interrupted
  <1>4. CASE NodeReports
    BY <1>4 DEF NodeReports, CatchUp, senderVars, runVars, LedgerTypeOK, SenderTypeOK,
       JournalTypeOK, RunTypeOK, Drafted, List
  <1>5. CASE UNCHANGED airdropVars
    BY <1>5 DEF airdropVars, ledgerVars, senderVars, runVars, LedgerTypeOK, SenderTypeOK,
       JournalTypeOK, RunTypeOK, Drafted, List
  <1>6. QED
    BY <1>1, <1>2, <1>3, <1>4, <1>5 DEF AirdropNext

\* Every variable keeps its type; in particular what is put on the chain is a
\* send or a receive, and the list is never read past its end.
THEOREM AirdropTypeCorrect == AirdropSpec => []AirdropTypeOK
  <1>1. AirdropSpec => []TypeInv
    BY TypeInit, TypeStep, PTL DEF AirdropSpec
  <1>2. TypeInv => AirdropTypeOK
    BY DEF TypeInv
  <1>3. QED
    BY <1>1, <1>2, PTL

-----------------------------------------------------------------------------
(* Nobody is paid again once the journal has the line.                     *)

\* The recipient being paid has no line: not when the invocation started,
\* and not since, as the list names nobody twice.
LEMMA NotRecorded ==
  ASSUME TypeInv, SnapshotHolds, pc = "sending"
  PROVE  List[i] \notin Recorded(inv.run)
  <1>1. inv.run \in Runs /\ i \in DOMAIN List /\ List[i] \notin alreadyPaid
    BY DEF TypeInv, AirdropTypeOK, RunTypeOK, Invocation, Drafted
  <1>2. \A j \in DOMAIN List : List[j] = List[i] => j = i
    BY <1>1, AirdropAssumption DEF List
  <1>3. SUFFICES ASSUME NEW j \in DOMAIN List, j < i, List[j] = List[i] PROVE FALSE
    BY <1>1 DEF SnapshotHolds
  <1>4. j = i /\ i \in Nat
    BY <1>2, <1>3 DEF TypeInv, AirdropTypeOK, RunTypeOK
  <1>5. QED
    BY <1>3, <1>4

\* A block joins the chain.
LEMMA AcceptSafe ==
  ASSUME TypeInv, HashesGrow, LinesMatch, SnapshotHolds, NoPayAfterRecord,
         pc \in {"receiving", "sending"}, Published, UNCHANGED journal
  PROVE  HashesGrow' /\ LinesMatch' /\ NoPayAfterRecord'
  <1> USE DEF TypeInv, AirdropTypeOK
  <1>1. draft \in Sends \union Receives
    BY DEF Drafted, Published
  <1>2. /\ height \in 1 .. Len(chain) + 1 /\ chain' \in Seq(Block) /\ Len(chain') = height
        /\ \A k \in 1 .. height - 1 : chain'[k] = chain[k]
        /\ chain'[height] = [hash |-> minted + 1, kind |-> draft.kind,
                              of |-> draft.of, run |-> draft.run]
    BY <1>1, AcceptLemma DEF Published
  <1>3. Len(chain) \in Nat /\ DOMAIN chain = 1 .. Len(chain) /\ DOMAIN chain' = 1 .. height
        /\ \A h \in 1 .. Len(chain) : chain[h].hash \in Nat
    BY <1>2, BlockType, LenProperties DEF Block
  <1>4. minted \in Nat /\ minted' = minted + 1
    BY DEF LedgerTypeOK, Published, Accept
  <1>5. \A k \in DOMAIN journal : journal[k].hash \in Nat
    BY LineType DEF Line
  <1>6. HashesGrow'
    BY <1>2, <1>3, <1>4, <1>5 DEF HashesGrow
  <1>7. LinesMatch'
    BY <1>2, <1>3, <1>4, <1>5 DEF HashesGrow, LinesMatch
  <1>8. NoPayAfterRecord'
    <2>1. SUFFICES ASSUME NEW h \in 1 .. height, NEW k \in 1 .. height, h < k,
                          chain'[h].kind = "send", chain'[k].kind = "send",
                          chain'[h].run = chain'[k].run, chain'[h].of = chain'[k].of,
                          NEW m \in Lines(chain'[h].run), journal[m].hash = chain'[h].hash
                   PROVE  FALSE
      BY <1>2 DEF NoPayAfterRecord, Heights, HasLine, Lines, Written
    <2>2. height \in Nat /\ h \in 1 .. height - 1 /\ h \in 1 .. Len(chain) /\ chain'[h] = chain[h]
      BY <1>2, <1>3, <2>1
    <2>3. CASE k # height
      <3>1. k \in 1 .. Len(chain) /\ chain'[k] = chain[k]
        BY <1>2, <1>3, <2>2, <2>3
      <3>2. QED
        BY <2>1, <2>2, <3>1 DEF NoPayAfterRecord, Heights, HasLine
    <2>4. CASE k = height
      <3>1. draft.kind = "send"
        BY <1>2, <2>1, <2>4
      <3>2. pc = "sending"
        BY <3>1 DEF Drafted, Receives
      <3>3. chain[h].run = inv.run /\ chain[h].of = List[i]
        BY <1>2, <2>1, <2>2, <2>4, <3>2 DEF Drafted
      <3>4. m \in DOMAIN journal /\ m \in Lines(inv.run)
        BY <2>1, <2>2, <3>3 DEF Lines, Written
      <3>5. journal[m].addr = List[i]
        BY <1>3, <2>1, <2>2, <3>3, <3>4 DEF LinesMatch
      <3>6. List[i] \in Recorded(inv.run)
        BY <3>4, <3>5 DEF Recorded
      <3>7. QED
        BY <3>2, <3>6, NotRecorded
    <2>5. QED
      BY <2>3, <2>4
  <1>9. QED
    BY <1>6, <1>7, <1>8

\* The line of the acknowledged send joins the journal.
LEMMA WriteSafe ==
  ASSUME TypeInv, HashesGrow, LinesMatch, Acknowledged, NoPayAfterRecord,
         SendReturned("ok"), NEW form \in {"whole", "bare", "torn"},
         Write(inv.run, List[i], lastHash, form), UNCHANGED <<chain, minted>>
  PROVE  /\ HashesGrow' /\ LinesMatch' /\ NoPayAfterRecord'
         /\ \A r \in Runs : \A a \in Recorded(r)' : a \in Recorded(r) \/ (r = inv.run /\ a = List[i])
  <1> USE DEF TypeInv, AirdropTypeOK
  <1> DEFINE last == Len(journal) + 1
  <1>1. inv.run \in Runs /\ List[i] \in Addrs /\ lastHash \in Nat
    BY SendReturnedType
  <1>2. /\ journal' \in Seq(Line) /\ Len(journal') = last
        /\ \A k \in 1 .. Len(journal) :
             /\ journal'[k].run = journal[k].run /\ journal'[k].addr = journal[k].addr
             /\ journal'[k].hash = journal[k].hash
             /\ journal'[k].form = "torn" <=> journal[k].form = "torn"
        /\ journal'[last].run = inv.run /\ journal'[last].addr = List[i]
        /\ journal'[last].hash = lastHash
    BY <1>1, WriteLemma
  <1>3. Len(journal) \in Nat /\ DOMAIN journal = 1 .. Len(journal) /\ DOMAIN journal' = 1 .. last
        /\ \A k \in DOMAIN journal : journal[k].hash \in Nat
    BY <1>2, LineType, LenProperties DEF Line
  <1>4. Len(chain) \in Nat /\ DOMAIN chain = 1 .. Len(chain)
        /\ \A h \in DOMAIN chain : chain[h].hash \in Nat
    BY BlockType DEF Block
  <1>5. Len(chain) \in DOMAIN chain
    BY <1>4, EmptySeq DEF Acknowledged, LedgerTypeOK
  <1>6. \A h \in DOMAIN chain : chain[h].hash = lastHash => h = Len(chain)
    <2>1. SUFFICES ASSUME NEW h \in DOMAIN chain, chain[h].hash = lastHash, h # Len(chain)
                   PROVE  FALSE
      OBVIOUS
    <2>2. h < Len(chain) /\ chain[Len(chain)].hash = lastHash
      BY <1>4, <2>1 DEF Acknowledged
    <2>3. QED
      BY <1>1, <1>5, <2>1, <2>2 DEF HashesGrow
  <1>7. HashesGrow'
    BY <1>1, <1>2, <1>3, <1>5 DEF HashesGrow, Acknowledged
  <1>8. LinesMatch'
    <2>1. SUFFICES ASSUME NEW k \in 1 .. last, NEW h \in DOMAIN chain,
                          journal'[k].hash = chain[h].hash
                   PROVE  journal'[k].run = chain[h].run /\ journal'[k].addr = chain[h].of
      BY <1>3 DEF LinesMatch
    <2>2. CASE k = last
      BY <1>2, <1>6, <2>1, <2>2 DEF Acknowledged
    <2>3. CASE k # last
      <3>1. k \in 1 .. Len(journal)
        BY <1>3, <2>3
      <3>2. QED
        BY <1>2, <1>3, <2>1, <3>1 DEF LinesMatch
    <2>4. QED
      BY <2>2, <2>3
  <1>9. \A r : Lines(r)' \subseteq Lines(r) \union {last}
    BY <1>2, <1>3 DEF Lines, Written
  <1>10. NoPayAfterRecord'
    <2>1. SUFFICES ASSUME NEW h \in DOMAIN chain, NEW k \in DOMAIN chain, h < k,
                          chain[h].kind = "send", chain[k].kind = "send",
                          chain[h].run = chain[k].run, chain[h].of = chain[k].of,
                          NEW m \in Lines(chain[h].run)', journal'[m].hash = chain[h].hash
                   PROVE  FALSE
      BY <1>4 DEF NoPayAfterRecord, Heights, HasLine
    <2>2. CASE m = last
      BY <1>2, <1>4, <1>6, <2>1, <2>2
    <2>3. CASE m # last
      <3>1. m \in Lines(chain[h].run) /\ journal[m].hash = chain[h].hash
        BY <1>2, <1>3, <1>9, <2>1, <2>3 DEF Lines, Written
      <3>2. QED
        BY <1>4, <2>1, <3>1 DEF NoPayAfterRecord, Heights, HasLine
    <2>4. QED
      BY <2>2, <2>3
  <1>11. \A r \in Runs : \A a \in Recorded(r)' : a \in Recorded(r) \/ (r = inv.run /\ a = List[i])
    <2>1. SUFFICES ASSUME NEW r \in Runs, NEW k \in Lines(r)'
                   PROVE  journal'[k].addr \in Recorded(r) \/ (r = inv.run /\ journal'[k].addr = List[i])
      BY DEF Recorded
    <2>2. journal'[k].run = r /\ k \in Lines(r) \union {last}
      BY <1>9, <2>1 DEF Lines
    <2>3. CASE k = last
      BY <1>2, <2>2, <2>3
    <2>4. CASE k # last
      <3>1. k \in Lines(r) /\ k \in 1 .. Len(journal)
        BY <1>3, <2>2, <2>4 DEF Lines, Written
      <3>2. journal'[k].addr = journal[k].addr
        BY <1>2, <3>1
      <3>3. journal[k].addr \in Recorded(r)
        BY <3>1 DEF Recorded
      <3>4. QED
        BY <3>2, <3>3
    <2>5. QED
      BY <2>3, <2>4
  <1>12. QED
    BY <1>7, <1>8, <1>10, <1>11

\* The parts of PayOnceInv that only the chain and the journal can disturb.
SafeChain == HashesGrow /\ LinesMatch /\ NoPayAfterRecord

LEMMA StillSafe ==
  ASSUME SafeChain, UNCHANGED <<chain, minted, journal>>
  PROVE  SafeChain'
  BY DEF SafeChain, HashesGrow, LinesMatch, NoPayAfterRecord, Heights, HasLine, Lines, Written

LEMMA CutShortSafe ==
  ASSUME TypeInv, SafeChain, Acknowledged, SendReturned("ok"),
         RecordCutShort(inv.run, List[i], lastHash), UNCHANGED <<chain, minted>>
  PROVE  SafeChain'
  <1>1. CASE UNCHANGED journal
    BY <1>1, StillSafe
  <1>2. CASE \E form \in {"torn", "bare", "whole"} : Write(inv.run, List[i], lastHash, form)
    BY <1>2, WriteSafe DEF SafeChain
  <1>3. QED
    BY <1>1, <1>2 DEF RecordCutShort

\* A step of the sender under an invocation.
LEMMA SenderStepSafe ==
  ASSUME TypeInv, SafeChain, SnapshotHolds, Acknowledged, UNCHANGED <<journal, runVars>>,
         (pc \in {"receiving", "sending"} /\ (SendStep \/ SendMishap)) \/ Interrupt
  PROVE  SafeChain' /\ SnapshotHolds' /\ Acknowledged'
  <1>1. UNCHANGED <<pc, inv, alreadyPaid, i, journal>>
    BY DEF runVars
  <1>2. SnapshotHolds'
    BY <1>1 DEF SnapshotHolds, List, Recorded, Lines, Written
  <1>3. CASE Quiet \/ Interrupt
    <2>1. UNCHANGED <<chain, minted, lastHash>> /\ (SendReturned("ok")' => SendReturned("ok"))
      BY <1>1, <1>3 DEF Quiet, Interrupt, SendReturned
    <2>2. SafeChain'
      BY <1>1, <2>1, StillSafe
    <2>3. Acknowledged'
      BY <1>1, <2>1 DEF Acknowledged, List
    <2>4. QED
      BY <1>2, <2>2, <2>3
  <1>4. CASE Published /\ pc \in {"receiving", "sending"}
    <2>1. SafeChain'
      BY <1>1, <1>4, AcceptSafe DEF SafeChain
    <2>2. Acknowledged'
      <3>1. SUFFICES ASSUME pc = "sending", result' = "ok"
                     PROVE  /\ chain' # <<>> /\ chain'[Len(chain')].hash = lastHash'
                            /\ chain'[Len(chain')].run = inv.run
                            /\ chain'[Len(chain')].of = List[i]
        BY <1>1 DEF Acknowledged, SendReturned, List
      <3>2. lastHash' = minted + 1
        BY <1>4, <3>1 DEF Published, Accept
      <3>3. draft \in Sends \union Receives /\ draft.run = inv.run /\ draft.of = List[i]
        BY <1>4, <3>1 DEF TypeInv, Drafted, Published
      <3>4. /\ chain' \in Seq(Block) /\ Len(chain') = height /\ height >= 1
            /\ chain'[height] = [hash |-> minted + 1, kind |-> draft.kind,
                                  of |-> draft.of, run |-> draft.run]
        <4>1. LedgerTypeOK /\ Accepts(height, previous, draft) /\ Accept(height, draft)
          BY <1>4 DEF TypeInv, AirdropTypeOK, Published
        <4>2. height \in 1 .. Len(chain) + 1 /\ Len(chain) \in Nat
          BY <3>3, <4>1, AcceptLemma, BlockType
        <4>3. QED
          BY <3>3, <4>1, <4>2, AcceptLemma
      <3>5. chain' # <<>>
        BY <3>4, EmptySeq
      <3>6. QED
        BY <3>2, <3>3, <3>4, <3>5
    <2>3. QED
      BY <1>2, <2>1, <2>2
  <1>5. QED
    BY <1>3, <1>4, SenderStepLemma

LEMMA PayOnceStep ==
  ASSUME TypeInv, SafeChain, SnapshotHolds, Acknowledged, [AirdropNext]_airdropVars
  PROVE  SafeChain' /\ SnapshotHolds' /\ Acknowledged'
  <1>1. ASSUME NEW why, Exit(why), UNCHANGED <<chain, minted>>,
               \/ UNCHANGED journal
               \/ SendReturned("ok") /\ RecordCutShort(inv.run, List[i], lastHash)
        PROVE  SafeChain' /\ SnapshotHolds' /\ Acknowledged'
    <2>1. SafeChain'
      BY <1>1, StillSafe, CutShortSafe
    <2>2. pc' = "down"
      BY <1>1 DEF Exit
    <2>3. QED
      BY <2>1, <2>2 DEF SnapshotHolds, Acknowledged, SendReturned
  <1>2. ASSUME UNCHANGED <<chain, minted, journal, inv, alreadyPaid>>,
               pc \notin {"down", "plan"}, i' \in {i, i + 1},
               pc' # "sending" \/ spc' # "returned"
        PROVE  SafeChain' /\ SnapshotHolds' /\ Acknowledged'
    <2>1. SafeChain'
      BY <1>2, StillSafe
    <2>2. SnapshotHolds'
      <3>1. DOMAIN List \subseteq Nat /\ i \in Nat
        BY ListType DEF TypeInv, AirdropTypeOK, RunTypeOK
      <3>2. \A j \in DOMAIN List : j < i => j < i'
        BY <1>2, <3>1
      <3>3. Recorded(inv.run)' = Recorded(inv.run) /\ List' = List
        BY <1>2 DEF Recorded, Lines, Written, List
      <3>4. QED
        BY <1>2, <3>2, <3>3 DEF SnapshotHolds
    <2>3. Acknowledged'
      BY <1>2 DEF Acknowledged, SendReturned
    <2>4. QED
      BY <2>1, <2>2, <2>3
  <1>3. CASE \E r \in Runs, sending, receive \in BOOLEAN : Invoke(r, sending, receive)
    <2>1. pc' = "plan" /\ UNCHANGED <<chain, minted, journal>>
      BY <1>3 DEF Invoke, ledgerVars
    <2>2. QED
      BY <2>1, StillSafe DEF SnapshotHolds, Acknowledged, SendReturned
  <1>4. CASE ReadPaid
    <2>1. /\ UNCHANGED <<chain, minted, journal, inv>> /\ pc' \in {"fetch", "balance"}
          /\ alreadyPaid' = Recorded(inv.run)
      BY <1>4 DEF ReadPaid, Goto, ledgerVars
    <2>2. Recorded(inv.run)' = Recorded(inv.run)
      BY <2>1 DEF Recorded, Lines, Written
    <2>3. QED
      BY <2>1, <2>2, StillSafe DEF SnapshotHolds, Acknowledged, SendReturned
  <1>5. CASE FetchPending \/ PageCollected \/ StartSending
    BY <1>2, <1>5 DEF FetchPending, PageCollected, StartSending, Goto, ledgerVars
  <1>6. CASE CollectNext
    BY <1>2, <1>6 DEF CollectNext, Goto, ledgerVars
  <1>7. CASE ReceiveReturned
    <2>1. UNCHANGED <<chain, minted, journal>>
      BY <1>7 DEF ReceiveReturned, ledgerVars
    <2>2. CASE Exit("error")
      BY <1>1, <2>1, <2>2
    <2>3. CASE Goto("collect") /\ UNCHANGED <<senderVars, alreadyPaid, pending, i, consecutive>>
      BY <1>2, <1>7, <2>1, <2>3 DEF ReceiveReturned, Goto
    <2>4. QED
      BY <1>7, <2>2, <2>3 DEF ReceiveReturned
  <1>8. CASE Unreadable \/ PlanEnds \/ PlanFails \/ Canceled \/ SendCanceled \/ Finish
    <2>1. /\ UNCHANGED <<chain, minted, journal>>
          /\ \/ Exit("unreadable") \/ Exit("dry") \/ Exit("short") \/ Exit("error")
             \/ Exit("canceled") \/ Exit("failed") \/ Exit("done")
      BY <1>8 DEF Unreadable, PlanEnds, PlanFails, Canceled, SendCanceled, Finish, ledgerVars
    <2>2. QED
      BY <1>1, <2>1
  <1>9. CASE Skip
    BY <1>2, <1>9 DEF Skip, AtRecipient, ledgerVars
  <1>10. CASE SendNext
    BY <1>2, <1>10 DEF SendNext, AtRecipient, Call, Goto, ledgerVars
  <1>11. CASE SendFailed
    <2>1. UNCHANGED <<chain, minted, journal>> /\ pc = "sending"
      BY <1>11 DEF SendFailed, SendReturned, ledgerVars
    <2>2. CASE Exit("stopped")
      BY <1>1, <2>1, <2>2
    <2>3. CASE i' = i + 1 /\ Goto("loop") /\ UNCHANGED <<senderVars, alreadyPaid, pending>>
      BY <1>2, <2>1, <2>3 DEF Goto
    <2>4. QED
      BY <1>11, <2>2, <2>3 DEF SendFailed
  <1>12. CASE SendRecorded
    <2>1. /\ SendReturned("ok") /\ Write(inv.run, List[i], lastHash, "whole")
          /\ UNCHANGED <<chain, minted, inv, alreadyPaid>> /\ pc' = "loop" /\ i' = i + 1
      BY <1>12 DEF SendRecorded, Record, Goto, ledgerVars
    <2>2. SafeChain'
          /\ \A a \in Recorded(inv.run)' : a \in Recorded(inv.run) \/ a = List[i]
      <3>1. inv.run \in Runs /\ inv' = inv
        BY <2>1, SendReturnedType
      <3>2. /\ HashesGrow' /\ LinesMatch' /\ NoPayAfterRecord'
            /\ \A r \in Runs : \A a \in Recorded(r)' :
                 a \in Recorded(r) \/ (r = inv.run /\ a = List[i])
        BY <2>1, WriteSafe DEF SafeChain
      <3>3. QED
        BY <3>1, <3>2 DEF SafeChain, Recorded, Lines, Written
    <2>3. SnapshotHolds'
      <3>1. i \in DOMAIN List /\ pc = "sending"
        BY <2>1 DEF TypeInv, Drafted, SendReturned
      <3>2. \A a \in Recorded(inv.run)' :
              a \in alreadyPaid \/ \E j \in DOMAIN List : j < i + 1 /\ List[j] = a
        <4>1. DOMAIN List \subseteq Nat /\ i \in Nat
          BY ListType DEF TypeInv, AirdropTypeOK, RunTypeOK
        <4>2. \A j \in DOMAIN List : j < i => j < i + 1
          BY <4>1
        <4>3. QED
          BY <2>2, <3>1, <4>1, <4>2 DEF SnapshotHolds
      <3>3. QED
        BY <2>1, <3>2 DEF SnapshotHolds, List
    <2>4. QED
      BY <2>1, <2>2, <2>3 DEF Acknowledged, SendReturned
  <1>13. CASE SendNotRecorded
    BY <1>1, <1>13 DEF SendNotRecorded
  <1>14. CASE Crash
    BY <1>1, <1>14 DEF Crash
  <1>15. CASE SenderWorks \/ SenderSuffers \/ Interrupted
    BY <1>15, SenderStepSafe DEF SenderWorks, SenderSuffers, Interrupted
  <1>16. CASE NodeReports \/ UNCHANGED airdropVars
    <2>1. UNCHANGED <<chain, minted, senderVars, journal, runVars>>
      BY <1>16 DEF NodeReports, CatchUp, airdropVars, ledgerVars
    <2>2. QED
      BY <2>1, StillSafe DEF senderVars, runVars, SnapshotHolds, Acknowledged, SendReturned,
         List, Recorded, Lines, Written
  <1>17. QED
    BY <1>3, <1>4, <1>5, <1>6, <1>7, <1>8, <1>9, <1>10, <1>11, <1>12, <1>13, <1>14, <1>15, <1>16
       DEF AirdropNext, Process, Mishap, Plan, Run

LEMMA PayOnceInit ==
  ASSUME AirdropInit
  PROVE  SafeChain /\ SnapshotHolds /\ Acknowledged
  <1>1. journal = <<>> /\ DOMAIN journal = {} /\ pc = "down" /\ SnapshotHolds /\ Acknowledged
    BY DEF AirdropInit, JournalInit, SnapshotHolds, Acknowledged, SendReturned
  <1>2. PICK older \in {<<>>, <<Older>>} : chain = older /\ minted = Len(older)
    BY DEF AirdropInit, LedgerInit
  <1>3. LinesMatch /\ NoPayAfterRecord
    BY <1>1 DEF LinesMatch, NoPayAfterRecord, HasLine, Lines, Written
  <1>4. HashesGrow
    <2>1. CASE older = <<>>
      BY <1>1, <1>2, <2>1 DEF HashesGrow
    <2>2. CASE older = <<Older>>
      BY <1>1, <1>2, <2>2 DEF HashesGrow, Older
    <2>3. QED
      BY <1>2, <2>1, <2>2
  <1>5. QED
    BY <1>1, <1>3, <1>4 DEF SafeChain

\* The inductive invariant of Airdrop holds throughout.
THEOREM PayOnceInvariant == AirdropSpec => []PayOnceInv
  <1> DEFINE Inv == TypeInv /\ SafeChain /\ SnapshotHolds /\ Acknowledged
  <1>1. AirdropInit => Inv
    BY TypeInit, PayOnceInit
  <1>2. Inv /\ [AirdropNext]_airdropVars => Inv'
    BY TypeStep, PayOnceStep
  <1>3. Inv => PayOnceInv
    BY DEF PayOnceInv, TypeInv, SafeChain
  <1>4. QED
    BY <1>1, <1>2, <1>3, PTL DEF AirdropSpec

\* Over any number of invocations, crashes and interruptions, nobody is paid
\* again by an airdrop once the journal has the line of an earlier payment.
THEOREM PayOnce == AirdropSpec => []NoPayAfterRecord
  <1>1. PayOnceInv => NoPayAfterRecord
    BY DEF PayOnceInv
  <1>2. QED
    BY <1>1, PayOnceInvariant, PTL

-----------------------------------------------------------------------------
(* The airdrop is a caller of the sender as Sender describes one: what     *)
(* holds of the sender under any caller holds of it here.                  *)

LEMMA CallerStep ==
  ASSUME TypeInv, [AirdropNext]_airdropVars
  PROVE  [Next]_vars
  <1>1. ASSUME NEW why, Exit(why), UNCHANGED faults \/ Misfortune,
               UNCHANGED <<chain, visible, minted>>
        PROVE  Next
    BY <1>1 DEF Exit, Restart, Next
  <1>2. CASE \E r \in Runs, sending, receive \in BOOLEAN : Invoke(r, sending, receive)
    BY <1>2 DEF Invoke, vars
  <1>3. CASE ReadPaid \/ FetchPending \/ PageCollected \/ StartSending \/ Skip \/ SendRecorded
    BY <1>3 DEF ReadPaid, FetchPending, PageCollected, StartSending, Skip, SendRecorded, vars
  <1>4. CASE CollectNext
    <2>1. PICK d \in pending : Call([kind |-> "receive", of |-> d, run |-> Nobody])
      BY <1>4 DEF CollectNext
    <2>2. [kind |-> "receive", of |-> d, run |-> Nobody] \in Receives
      BY DEF TypeInv, AirdropTypeOK, RunTypeOK, Receives
    <2>3. QED
      BY <1>4, <2>1, <2>2 DEF CollectNext, NextCall, Next
  <1>5. CASE SendNext
    <2>1. i \in DOMAIN List /\ List[i] \in Addrs /\ inv.run \in Runs
      BY <1>5, RecipientType DEF SendNext, AtRecipient, TypeInv, AirdropTypeOK, RunTypeOK,
         Invocation
    <2>2. [kind |-> "send", of |-> List[i], run |-> inv.run] \in Sends
      BY <2>1 DEF Sends
    <2>3. QED
      BY <1>5, <2>2 DEF SendNext, NextCall, Next
  <1>6. CASE ReceiveReturned \/ SendFailed
    BY <1>1, <1>6 DEF ReceiveReturned, SendFailed, ledgerVars, vars
  <1>7. CASE Unreadable \/ PlanEnds \/ Canceled \/ SendCanceled \/ Finish
    BY <1>1, <1>7 DEF Unreadable, PlanEnds, Canceled, SendCanceled, Finish, ledgerVars
  <1>8. CASE PlanFails \/ SendNotRecorded \/ Crash
    BY <1>1, <1>8 DEF PlanFails, SendNotRecorded, Crash
  <1>9. CASE SenderWorks \/ SenderSuffers \/ Interrupted
    BY <1>9 DEF SenderWorks, SenderSuffers, Interrupted, Next
  <1>10. CASE NodeReports \/ UNCHANGED airdropVars
    BY <1>10 DEF NodeReports, Reported, airdropVars, vars, Next
  <1>11. QED
    BY <1>2, <1>3, <1>4, <1>5, <1>6, <1>7, <1>8, <1>9, <1>10
       DEF AirdropNext, Process, Mishap, Plan, Run

\* Airdrop.Run and ReceiveAll make one call at a time, with blocks the sender
\* can draft, and a process that ends forgets what the sender knew.
THEOREM AirdropUsesSender == AirdropSpec => Spec
  <1>1. AirdropInit => Init
    BY DEF AirdropInit, Init
  <1>2. TypeInv /\ [AirdropNext]_airdropVars => [Next]_vars
    BY CallerStep
  <1>3. AirdropSpec => []TypeInv
    BY TypeInit, TypeStep, PTL DEF AirdropSpec
  <1>4. QED
    BY <1>1, <1>2, <1>3, PTL DEF AirdropSpec, Spec

\* So no payment that was acknowledged to an invocation is displaced by a later
\* block of that invocation.
THEOREM PaymentsAreKept == AirdropSpec => []AcknowledgedStays
  BY AirdropUsesSender, AcknowledgedIsKept, PTL
=============================================================================
