---------------------------- MODULE SenderProofs ----------------------------
(***************************************************************************)
(* Theorems about the sender, under any caller, on a node where blocks may *)
(* displace each other or not.                                             *)
(***************************************************************************)
EXTENDS Sender, SequenceTheorems, TLAPS

(* What the node does with the chain, and what a step of the sender does   *)
(* to the node.                                                            *)

\* A block that fits is put right after the blocks below its height.
LEMMA AcceptLemma ==
  ASSUME LedgerTypeOK,
         NEW h, NEW p, NEW d \in Sends \union Receives,
         Accepts(h, p, d), Accept(h, d)
  PROVE  /\ h \in 1 .. Len(chain) + 1 /\ h > visible
         /\ chain' \in Seq(Block)
         /\ Len(chain') = h
         /\ \A k \in 1 .. h - 1 : chain'[k] = chain[k]
         /\ chain'[h] = [hash |-> minted + 1, kind |-> d.kind, of |-> d.of, run |-> d.run]
  <1> DEFINE b == [hash |-> minted + 1, kind |-> d.kind, of |-> d.of, run |-> d.run]
             low == SubSeq(chain, 1, h - 1)
  <1>1. h \in 1 .. Len(chain) + 1 /\ h > visible
    BY DEF LedgerTypeOK, Accepts, Fits
  <1>2. b \in Block
    BY DEF LedgerTypeOK, Block, Sends, Receives
  <1>3. low \in Seq(Block) /\ Len(low) = h - 1 /\ \A k \in 1 .. h - 1 : low[k] = chain[k]
    BY <1>1, SubSeqProperties DEF LedgerTypeOK
  <1>4. chain' = Append(low, b)
    BY DEF Accept
  <1> HIDE DEF b, low
  <1>5. chain' \in Seq(Block) /\ Len(chain') = h /\ chain'[h] = b
        /\ \A k \in 1 .. h - 1 : chain'[k] = low[k]
    BY <1>1, <1>2, <1>3, <1>4, AppendProperties
  <1>6. QED
    BY <1>1, <1>3, <1>5 DEF b

LEMMA BlockType ==
  ASSUME LedgerTypeOK
  PROVE  /\ Len(chain) \in Nat /\ DOMAIN chain = 1 .. Len(chain)
         /\ \A h \in DOMAIN chain : chain[h] \in Block
  BY ElementOfSeq, LenProperties DEF LedgerTypeOK

LEMMA HashType ==
  ASSUME LedgerTypeOK
  PROVE  HashAt(visible) \in Nat
  <1>1. visible # 0 => visible \in DOMAIN chain
    BY BlockType DEF LedgerTypeOK
  <1>2. QED
    BY <1>1, BlockType DEF HashAt, Block

LEMMA MisfortuneType ==
  ASSUME LedgerTypeOK, Misfortune, UNCHANGED <<chain, visible, minted>>
  PROVE  LedgerTypeOK'
  BY LedgerAssumption DEF LedgerTypeOK, Misfortune

LEMMA AcceptType ==
  ASSUME LedgerTypeOK, NEW h, NEW p, NEW d \in Sends \union Receives,
         Accepts(h, p, d), Accept(h, d),
         UNCHANGED faults \/ Misfortune
  PROVE  LedgerTypeOK'
  <1>1. chain' \in Seq(Block) /\ Len(chain') = h /\ h > visible /\ h \in Int
    <2>1. Len(chain) \in Nat
      BY LenProperties DEF LedgerTypeOK
    <2>2. h \in 1 .. Len(chain) + 1 /\ h > visible /\ chain' \in Seq(Block) /\ Len(chain') = h
      BY AcceptLemma
    <2>3. QED
      BY <2>1, <2>2
  <1>2. visible' = visible /\ minted' = minted + 1
    BY DEF Accept
  <1>3. faults' \in 0 .. MaxFaults
    BY LedgerAssumption DEF LedgerTypeOK, Misfortune
  <1>4. QED
    BY <1>1, <1>2, <1>3 DEF LedgerTypeOK

\* What a step of the sender may do to the ledger: nothing, a mishap, or the
\* acceptance of the draft, which the sender then knows of or does not.
Quiet ==
  /\ UNCHANGED <<chain, visible, minted, lastHash>>
  /\ spc' # "returned" \/ result' # "ok" \/ UNCHANGED <<spc, result>>

Published ==
  /\ spc = "publish" /\ Accepts(height, previous, draft) /\ Accept(height, draft)
  /\ \/ result' = "ok" /\ lastHash' = minted'
     \/ result' # "ok" /\ UNCHANGED lastHash

LEMMA SenderStepLemma ==
  ASSUME SendStep \/ SendMishap \/ Interrupt
  PROVE  /\ UNCHANGED draft
         /\ UNCHANGED faults \/ Misfortune
         /\ Quiet \/ Published
  <1>1. CASE PollFrontier
    BY <1>1 DEF PollFrontier, BuildOn, ledgerVars, Quiet
  <1>2. CASE FirstBlock
    BY <1>2 DEF FirstBlock, BuildOn, Quiet
  <1>3. CASE FrontierTimeout
    BY <1>3 DEF FrontierTimeout, Return, Quiet
  <1>4. CASE Price
    BY <1>4 DEF Price, ledgerVars, Quiet
  <1>5. CASE PublishOk
    BY <1>5 DEF PublishOk, Return, Published
  <1>6. CASE PublishRefused
    BY <1>6 DEF PublishRefused, Return, ledgerVars, Quiet
  <1>7. CASE PublishInterrupted
    BY <1>7 DEF PublishInterrupted, Return, Quiet, Published
  <1>8. CASE Abandon
    BY <1>8 DEF Abandon, Return, ledgerVars, Quiet
  <1>9. CASE PriceFails
    BY <1>9 DEF PriceFails, Return, Quiet
  <1>10. CASE PublishFails
    BY <1>10 DEF PublishFails, Return, Quiet
  <1>11. CASE PublishReplyLost
    BY <1>11 DEF PublishReplyLost, Return, Published
  <1>12. CASE Interrupt
    BY <1>12 DEF Interrupt, Quiet
  <1>13. QED
    BY <1>1, <1>2, <1>3, <1>4, <1>5, <1>6, <1>7, <1>8, <1>9, <1>10, <1>11, <1>12
       DEF SendStep, SendMishap

-----------------------------------------------------------------------------
(* Types.  That a block put on the chain is a send or a receive needs to   *)
(* know what is being drafted.                                             *)

LEMMA SenderStepKeepsType ==
  ASSUME LedgerTypeOK, SenderTypeOK, Drafting, SendStep \/ SendMishap \/ Interrupt
  PROVE  LedgerTypeOK' /\ SenderTypeOK' /\ Drafting'
  <1>1. LedgerTypeOK'
    <2>1. CASE Quiet
      BY <2>1, SenderStepLemma, MisfortuneType DEF Quiet, LedgerTypeOK
    <2>2. CASE Published
      <3>1. draft \in Sends \union Receives
        BY <2>2 DEF Published, Drafting
      <3>2. QED
        BY <2>2, <3>1, AcceptType, SenderStepLemma DEF Published
    <2>3. QED
      BY <2>1, <2>2, SenderStepLemma
  <1>2. SenderTypeOK'
    <2> USE DEF SenderTypeOK, ledgerVars, LedgerTypeOK, Return
    <2>1. CASE PollFrontier
      BY <2>1, HashType DEF PollFrontier, BuildOn
    <2>2. CASE FirstBlock
      BY <2>2 DEF FirstBlock, BuildOn
    <2>3. CASE FrontierTimeout \/ Price \/ PriceFails \/ Abandon
      BY <2>3 DEF FrontierTimeout, Price, PriceFails, Abandon
    <2>4. CASE PublishOk
      BY <2>4 DEF PublishOk, Accept
    <2>5. CASE PublishRefused \/ PublishFails \/ PublishInterrupted \/ PublishReplyLost
      BY <2>5 DEF PublishRefused, PublishFails, PublishInterrupted, PublishReplyLost
    <2>6. CASE Interrupt
      BY <2>6 DEF Interrupt
    <2>7. QED
      BY <2>1, <2>2, <2>3, <2>4, <2>5, <2>6 DEF SendStep, SendMishap
  <1>3. Drafting'
    <2>1. spc' # "idle" => spc # "idle"
      BY DEF SendStep, SendMishap, Interrupt, PollFrontier, FirstBlock, FrontierTimeout, Price,
             PublishOk, PublishRefused, PublishInterrupted, Abandon, PriceFails, PublishFails,
             PublishReplyLost
    <2>2. QED
      BY <2>1, SenderStepLemma DEF Drafting
  <1>4. QED
    BY <1>1, <1>2, <1>3

-----------------------------------------------------------------------------
(* SenderInv.                                                              *)

SenderTypes == LedgerTypeOK /\ SenderTypeOK /\ Drafting

LEMMA SenderInitInv ==
  ASSUME Init
  PROVE  SenderInv
  <1>1. PICK older \in {<<>>, <<Older>>} :
          chain = older /\ visible = Len(older) /\ minted = Len(older)
    BY DEF Init, LedgerInit
  <1>2. LedgerTypeOK /\ HashesRise
    <2>1. Older \in Block /\ Older.hash = 1
      BY DEF Older, Block
    <2>2. CASE older = <<>>
      BY <1>1, <2>2, EmptySeq, LedgerAssumption DEF Init, LedgerInit, SenderInit, LedgerTypeOK,
         HashesRise
    <2>3. CASE older = <<Older>>
      <3>1. <<Older>> \in Seq(Block) /\ Len(<<Older>>) = 1 /\ DOMAIN <<Older>> = {1}
            /\ <<Older>>[1] = Older
        BY <2>1
      <3>2. QED
        BY <1>1, <2>1, <2>3, <3>1, LedgerAssumption DEF Init, LedgerInit, SenderInit,
           LedgerTypeOK, HashesRise
    <2>4. QED
      BY <1>1, <2>2, <2>3
  <1>3. SenderTypeOK /\ Drafting /\ BuildsOnLast /\ AcknowledgedStays /\ spc = "idle"
    BY DEF Init, SenderInit, SenderTypeOK, Drafting, BuildsOnLast, AcknowledgedStays
  <1>4. QED
    BY <1>2, <1>3 DEF SenderInv, TypeOK

LEMMA ForgetType ==
  ASSUME LedgerTypeOK, Forget, Misfortune \/ UNCHANGED faults, UNCHANGED <<chain, visible, minted>>
  PROVE  LedgerTypeOK' /\ SenderTypeOK' /\ Drafting'
  <1>1. LedgerTypeOK'
    BY MisfortuneType DEF LedgerTypeOK
  <1>2. SenderTypeOK' /\ Drafting'
    BY DEF Forget, SenderTypeOK, Drafting
  <1>3. QED
    BY <1>1, <1>2

LEMMA SenderTypesStep ==
  ASSUME SenderTypes, [Next]_vars
  PROVE  SenderTypes'
  <1> USE DEF SenderTypes
  <1>1. CASE \E d \in Sends \union Receives : NextCall(d)
    BY <1>1 DEF NextCall, Call, ledgerVars, LedgerTypeOK, SenderTypeOK, Drafting
  <1>2. CASE SendStep \/ SendMishap \/ Interrupt
    BY <1>2, SenderStepKeepsType
  <1>3. CASE Restart
    BY <1>3, ForgetType DEF Restart
  <1>4. CASE Reported
    BY <1>4 DEF Reported, CatchUp, senderVars, LedgerTypeOK, SenderTypeOK, Drafting
  <1>5. CASE UNCHANGED vars
    BY <1>5 DEF vars, ledgerVars, senderVars, LedgerTypeOK, SenderTypeOK, Drafting
  <1>6. QED
    BY <1>1, <1>2, <1>3, <1>4, <1>5 DEF Next

\* Where a call is, once it is known what to build on.
LEMMA BuildingType ==
  ASSUME TypeOK, [Next]_vars
  PROVE  spc' \in {"price", "publish"} => height' > 0
  <1> USE DEF TypeOK
  <1>1. CASE PollFrontier \/ FirstBlock
    BY <1>1 DEF PollFrontier, FirstBlock, BuildOn, LedgerTypeOK
  <1>2. CASE Price
    BY <1>2 DEF Price
  <1>3. CASE FrontierTimeout \/ PriceFails \/ PublishOk \/ PublishRefused \/ PublishFails
             \/ PublishReplyLost \/ PublishInterrupted \/ Abandon
    BY <1>3 DEF FrontierTimeout, PriceFails, PublishOk, PublishRefused, PublishFails,
       PublishReplyLost, PublishInterrupted, Abandon, Return
  <1>4. CASE Interrupt \/ Restart \/ Reported \/ UNCHANGED vars
    BY <1>4 DEF Interrupt, Restart, Forget, Reported, senderVars, vars
  <1>5. CASE \E d \in Sends \union Receives : NextCall(d)
    BY <1>5 DEF NextCall, Call
  <1>6. QED
    BY <1>1, <1>2, <1>3, <1>4, <1>5 DEF Next, SendStep, SendMishap

\* A block is accepted: it takes a fresh hash, and leaves the block it is built
\* on where it was.
LEMMA PublishedOnTop ==
  ASSUME SenderInv, Published
  PROVE  /\ HashesRise' /\ AcknowledgedStays'
  <1>0. LedgerTypeOK /\ SenderTypeOK /\ HashesRise /\ BuildsOnLast
    BY DEF SenderInv, TypeOK
  <1>1. draft \in Sends \union Receives
    BY DEF SenderInv, Published, Drafting
  <1>2. /\ height \in 1 .. Len(chain) + 1 /\ chain' \in Seq(Block) /\ Len(chain') = height
        /\ \A k \in 1 .. height - 1 : chain'[k] = chain[k]
        /\ chain'[height] = [hash |-> minted + 1, kind |-> draft.kind,
                              of |-> draft.of, run |-> draft.run]
    BY <1>0, <1>1, AcceptLemma DEF Published
  <1>3. minted \in Nat /\ minted' = minted + 1 /\ lastHash \in Nat
    BY <1>0 DEF Published, Accept, LedgerTypeOK, SenderTypeOK
  <1>4. Len(chain) \in Nat /\ DOMAIN chain = 1 .. Len(chain) /\ DOMAIN chain' = 1 .. height
        /\ height \in Nat
    BY <1>0, <1>2, BlockType, LenProperties
  <1>5. lastHash' = lastHash \/ lastHash' = minted'
    BY DEF Published
  <1>6. HashesRise'
    BY <1>0, <1>2, <1>3, <1>4, <1>5, SMTT(30) DEF HashesRise
  <1>7. lastHash # 0 => \E h \in 1 .. Len(chain') : chain'[h].hash = lastHash
    BY <1>0, <1>2, <1>4 DEF Published, BuildsOnLast
  <1>8. AcknowledgedStays'
    BY <1>2, <1>3, <1>4, <1>5, <1>7 DEF AcknowledgedStays
  <1>9. QED
    BY <1>6, <1>8

LEMMA SenderInvStep ==
  ASSUME SenderInv, [Next]_vars
  PROVE  SenderInv'
  <1> USE DEF SenderInv
  <1>1. TypeOK' /\ Drafting'
    BY SenderTypesStep, BuildingType DEF SenderTypes, TypeOK
  <1>2. ASSUME UNCHANGED <<chain, minted>>, lastHash' \in {lastHash, 0}
        PROVE  HashesRise' /\ AcknowledgedStays'
    BY <1>2 DEF HashesRise, AcknowledgedStays, TypeOK, LedgerTypeOK
  <1>3. ASSUME spc' \notin {"price", "publish"}
        PROVE  BuildsOnLast'
    BY <1>3 DEF BuildsOnLast
  <1>4. ASSUME UNCHANGED <<chain, lastHash, spc, height, previous>>
        PROVE  BuildsOnLast'
    BY <1>4 DEF BuildsOnLast
  <1>5. CASE \E d \in Sends \union Receives : NextCall(d)
    BY <1>1, <1>2, <1>3, <1>5 DEF NextCall, Call, ledgerVars
  <1>6. CASE PollFrontier
    <2>1. BuildsOnLast'
      <3>1. /\ visible \in DOMAIN chain /\ visible > 0 /\ visible \in Nat
            /\ lastHash = 0 \/ HashAt(visible) = lastHash
            /\ height' = visible + 1 /\ previous' = HashAt(visible)
            /\ UNCHANGED <<chain, lastHash>>
        BY <1>6, BlockType DEF PollFrontier, BuildOn, ledgerVars, TypeOK, LedgerTypeOK
      <3>2. QED
        BY <3>1 DEF BuildsOnLast, HashAt
    <2>2. QED
      BY <1>1, <1>2, <1>6, <2>1 DEF PollFrontier, BuildOn, ledgerVars
  <1>7. CASE FirstBlock
    BY <1>1, <1>2, <1>7 DEF FirstBlock, BuildOn, BuildsOnLast
  <1>8. CASE FrontierTimeout \/ PriceFails \/ PublishRefused \/ PublishFails \/ Abandon
    BY <1>1, <1>2, <1>3, <1>8 DEF FrontierTimeout, PriceFails, PublishRefused, PublishFails,
       Abandon, Return, ledgerVars
  <1>9. CASE Price
    BY <1>1, <1>2, <1>9 DEF Price, ledgerVars, BuildsOnLast
  <1>10. CASE PublishOk \/ PublishReplyLost \/ PublishInterrupted
    <2>1. BuildsOnLast'
      BY <1>3, <1>10 DEF PublishOk, PublishReplyLost, PublishInterrupted, Return
    <2>2. CASE Published
      BY <1>1, <2>1, <2>2, PublishedOnTop
    <2>3. CASE UNCHANGED <<chain, minted, lastHash>>
      BY <1>1, <1>2, <2>1, <2>3
    <2>4. QED
      BY <1>10, <2>2, <2>3 DEF PublishOk, PublishReplyLost, PublishInterrupted, Return, Published
  <1>11. CASE Interrupt \/ Reported \/ UNCHANGED vars
    BY <1>1, <1>2, <1>4, <1>11 DEF Interrupt, Reported, CatchUp, vars, ledgerVars, senderVars
  <1>12. CASE Restart
    BY <1>1, <1>2, <1>3, <1>12 DEF Restart, Forget
  <1>13. QED
    BY <1>5, <1>6, <1>7, <1>8, <1>9, <1>10, <1>11, <1>12 DEF Next, SendStep, SendMishap

\* The inductive invariant of the sender holds throughout.
THEOREM SenderInvariant == Spec => []SenderInv
  BY SenderInitInv, SenderInvStep, PTL DEF Spec

\* Every variable of the sender keeps its type, and a block that is priced or
\* published has a height.
THEOREM SenderTypeCorrect == Spec => []TypeOK
  <1>1. SenderInv => TypeOK
    BY DEF SenderInv
  <1>2. QED
    BY <1>1, SenderInvariant, PTL

\* A block that was acknowledged to a process stays on the chain as long as the
\* process does, on a node where blocks displace each other too.
THEOREM AcknowledgedIsKept == Spec => []AcknowledgedStays
  <1>1. SenderInv => AcknowledgedStays
    BY DEF SenderInv
  <1>2. QED
    BY <1>1, SenderInvariant, PTL

\* The wait in frontier is all that is needed for the node to take the next
\* block: it is built on the tip whenever the tip is the block acknowledged last.
THEOREM WaitIsEnough == Spec => []WaitSuffices
  <1>1. SenderInv => WaitSuffices
    <2> SUFFICES ASSUME SenderInv, spc = "publish", lastHash # 0, TipHash = lastHash
                 PROVE  Fits(height, previous) /\ height = Len(chain) + 1
      BY DEF WaitSuffices
    <2> USE DEF SenderInv, TypeOK
    <2>1. /\ height - 1 \in DOMAIN chain /\ chain[height - 1].hash = lastHash
          /\ previous = lastHash /\ height \in Nat
      BY DEF BuildsOnLast, SenderTypeOK
    <2>2. Len(chain) \in Nat /\ DOMAIN chain = 1 .. Len(chain)
      BY BlockType
    <2>3. Len(chain) # 0 /\ chain[Len(chain)].hash = lastHash
      BY DEF TipHash, HashAt
    <2>4. height - 1 = Len(chain)
      BY <2>1, <2>2, <2>3 DEF HashesRise, SenderTypeOK
    <2>5. height = Len(chain) + 1
      BY <2>1, <2>2, <2>4
    <2>6. HashAt(height - 1) = previous
      BY <2>1, <2>2, <2>3, <2>4 DEF HashAt
    <2>7. QED
      BY <2>5, <2>6 DEF Fits
  <1>2. QED
    BY <1>1, SenderInvariant, PTL
=============================================================================
