------------------------------- MODULE Sender -------------------------------
(***************************************************************************)
(* send.go: one block at a time from one account, a send or a receive.     *)
(* The caller hands over a draft and waits for the result.  A call asks    *)
(* the node for the account frontier, waiting there for the block this     *)
(* process published before, prices the block, publishes it and keeps its  *)
(* hash for the next call.                                                 *)
(***************************************************************************)
EXTENDS Ledger

VARIABLES
  lastHash,   \* the hash published by the previous call, 0 before the first
  spc,        \* where the call is
  draft,      \* the block being sent: kind, recipient or deposit, airdrop
  height,     \* its height and
  previous,   \* its previousHash, once the frontier is known
  result,     \* what the call returned
  cancelled   \* has the operator interrupted the process?

senderVars == <<lastHash, spc, draft, height, previous, result, cancelled>>

NoDraft == [kind |-> "none", of |-> Nobody, run |-> Nobody]
Sends == [kind : {"send"}, of : Addrs, run : Runs]
Receives == [kind : {"receive"}, of : Deposits, run : {Nobody}]

SenderTypeOK ==
  /\ lastHash \in Nat
  /\ spc \in {"idle", "frontier", "price", "publish", "returned"}
  /\ draft \in Sends \union Receives \union {NoDraft}
  /\ height \in Nat
  /\ previous \in Nat
  /\ result \in {"none", "ok", "error", "canceled"}
  /\ cancelled \in BOOLEAN

SenderInit ==
  /\ lastHash = 0 /\ spc = "idle" /\ draft = NoDraft
  /\ height = 0 /\ previous = 0
  /\ result = "none" /\ cancelled = FALSE

\* The process ends: everything the sender knew is gone.
Forget ==
  /\ lastHash' = 0 /\ spc' = "idle" /\ draft' = NoDraft
  /\ height' = 0 /\ previous' = 0
  /\ result' = "none" /\ cancelled' = FALSE

Call(d) ==
  /\ spc \in {"idle", "returned"}
  /\ spc' = "frontier" /\ draft' = d /\ result' = "none"
  /\ UNCHANGED <<lastHash, height, previous, cancelled>>

Return(r) ==
  /\ spc' = "returned" /\ result' = r
  /\ height' = 0 /\ previous' = 0
  /\ UNCHANGED <<draft, cancelled>>

BuildOn(h, hash) ==
  /\ spc' = "price" /\ height' = h /\ previous' = hash
  /\ UNCHANGED <<lastHash, draft, result, cancelled>>

-----------------------------------------------------------------------------
(* frontier *)

\* Mutant: the sender builds on whatever the node reports, without waiting.
PollWithoutWait ==
  /\ spc = "frontier"
  /\ visible > 0
  /\ BuildOn(visible + 1, HashAt(visible))
  /\ UNCHANGED ledgerVars

\* The node reports a block, and it is the one the sender waits for, if any.
PollFrontier ==
  /\ spc = "frontier"
  /\ visible > 0
  /\ lastHash = 0 \/ HashAt(visible) = lastHash
  /\ BuildOn(visible + 1, HashAt(visible))
  /\ UNCHANGED ledgerVars

\* Mutants: a missing block is taken for a new account even by a process that
\* has published; an account starts at height 0.
NothingReportedIsNew ==
  /\ spc = "frontier"
  /\ \/ visible = 0 /\ UNCHANGED faults
     \/ Misfortune
  /\ BuildOn(1, 0)
  /\ UNCHANGED <<chain, visible, minted>>

FirstBlockAtZero ==
  /\ spc = "frontier"
  /\ lastHash = 0 /\ visible = 0
  /\ BuildOn(0, 0)
  /\ UNCHANGED ledgerVars

\* No block reported: the account is new, or the call failed, which
\* FrontierAccountBlock does not tell apart.
FirstBlock ==
  /\ spc = "frontier"
  /\ lastHash = 0
  /\ \/ visible = 0 /\ UNCHANGED faults
     \/ cancelled /\ UNCHANGED faults
     \/ Misfortune
  /\ BuildOn(1, 0)
  /\ UNCHANGED <<chain, visible, minted>>

\* FrontierWait is over.  That takes a slow or failing node, unless a block
\* the sender does not know of follows the one it waits for.
Buried == TipHash # lastHash /\ HashAt(visible) # lastHash

\* Mutant: the deadline is only looked at while no block is reported at all.
TimeoutIfNothingReported ==
  /\ spc = "frontier"
  /\ lastHash # 0 /\ visible = 0
  /\ IF Buried THEN UNCHANGED faults ELSE Misfortune
  /\ Return("error")
  /\ UNCHANGED <<chain, visible, minted, lastHash>>

FrontierTimeout ==
  /\ spc = "frontier"
  /\ lastHash # 0
  /\ IF Buried THEN UNCHANGED faults ELSE Misfortune
  /\ Return("error")
  /\ UNCHANGED <<chain, visible, minted, lastHash>>

-----------------------------------------------------------------------------
(* FrontierMomentum, payPlasma and the publication *)

Price ==
  /\ spc = "price"
  /\ spc' = "publish"
  /\ UNCHANGED <<ledgerVars, lastHash, draft, height, previous, result, cancelled>>

PriceFails ==
  /\ spc = "price"
  /\ Misfortune
  /\ Return("error")
  /\ UNCHANGED <<chain, visible, minted, lastHash>>

PublishOk ==
  /\ spc = "publish"
  /\ Accepts(height, previous, draft)
  /\ Accept(height, draft)
  /\ lastHash' = minted'
  /\ Return("ok")
  /\ UNCHANGED faults

PublishRefused ==
  /\ spc = "publish"
  /\ ~Accepts(height, previous, draft)
  /\ Return("error")
  /\ UNCHANGED <<ledgerVars, lastHash>>

\* The request is lost, or the node refuses for a reason of its own.
PublishFails ==
  /\ spc = "publish"
  /\ Misfortune
  /\ Return("error")
  /\ UNCHANGED <<chain, visible, minted, lastHash>>

\* The node accepts the block and the reply is lost, or is too late.
PublishReplyLost ==
  /\ spc = "publish"
  /\ Accepts(height, previous, draft)
  /\ Accept(height, draft)
  /\ Misfortune
  /\ Return("error")
  /\ UNCHANGED lastHash

\* Interrupted while publishing: the block may have been accepted or not.
PublishInterrupted ==
  /\ spc = "publish"
  /\ cancelled
  /\ \/ Accepts(height, previous, draft) /\ Accept(height, draft)
     \/ UNCHANGED <<chain, visible, minted>>
  /\ Return("canceled")
  /\ UNCHANGED <<faults, lastHash>>

\* Interrupted while waiting or pricing.
Abandon ==
  /\ cancelled
  /\ \/ spc = "price"
     \/ spc = "frontier" /\ lastHash # 0
  /\ Return("canceled")
  /\ UNCHANGED <<ledgerVars, lastHash>>

Interrupt ==
  /\ ~cancelled
  /\ Misfortune
  /\ cancelled' = TRUE
  /\ UNCHANGED <<chain, visible, minted, lastHash, spc, draft, height, previous, result>>

-----------------------------------------------------------------------------

SendStep ==
  \/ PollFrontier \/ FirstBlock \/ FrontierTimeout
  \/ Price \/ PublishOk \/ PublishRefused \/ PublishInterrupted \/ Abandon

SendMishap == PriceFails \/ PublishFails \/ PublishReplyLost

\* The sender on its own: any caller that waits for one call to return before
\* it makes the next, and a process that may end at any time.
Init == LedgerInit /\ SenderInit

NextCall(d) == ~cancelled /\ Call(d) /\ UNCHANGED ledgerVars
Restart ==
  /\ Forget
  /\ UNCHANGED faults \/ Misfortune
  /\ UNCHANGED <<chain, visible, minted>>
Reported == CatchUp /\ UNCHANGED senderVars

Next ==
  \/ \E d \in Sends \union Receives : NextCall(d)
  \/ SendStep \/ SendMishap \/ Interrupt
  \/ Restart \/ Reported

vars == <<ledgerVars, senderVars>>

Spec == Init /\ [][Next]_vars
FairSpec == Spec /\ WF_vars(SendStep) /\ WF_vars(Reported)

-----------------------------------------------------------------------------

\* The values the sender and the node work with; a block being priced or
\* published has a height, and heights start at 1.
TypeOK ==
  /\ LedgerTypeOK /\ SenderTypeOK
  /\ spc \in {"price", "publish"} => height > 0

\* A block that was acknowledged to this process is never replaced by a later
\* block of the same process, even on a node where a block at a taken height
\* displaces the one that is there: the wait in frontier.
AcknowledgedStays ==
  lastHash # 0 => \E h \in 1 .. Len(chain) : chain[h].hash = lastHash

\* Once a process has had a block acknowledged, and no reply was lost since,
\* the node finds every next block at the tip, with the right previousHash.
WaitSuffices ==
  (spc = "publish" /\ lastHash # 0 /\ TipHash = lastHash) =>
    Fits(height, previous) /\ height = Len(chain) + 1

\* The block being built is a send or a receive.
Drafting == spc # "idle" => draft \in Sends \union Receives

\* Hashes rise along the chain, and none is from the future.
HashesRise ==
  /\ lastHash <= minted
  /\ \A h \in DOMAIN chain : chain[h].hash \in 1 .. minted
  /\ \A h, k \in DOMAIN chain : h < k => chain[h].hash < chain[k].hash

\* A process that has had a block acknowledged builds on that block.
BuildsOnLast ==
  spc \in {"price", "publish"} /\ lastHash # 0 =>
    /\ height - 1 \in DOMAIN chain
    /\ chain[height - 1].hash = lastHash /\ previous = lastHash

\* The inductive invariant of the sender.
SenderInv == TypeOK /\ Drafting /\ HashesRise /\ BuildsOnLast /\ AcknowledgedStays

\* A call returns, whatever the node loses, once the mishaps are over.
CallReturns == (spc \in {"frontier", "price", "publish"}) ~> (spc \in {"idle", "returned"})
=============================================================================
