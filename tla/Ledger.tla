------------------------------- MODULE Ledger -------------------------------
(***************************************************************************)
(* The node and the one account chain the airdrop writes to, as far as the *)
(* program can tell: what the node accepts, what it reports, and how the   *)
(* two may lag.  None of it is code of this repository; it is modelled     *)
(* from how rpc.go and send.go use the node and from what their comments   *)
(* say of it.                                                              *)
(***************************************************************************)
EXTENDS Integers, Sequences, FiniteSets

CONSTANTS
  Addrs,      \* addresses that may be paid
  Deposits,   \* sends to the airdrop account that are waiting to be received
  Runs,       \* run keys
  Nobody,     \* fills the fields a block does not have
  Opening,    \* what the account holds at the start, in airdrop amounts
  Displaces,  \* does a block at a taken, not yet reported height replace it?
  MaxFaults   \* bound: mishaps of the network, the disk and the operator

ASSUME LedgerAssumption ==
  /\ Opening \in Nat
  /\ MaxFaults \in Nat
  /\ Displaces \in BOOLEAN
  /\ Nobody \notin Addrs \union Deposits \union Runs
  /\ Addrs \intersect Deposits = {}

VARIABLES
  chain,    \* the account's blocks, height 1 first
  visible,  \* how many of them the node already reports
  minted,   \* hashes handed out so far; hash 0 is the zero hash
  faults    \* mishaps so far

ledgerVars == <<chain, visible, minted, faults>>

\* A block: `of' is the recipient of a send or the deposit a receive names;
\* `run' is a ghost, the airdrop a send belongs to.
Block == [hash : Nat, kind : {"send", "receive", "other"},
          of : Addrs \union Deposits \union {Nobody},
          run : Runs \union {Nobody}]

Older == [hash |-> 1, kind |-> "other", of |-> Nobody, run |-> Nobody]

LedgerTypeOK ==
  /\ chain \in Seq(Block)
  /\ visible \in 0 .. Len(chain)
  /\ minted \in Nat
  /\ faults \in 0 .. MaxFaults

\* The account is new, or has published before.
LedgerInit ==
  /\ \E older \in {<<>>, <<Older>>} :
       /\ chain = older
       /\ visible = Len(older)
       /\ minted = Len(older)
  /\ faults = 0

HashAt(h) == IF h = 0 THEN 0 ELSE chain[h].hash
TipHash == HashAt(Len(chain))

Heights(n, kind) == {h \in 1 .. n : chain[h].kind = kind}
Received(n) == {chain[h].of : h \in Heights(n, "receive")}

\* What the account holds, and what waits for it, after its first n blocks.
Balance(n) == Opening + Cardinality(Received(n)) - Cardinality(Heights(n, "send"))
Unreceived(n) == Deposits \ Received(n)

\* The node takes a block that extends the chain (or, under Displaces, that
\* takes over a height it does not report yet) and that the account can pay
\* for, or whose deposit is still waiting.
Affordable(h, kind, of) ==
  IF kind = "send" THEN Balance(h - 1) >= 1 ELSE of \in Unreceived(h - 1)

Fits(h, previous) ==
  /\ \/ h = Len(chain) + 1
     \/ Displaces /\ h \in visible + 1 .. Len(chain)
  /\ previous = HashAt(h - 1)

Accepts(h, previous, draft) == Fits(h, previous) /\ Affordable(h, draft.kind, draft.of)

Accept(h, draft) ==
  /\ chain' = Append(SubSeq(chain, 1, h - 1),
                     [hash |-> minted + 1, kind |-> draft.kind,
                      of |-> draft.of, run |-> draft.run])
  /\ minted' = minted + 1
  /\ UNCHANGED visible

\* The node starts to report blocks it had accepted.
CatchUp ==
  /\ \E v \in visible + 1 .. Len(chain) : visible' = v
  /\ UNCHANGED <<chain, minted, faults>>

\* One more mishap, out of a bounded supply.
Misfortune == faults < MaxFaults /\ faults' = faults + 1
=============================================================================
