------------------------------ MODULE Airdrop ------------------------------
(***************************************************************************)
(* plan.go and airdrop.go: one invocation of the program at a time, from   *)
(* the journal it reads to the report it prints, over the sender, the      *)
(* journal and the node.  An invocation prices the run, may collect what   *)
(* waits for the account, and then pays the recipients in turn.  It may    *)
(* crash or be interrupted, and the operator may start it again.           *)
(***************************************************************************)
EXTENDS Journal

CONSTANTS
  Recipients,  \* for each airdrop, whom it pays, in order
  StopAfter    \* -stop-after-errors; 0 means never

ASSUME AirdropAssumption ==
  /\ Recipients \in [Runs -> Seq(Addrs)]
  /\ \A r \in Runs : \A j, k \in DOMAIN Recipients[r] :
       Recipients[r][j] = Recipients[r][k] => j = k
  /\ StopAfter \in Nat

VARIABLES
  pc,           \* where the invocation is, "down" between invocations
  inv,          \* its airdrop and flags; kept afterwards, with the report
  alreadyPaid,  \* what the journal said when it started
  pending,      \* the deposits of the page being collected
  i,            \* the recipient it is at
  consecutive,  \* sends that failed in a row
  rep,          \* the report
  exit          \* how the last invocation ended

runVars == <<pc, inv, alreadyPaid, pending, i, consecutive, rep, exit>>
airdropVars == <<ledgerVars, senderVars, journal, runVars>>

Invocation == [run : Runs, sending : BOOLEAN, receive : BOOLEAN]
Report == [sent : Nat, skipped : Nat, failed : Nat]
NoReport == [sent |-> 0, skipped |-> 0, failed |-> 0]

RunTypeOK ==
  /\ pc \in {"down", "plan", "fetch", "collect", "receiving", "balance", "loop", "sending"}
  /\ inv \in Invocation
  /\ alreadyPaid \subseteq Addrs
  /\ pending \subseteq Deposits
  /\ i \in Nat \ {0}
  /\ consecutive \in Nat
  /\ rep \in Report
  /\ exit \in {"none", "done", "failed", "stopped", "canceled", "journal",
               "unreadable", "error", "short", "dry", "crash"}

AirdropTypeOK == LedgerTypeOK /\ SenderTypeOK /\ JournalTypeOK /\ RunTypeOK

AirdropInit ==
  /\ LedgerInit /\ SenderInit /\ JournalInit
  /\ pc = "down"
  /\ inv \in Invocation
  /\ alreadyPaid = {} /\ pending = {}
  /\ i = 1 /\ consecutive = 0
  /\ rep = NoReport
  /\ exit = "none"

List == Recipients[inv.run]
Outstanding == {k \in DOMAIN List : List[k] \notin alreadyPaid}

Goto(l) == pc' = l /\ UNCHANGED <<inv, exit>>

\* The process is gone; the report and the exit status stay for the reader.
Exit(why) ==
  /\ pc' = "down" /\ exit' = why
  /\ alreadyPaid' = {} /\ pending' = {} /\ i' = 1 /\ consecutive' = 0
  /\ Forget
  /\ UNCHANGED inv

-----------------------------------------------------------------------------
(* planAndSend, up to the send loop *)

Invoke(r, sending, receive) ==
  /\ pc = "down"
  /\ pc' = "plan" /\ exit' = "none" /\ rep' = NoReport
  /\ inv' = [run |-> r, sending |-> sending, receive |-> receive]
  /\ UNCHANGED <<ledgerVars, senderVars, journal, alreadyPaid, pending, i, consecutive>>

\* Mutant: a last line without its newline is not read.
ReadPaidToNewline ==
  /\ pc = "plan"
  /\ Readable
  /\ alreadyPaid' = {journal[k].addr : k \in {l \in Lines(inv.run) : journal[l].form = "whole"}}
  /\ Goto(IF inv.receive THEN "fetch" ELSE "balance")
  /\ UNCHANGED <<ledgerVars, senderVars, journal, pending, i, consecutive, rep>>

ReadPaid ==
  /\ pc = "plan"
  /\ Readable
  /\ alreadyPaid' = Recorded(inv.run)
  /\ Goto(IF inv.receive THEN "fetch" ELSE "balance")
  /\ UNCHANGED <<ledgerVars, senderVars, journal, pending, i, consecutive, rep>>

Unreadable ==
  /\ pc = "plan"
  /\ ~Readable
  /\ Exit("unreadable")
  /\ UNCHANGED <<ledgerVars, journal, rep>>

FetchPending ==
  /\ pc = "fetch"
  /\ pending' = Unreceived(visible)
  /\ Goto(IF pending' = {} THEN "balance" ELSE "collect")
  /\ UNCHANGED <<ledgerVars, senderVars, journal, alreadyPaid, i, consecutive, rep>>

CollectNext ==
  /\ pc = "collect"
  /\ ~cancelled
  /\ \E d \in pending :
       /\ Call([kind |-> "receive", of |-> d, run |-> Nobody])
       /\ pending' = pending \ {d}
  /\ Goto("receiving")
  /\ UNCHANGED <<ledgerVars, journal, alreadyPaid, i, consecutive, rep>>

PageCollected ==
  /\ pc = "collect"
  /\ pending = {}
  /\ Goto("fetch")
  /\ UNCHANGED <<ledgerVars, senderVars, journal, alreadyPaid, pending, i, consecutive, rep>>

ReceiveReturned ==
  /\ pc = "receiving"
  /\ spc = "returned"
  /\ \/ /\ result = "ok"
        /\ Goto("collect")
        /\ UNCHANGED <<senderVars, alreadyPaid, pending, i, consecutive>>
     \/ /\ result # "ok"
        /\ Exit("error")
  /\ UNCHANGED <<ledgerVars, journal, rep>>

\* A call to the node fails, or finds the process interrupted; or the journal
\* does not open.
PlanFails ==
  /\ \/ pc \in {"plan", "fetch", "balance"}
     \/ pc = "collect" /\ pending # {} /\ cancelled
  /\ IF cancelled THEN UNCHANGED faults ELSE Misfortune
  /\ Exit("error")
  /\ UNCHANGED <<chain, visible, minted, journal, rep>>

\* Mutant: the balance is held against the whole list, the paid included.
ShortOfTotal == Balance(visible) < Len(List)

Short == Balance(visible) < Cardinality(Outstanding)

PlanEnds ==
  /\ pc = "balance"
  /\ \/ ~inv.sending /\ Exit("dry")
     \/ inv.sending /\ Short /\ Exit("short")
  /\ UNCHANGED <<ledgerVars, journal, rep>>

StartSending ==
  /\ pc = "balance"
  /\ inv.sending /\ ~Short
  /\ Goto("loop")
  /\ UNCHANGED <<ledgerVars, senderVars, journal, alreadyPaid, pending, i, consecutive, rep>>

-----------------------------------------------------------------------------
(* Airdrop.Run *)

AtRecipient == pc = "loop" /\ i <= Len(List)

Canceled ==
  /\ AtRecipient
  /\ cancelled
  /\ Exit("canceled")
  /\ UNCHANGED <<ledgerVars, journal, rep>>

Skip ==
  /\ AtRecipient
  /\ ~cancelled
  /\ List[i] \in alreadyPaid
  /\ rep' = [rep EXCEPT !.skipped = @ + 1]
  /\ i' = i + 1
  /\ UNCHANGED <<ledgerVars, senderVars, journal, pc, inv, alreadyPaid, pending, consecutive, exit>>

\* Mutant: the journal is not consulted before a send.
SendToAnyone ==
  /\ AtRecipient
  /\ ~cancelled
  /\ Call([kind |-> "send", of |-> List[i], run |-> inv.run])
  /\ Goto("sending")
  /\ UNCHANGED <<ledgerVars, journal, alreadyPaid, pending, i, consecutive, rep>>

SendNext ==
  /\ AtRecipient
  /\ ~cancelled
  /\ List[i] \notin alreadyPaid
  /\ Call([kind |-> "send", of |-> List[i], run |-> inv.run])
  /\ Goto("sending")
  /\ UNCHANGED <<ledgerVars, journal, alreadyPaid, pending, i, consecutive, rep>>

SendReturned(how) == pc = "sending" /\ spc = "returned" /\ result = how

SendCanceled ==
  /\ SendReturned("canceled")
  /\ Exit("canceled")
  /\ UNCHANGED <<ledgerVars, journal, rep>>

\* Mutants: a failed send is recorded all the same; it is tried again at once,
\* for as long as it fails.
SendFailedRecorded ==
  /\ SendReturned("error")
  /\ Record(inv.run, List[i], lastHash)
  /\ rep' = [rep EXCEPT !.failed = @ + 1]
  /\ i' = i + 1
  /\ Goto("loop")
  /\ UNCHANGED <<ledgerVars, senderVars, alreadyPaid, pending, consecutive>>

SendFailedRetried ==
  /\ SendReturned("error")
  /\ Goto("loop")
  /\ UNCHANGED <<ledgerVars, senderVars, journal, alreadyPaid, pending, i, consecutive, rep>>

SendFailed ==
  /\ SendReturned("error")
  /\ rep' = [rep EXCEPT !.failed = @ + 1]
  /\ IF StopAfter > 0 /\ consecutive + 1 >= StopAfter
     THEN Exit("stopped")
     ELSE /\ consecutive' = consecutive + 1
          /\ i' = i + 1
          /\ Goto("loop")
          /\ UNCHANGED <<senderVars, alreadyPaid, pending>>
  /\ UNCHANGED <<ledgerVars, journal>>

\* Mutant: the run does not move on to the next recipient.
SendRecordedInPlace ==
  /\ SendReturned("ok")
  /\ Record(inv.run, List[i], lastHash)
  /\ rep' = [rep EXCEPT !.sent = @ + 1]
  /\ consecutive' = 0
  /\ Goto("loop")
  /\ UNCHANGED <<ledgerVars, senderVars, alreadyPaid, pending, i>>

SendRecorded ==
  /\ SendReturned("ok")
  /\ Record(inv.run, List[i], lastHash)
  /\ rep' = [rep EXCEPT !.sent = @ + 1]
  /\ consecutive' = 0
  /\ i' = i + 1
  /\ Goto("loop")
  /\ UNCHANGED <<ledgerVars, senderVars, alreadyPaid, pending>>

\* Mutant: a send counts as sent before it is recorded.
SendCountedFirst ==
  /\ SendReturned("ok")
  /\ Misfortune
  /\ RecordCutShort(inv.run, List[i], lastHash)
  /\ rep' = [rep EXCEPT !.sent = @ + 1]
  /\ Exit("journal")
  /\ UNCHANGED <<chain, visible, minted>>

SendNotRecorded ==
  /\ SendReturned("ok")
  /\ Misfortune
  /\ RecordCutShort(inv.run, List[i], lastHash)
  /\ Exit("journal")
  /\ UNCHANGED <<chain, visible, minted, rep>>

\* Mutant: the failures of a run that went through do not reach the exit status.
FinishDone ==
  /\ pc = "loop"
  /\ i > Len(List)
  /\ Exit("done")
  /\ UNCHANGED <<ledgerVars, journal, rep>>

Finish ==
  /\ pc = "loop"
  /\ i > Len(List)
  /\ Exit(IF rep.failed > 0 THEN "failed" ELSE "done")
  /\ UNCHANGED <<ledgerVars, journal, rep>>

-----------------------------------------------------------------------------

\* The process dies, perhaps in the middle of writing a line.
Crash ==
  /\ pc # "down"
  /\ Misfortune
  /\ IF SendReturned("ok")
     THEN RecordCutShort(inv.run, List[i], lastHash)
     ELSE UNCHANGED journal
  /\ Exit("crash")
  /\ UNCHANGED <<chain, visible, minted, rep>>

SenderWorks == pc \in {"receiving", "sending"} /\ SendStep /\ UNCHANGED <<journal, runVars>>
SenderSuffers == pc \in {"receiving", "sending"} /\ SendMishap /\ UNCHANGED <<journal, runVars>>
Interrupted == pc # "down" /\ Interrupt /\ UNCHANGED <<journal, runVars>>
NodeReports == CatchUp /\ UNCHANGED <<senderVars, journal, runVars>>

Plan ==
  \/ ReadPaid \/ Unreadable \/ FetchPending \/ CollectNext \/ PageCollected
  \/ ReceiveReturned \/ PlanFails \/ PlanEnds \/ StartSending

Run ==
  \/ Canceled \/ Skip \/ SendNext \/ SendCanceled \/ SendFailed
  \/ SendRecorded \/ SendNotRecorded \/ Finish

Process == Plan \/ Run \/ SenderWorks
Mishap == SenderSuffers \/ Interrupted \/ Crash

AirdropNext ==
  \/ \E r \in Runs, sending, receive \in BOOLEAN : Invoke(r, sending, receive)
  \/ Process \/ Mishap \/ NodeReports

AirdropSpec == AirdropInit /\ [][AirdropNext]_airdropVars

\* A process that can go on does, the node reports what it accepted, and the
\* operator keeps coming back to every airdrop.
AirdropFairness ==
  /\ WF_airdropVars(Process)
  /\ WF_airdropVars(NodeReports)
  /\ \A r \in Runs : SF_airdropVars(Invoke(r, TRUE, FALSE))

FairAirdropSpec == AirdropSpec /\ AirdropFairness

-----------------------------------------------------------------------------
(* What makes the airdrop correct *)

\* The payments of one airdrop to one address, as heights of the chain.
Payments(r, a) == {h \in Heights(Len(chain), "send") : chain[h].run = r /\ chain[h].of = a}
HasLine(h) == \E k \in Lines(chain[h].run) : journal[k].hash = chain[h].hash

\* The send that was acknowledged and is not written down yet.
InFlight == IF SendReturned("ok") THEN {Len(chain)} ELSE {}

\* Nobody is paid by an airdrop again once the journal has the line of an
\* earlier payment, over any number of crashes and restarts.
NoPayAfterRecord ==
  \A h, k \in Heights(Len(chain), "send") :
    h < k /\ chain[h].run = chain[k].run /\ chain[h].of = chain[k].of => ~HasLine(h)

\* Every line of the journal is a payment on the chain: nobody is skipped who
\* was not paid.
NoLineWithoutSend ==
  \A r \in Runs : \A k \in Lines(r) :
    \E h \in Payments(r, journal[k].addr) : chain[h].hash = journal[k].hash

\* Each mishap loses the line of at most one payment, so that at most one
\* payment too many can follow from it.
Lapses == {h \in Heights(Len(chain), "send") : ~HasLine(h)} \ InFlight

OneLapsePerMishap == Cardinality(Lapses) <= faults

\* An invocation that ends well has left every recipient of its list with a
\* payment on the chain and a line in the journal.
DoneMeansPaid ==
  exit = "done" =>
    \A k \in DOMAIN List :
      Payments(inv.run, List[k]) # {} /\ List[k] \in Recorded(inv.run)

\* The report counts as sent only what a later invocation will find written
\* down, which is what a replay compares it with.
SentIsRecorded ==
  rep.sent <= Cardinality(Lines(inv.run))

\* The airdrop as payments and a book: see Payout.
PaymentAt(h) == [run |-> chain[h].run, to |-> chain[h].of, id |-> chain[h].hash]

PaymentsMade == {PaymentAt(h) : h \in Heights(Len(chain), "send")}
Entries ==
  {[run |-> journal[k].run, to |-> journal[k].addr, id |-> journal[k].hash] : k \in Written}
ToEnter == IF SendReturned("ok") THEN {PaymentAt(Len(chain))} ELSE {}

Promise == INSTANCE Payout WITH
  Airdrops <- Runs, Payees <- Addrs,
  payments <- PaymentsMade, book <- Entries, open <- ToEnter

\* planAndSend and Airdrop.Run, over any number of invocations, keep the
\* promise: one payment at a time, entered before the next one is made, nobody
\* in the book paid again.
KeepsPromise == Promise!PayoutSpec

\* Why NoPayAfterRecord holds.  The block being built is the one the caller
\* asked for, and a send is for a recipient the journal did not have.
Drafted ==
  /\ spc # "idle" => draft \in Sends \union Receives
  /\ pc = "receiving" => draft \in Receives
  /\ pc = "sending" =>
       /\ i \in DOMAIN List
       /\ List[i] \notin alreadyPaid
       /\ draft = [kind |-> "send", of |-> List[i], run |-> inv.run]

\* Hashes grow along the chain, and no line or block has one from the future.
HashesGrow ==
  /\ \A h \in DOMAIN chain : chain[h].hash <= minted
  /\ \A h, k \in DOMAIN chain : h < k => chain[h].hash < chain[k].hash
  /\ \A k \in DOMAIN journal : journal[k].hash <= minted

\* A line with the hash of a block names the payment of that block.
LinesMatch ==
  \A k \in DOMAIN journal, h \in DOMAIN chain :
    journal[k].hash = chain[h].hash =>
      journal[k].run = chain[h].run /\ journal[k].addr = chain[h].of

\* While an invocation runs the journal gains the recipients before i, only.
SnapshotHolds ==
  pc \notin {"down", "plan"} =>
    \A a \in Recorded(inv.run) :
      a \in alreadyPaid \/ \E j \in DOMAIN List : j < i /\ List[j] = a

\* The acknowledged send is the last block.
Acknowledged ==
  SendReturned("ok") =>
    /\ chain # <<>>
    /\ chain[Len(chain)].hash = lastHash
    /\ chain[Len(chain)].run = inv.run /\ chain[Len(chain)].of = List[i]

\* The inductive invariant of Airdrop.Run and its journal: what is being sent,
\* what was read and what is written agree, so that nobody on record is paid.
PayOnceInv ==
  /\ AirdropTypeOK /\ Drafted /\ HashesGrow /\ LinesMatch /\ SnapshotHolds
  /\ Acknowledged /\ NoPayAfterRecord

\* Who was paid stays on record, and so is everyone before i unless a send
\* failed.
NoneMissed ==
  /\ pc \notin {"loop", "sending"} => i = 1
  /\ pc \notin {"down", "plan"} => alreadyPaid \subseteq Recorded(inv.run)
  /\ pc \in {"loop", "sending"} /\ rep.failed = 0 =>
       \A j \in DOMAIN List : j < i => List[j] \in Recorded(inv.run)
  /\ exit = "done" => \A k \in DOMAIN List : List[k] \in Recorded(inv.run)

\* An interrupt is a mishap whose lapse may still be to come: the publication
\* it cuts short.
ToCome == IF cancelled /\ ~(spc = "returned" /\ result = "canceled") THEN 1 ELSE 0

LapsesPaidFor == Cardinality(Lapses) + ToCome <= faults

\* The inductive invariant of the report and the journal: with it, what an
\* invocation says of itself is what a later one finds.
AccountInv == NoneMissed /\ LapsesPaidFor /\ SentIsRecorded

\* An invocation comes to an end, whatever the node loses: the wait in frontier,
\* the rounds of ReceiveAll and the send loop.
InvocationEnds == (pc # "down") ~> (pc = "down")

\* Re-running pays everyone in the end, unless a line was garbled.
EventuallyPaid ==
  \A r \in Runs :
    <>(~Readable \/ \A k \in DOMAIN Recipients[r] : Recipients[r][k] \in Recorded(r))

-----------------------------------------------------------------------------
(* What the documentation says of the program, and the code does not do *)

\* README and the -dry-run flag: a run without -confirm publishes nothing.
DryRunPublishesNothing ==
  [][pc # "down" /\ ~inv.sending => UNCHANGED chain]_airdropVars

\* Airdrop.Run: a node-side error on one address does not cost the others
\* their share.  (Said only of a process that has had a block acknowledged: the
\* first one may be built on a frontier the node was slow to report.)
OneFailurePerMishap == lastHash # 0 => rep.failed <= faults

\* The Journal's comment: it turns a resumed run into the remainder of the
\* original one; so a run that crashed can be resumed.
CanResume == exit # "unreadable"
=============================================================================
