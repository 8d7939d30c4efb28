# Verification of zts-airdrop

TLA+ models of zts-airdrop, the TLC runs that check them on small instances,
and TLAPS proofs, for every value of the constants, of every safety property
those runs check: that resuming an airdrop does not pay anybody twice who is on
record, that the list is who acted in the range, that an amount is sent as it
was typed.  Source lines below are in `src/`.

## The system

zts-airdrop is one sequential Go process, run by hand and re-run after a
failure, against a node it reaches over JSON-RPC.  What is hard is not threads:
it is that the node acknowledges a block before it reports it, that a reply may
be lost after the node has acted, that the process may die between any two
steps, and that the only memory from one invocation to the next is a text file.

| Component | State it keeps | Operations | What makes it correct |
| --- | --- | --- | --- |
| Node (external) | account chain, what it reports of it, momentums | accept a block, report the frontier, the balance, pending deposits, momentums | not ours; assumed |
| RPC client, `rpc.go` | a request id | one call each; any failure of `FrontierAccountBlock` is read as "no blocks" | a failure is never taken for a fact |
| Sender, `send.go` | `lastHash` | `Send`, `Receive`, `ReceiveAll`, `frontier`, `payPlasma` | a block is built on the last one acknowledged; every call returns |
| Journal, `journal.go` | the file | `Paid`, `OpenJournal`, `Record` | a line for every payment but those a mishap took, none without a payment |
| Send loop, `airdrop.go` | index, report, failures in a row | `Run` | nobody on record is paid again; failures stay apart |
| Plan, `plan.go` | what was paid at the start | `planAndSend` | a run starts if and only if what is left to pay can be paid; a dry run publishes nothing |
| Range and scanner, `scan.go` | height, users seen, counts | `ResolveRange`, `Scan`, `scanBatch` | the list is who acted in the range, exactly |
| Scan log, `scanlog.go` | a file per scan | `NewScanLog`, `SetFilter`, `Write`, `ReadScanLog`, `verifyScan` (`main.go`) | the log reproduces |
| Replay, `replay.go` | none | `replayScan`, `replayList` | the approved list is paid, under the original run key |
| Settings, `env.go`, `main.go` | the environment | `LoadDotEnv`, `ApplyEnvDefaults`, `keySource` | a flag beats the environment beats the file |
| Amounts, `amount.go` | none | `ParseAmount`, `FormatAmount` | no digit gained or lost |
| Wallet, `wallet.go` | none | `LoadKey` | library calls only |

`run` (`main.go`) resolves the range, scans, narrows the list and calls
`planAndSend`; `replayScan` takes the list from a log and calls it too.
`planAndSend` reads the journal, may collect deposits through the sender, reads
the balance, and hands the list and what is already paid to `Airdrop.Run`,
which calls `Sender.Send` and `Journal.Record` in turn.  The context that a
signal cancels is shared by all of them.

The hazards, each at its line and with the properties aimed at it, are listed
in `PROJECT.json`.

## The modules

    Ledger <- Sender <- Journal <- Airdrop    (refines) Payout
    Range  <- Scan
    Range  <- Campaign
    Amount <- Settings

    SenderProofs  <- AirdropProofs <- AccountProofs
    ScanProofs
    CampaignSteps <- CampaignProofs
    AmountProofs  <- SettingsProofs

Each of `Sender`, `Airdrop`, `Scan`, `Campaign` and `Settings` has an `MC`
module, and a module of proofs that extends it: `AirdropProofs` and
`AccountProofs` for `Airdrop`, `CampaignSteps` (the lemmas) and
`CampaignProofs` for `Campaign`.

**Ledger** is the node as the program can tell: `chain` is what it accepted,
`visible` how much of it it reports, `minted` numbers the blocks (number n is
"the hash" of the nth block, 0 the zero hash), `faults` counts mishaps.  A
block is taken if it extends the chain with the right `previousHash`.  With
`Displaces` a node also takes a block at a height it does not report yet, which
displaces what is there: `send.go:28-32` says such a block is rejected,
`send.go:204-206` that it forks the chain, so both are modelled.  Amounts are
in shares of the airdrop: `Balance(n)` is `Opening`, plus a share for each
deposit received, minus one for each send.

**Sender** is `Send` and `Receive` step by step (`spc`): `frontier`, with its
wait for `lastHash` and its time limit; pricing, with everything between the
frontier and the publication; publication, in which the node may accept or
refuse, and the reply may be lost.  `FirstBlock` is `rpc.go:221`: no block, a
failure and a cancelled context look alike to it.  `FrontierTimeout` is free of
charge only when the node cannot report what is waited for (`Buried`);
otherwise running into 90 seconds takes a mishap.  `Next` closes the
sender under any sequence of calls, interrupts and restarts.

**Journal** is the file as a sequence of lines.  A line is `whole`; `bare`, with
its newline missing, which `Paid` still reads; `torn`, cut short; or `garbled`,
two lines run together because `O_APPEND` writes after a bare one.  `Readable`
is whether `Paid` returns without an error, for any run key.

**Airdrop** is `planAndSend` and `Airdrop.Run`, with `pc` for where the process
is and "down" between invocations.  An action is a step between two points at
which something else may happen: a call to the node, a line written, a round of
the loop.  `Exit` forgets everything in memory; `rep` and `exit` stay as the
report and status the operator saw.  The ghost field `run` of a block says which airdrop
a send was for; the program does not read it.

**Payout** is what an airdrop promises: payments one at a time, each entered in
a book before the next is made or not at all, nobody in the book paid again.
`Airdrop!KeepsPromise` is the refinement: payments are the sends on the chain,
the book is the journal's lines, `open` is the set of what is still to be
entered: the send acknowledged and not recorded yet, or nothing.

**Range** is `ResolveRange` as operators over the flags and the tip; `Scan` and
`Campaign` share them.

**Scan** is the use of a range, the batch loop, the narrowing to recipients, the
log and `-verify-scan`, on a chain whose momentums are fixed in advance
(`history`) and appear one by one (`tip`).  Batches are of any size
(`LightBatch`, `DetailBatch` for 1024 and 100).  Addresses are numbers, which
gives them the order their strings have; `Sorted` is the one sequence that
lists a set of them in that order.  `-min-holding` keeps any subset.
`request` tells one call from the next, so that a scan that asks for the same
height for ever is a behaviour of its own and not a standstill.

**Campaign** is an operator over days: invocations that scan, filter, plan, pay
and log, or replay a log, with the tip moving on and any journal path.  `runs`
keeps a record of every invocation, ended ones included: its flags, resolved
range, terms, approved list, whom it paid with a line (`recorded`) and without
(`lapsed`), and its log.  Up to `AtOnce` are alive together; `overlaps` holds the
pairs of which one read the journal while the other was between reading it and
its end.  A step is coarser than in `Airdrop` and `Scan`: a scan is one step (its
range is fixed and momentums never change) and so is a payment with its line.
`End` writes the log (`LastLog`) as the deferred function does; a kill writes
none.  A digest is the set it hashes, a run key the record it hashes.  `Edit` changes a
list in a log and not the digest.

**Amount** is `ParseAmount` and `FormatAmount` on texts, which are sequences of
characters, a digit standing for itself; beside them what a text means
(`Mantissa / 10 ^ Places`), said without scaling, padding or trimming.  `Worth`
is what digits are worth, as a recursive function on their prefixes, and
`TenTo(n)` the worth of a one with n zeros: what `amount.go` computes by
appending zeros and calling `big.Int.SetString`.

**Settings** is the way from flags, shell and `.env` to what a run does.  The
operator gives settings in any order (`Give`); the program loads the file line
by line (`LoadLine`), applies the environment to flags that were not given
(`ApplyEnvDefaults`), and settles node, amount, key and whether it sends
(`Choose`, `ChooseToVerify`).  `Values(n)` are the values the setting `n` may be
given, and `Sayable(n)` what a variable or a line may say of it, which may also
be empty or not a truth value.  `-zts` and the range are taken as given.

## What is checked

| Run | Shows |
| --- | --- |
| `sender` | On a displacing node, with three mishaps and six blocks: an acknowledged block of this process stays (`AcknowledgedStays`), the next one is at the tip when it is published (`WaitSuffices`), every call returns (`CallReturns`). `SenderInv` and `TypeOK`. |
| `airdrop` | Two airdrops `<<a1, a2>>` and `<<a2>>` sharing a journal; a deposit; an account new or used; two mishaps; funds for three payments, so that running short happens. `NoPayAfterRecord`, the inductive invariants `PayOnceInv` and `AccountInv`, `NoLineWithoutSend`, `OneLapsePerMishap`, `DoneMeansPaid`, `SentIsRecorded`, and the refinement `KeepsPromise`. |
| `progress` | One airdrop to three recipients under fairness: `InvocationEnds`, `EventuallyPaid`. |
| `scan` | All ranges on chains of one to four momentums: `FoundWhatActed`, `WholeRange`, `RangeAsAsked`, `RecipientsSound`, `LoggedScanReproduces`, `ContractsCounted`, `ScanEnds`, and the inductive `ScanInv`, which contains `TypeOK`. |
| `campaign` | Two invocations that may overlap, then a replay by itself. `PaidOncePerKey`: only overlapping runs pay somebody twice on record; `ClosedRangeResumes` and `ReplayResumes`: the same flags with `-to`, and a replay on the original journal, resume; `ReplayTakesLoggedList`: whatever became of the lists in its log, a replay pays the one that was approved or, where a filtered log has no recipients left, everybody found; `SuccessCoversList`; `WarnsBeforeRepeat`, `NoFalseAlarm`: what the warning of a replay is worth; `LogTellsWhatWasSent`. The inductive `CampaignInv`, which contains `TypeOK`. |
| `settings` | `Precedence` of flag, shell, file and default; `NothingSentUnasked` (a `confirm` in the file counts only where the shell says nothing); `KeyAsConfigured` (the key is one that was configured, and the password one that flag or environment gave; which wins where both speak is left open, see below); `ReplayFollowsLog`; `AmountExact` (a typed amount comes to exactly what it means or is refused, and only when it must be) and `DisplayedIsSent`. The inductive `SettingsInv`, and `TypeOK`. |
| `dry_run`, `wedge`, `torn`, `short_scan`, `same_flags`, `empty_filter` | Each a claim of the documentation the code does not keep; see below. |

Each inductive invariant is an invariant of a run, so a slip in one shows as a
counterexample before it shows as a proof that fails.

Bounds.  `MaxFaults` bounds crashes, interrupts, lost requests and replies and
failed writes together: two are enough for a mishap during the recovery from
another, three let the sender alone meet a loss, a restart and a loss.
`MaxMinted` (in `MCSender`) is needed because displacing blocks can be published for ever.
Without displacement the funds bound the chain.  Batches of three and two on
four momentums give full, partial and exactly fitting last batches.  Short and
empty replies are unbounded.  `MCScan` leaves out combinations of flags in
which `-from` and `-last` are both given (`-from` wins, `scan.go:194-201`), and
varies `-exclude-self` together with `-include-recipients`.

In `campaign`, two users, of whom one acts in the first momentum and both in the
second; a range that follows the tip (`-last 2`) and one that does not (`-last 1
-to 1`); two journals, which are symmetric; `MaxMishaps` of one line lost, kill
or edited log.  A resumption and a replay take two invocations; the third sees
what two others, overlapping or not, left in a journal under one key or two.
`MCNext` makes the third a replay by itself during which no momentum appears,
no mishap happens and no send fails, lets other terms come up only as the
override of a replay by itself, overlaps no run without terms with another,
which have no journal in common, and has a log edited just before it is
replayed, which loses nothing, since only a replay reads a log: more would not
end in minutes.  The operator may stop at
any time, so deadlock is not checked there, nor in `settings`, where a run ends.

In `settings`, up to three flags, variables and lines about at most two settings
and the amount: three suffice for a flag, a shell and a file that contradict one
another, or two lines and a flag, or two sources of the key and a `-confirm`.
Where less can matter less is given: two things to a verification, which takes
only its node from them, and to a replay of a log without an amount; and to
other replays one setting besides node, amount and `-confirm`.
Amounts are all texts of up to four of the characters `0 7 . - + _` and space,
for tokens of up to two decimals: every way to write too many, just enough and
too few digits on either side of the dot, with signs and second dots.

`NoLineWithoutSend` is checked for nodes that refuse a block at a taken height.
On a displacing node it fails: a restarted process has no `lastHash`, builds on
the frontier it is shown, and may displace a block that has a line.

Fairness.  `WF(SendStep)`, `WF(Process)`, `WF(Program)`: one goroutine that
is never blocked for good, since each HTTP call and each wait has a time limit.
`WF(NodeReports)`: a node reports what it accepted, after a while; without it
nothing could be re-run.  `SF(Invoke(r, TRUE, FALSE))`: the
operator keeps re-running, as the error messages ask; used for
`EventuallyPaid` only, which also excepts a journal that became unreadable.
Deadlock is checked in every run of these modules.

Every property of a passing run has a mutant in `PROJECT.json`: an operator
beside the original, marked `Mutant`, with a plausible slip under which TLC
finds the property violated.

### Where the code and its documentation part

- `dry_run`: with `-receive`, a run without `-confirm` publishes receive blocks
  (`plan.go:119` does not look at `sending`).
- `wedge`: after one lost reply to a publication, `frontier` waits for a block
  that will never be the tip again (`send.go:200`), and every later send of the
  process fails.
- `torn`: `Paid` (`journal.go:94`) refuses the whole file at the partial line a
  crash may leave, so the run cannot be resumed without editing the file.
- `short_scan`: an empty reply ends a scan silently (`scan.go:92`); the list is
  logged as that of the whole range.
- `same_flags`: `-last`, or a range without `-to`, names another range once the
  chain has grown, so another run key, and the same flags pay again whom the
  first run had on record (`main.go:86` and the README say they resume).
- `empty_filter`: a filtered list that is empty counts as no list
  (`replay.go:206`), so a replay takes all the scanned addresses.  A run whose
  filter kept nobody leaves such a log, which is the counterexample; taking the
  recipients out of a log by hand makes another, although the README says that
  an edited log is refused.

Met while modelling, and without a run of their own:

- Flags win over the environment, say the README, `.env.example` and
  `main.go:138`.  For each setting by itself they do (`Precedence`), but
  `ZTS_AIRDROP_PASSWORD`, from the shell or from `.env`, beats `-password`
  (`main.go:345`), and the sources of the key are tried in a fixed order, so a
  `devnet=true` in either beats `-keystore` on the command line
  (`main.go:327`).  `KeyAsConfigured` says neither that this is so nor that it
  should be.
- `ZTS_AIRDROP_SCAN_LOG_DIR=` leaves the default directory (`env.go:88`;
  `.env.example` says "Set empty to disable").
- `-from` in `.env` beats an explicit `-last` (`scan.go:194`), as with the key.
- An explicit `-node` equal to the default loses to the log's node
  (`main.go:472`, `replay.go:66`); a token or amount in `.env` reprices a replay.
- A replay's warning compares how many were paid, not who (`replay.go:159`).
- Two logs of the same second and range have the same name (`scanlog.go:236`).

## What is proved

TLAPS proves every invariant and action property of the passing runs, for all
values of the constants that meet these assumptions:

- `LedgerAssumption`, `AirdropAssumption`: numbers are numbers; recipients,
  deposits and runs are told apart; a list names nobody twice (`Scan` returns a
  set, sorted).  The sets may be infinite, `Displaces` is either way,
  `MaxFaults` and `StopAfter` are any number.
- `ScanAssumption`: `Users` and `Contracts` are finite and disjoint, since an
  address is twenty bytes; batches hold something.  `MaxHeight` is any number:
  the bound on the chain is not a bound on the result.
- `CampaignAssumption`: each momentum has a set of those who acted in it, flags
  are numbers; any number of runs at once, of runs, and of mishaps.
- `SettingsAssumption`: an amount is a sequence of characters, of any length; a
  token has any number of decimals up to a bound.

A property that says what should hold at the end of several steps is seldom
inductive.  The sections below say what each proof adds to it and why; each
has a lemma per action, or per effect that several actions share, and the
theorem puts them together.

### The sender: `SenderProofs`

`SenderInvariant`, `SenderTypeCorrect`, `AcknowledgedIsKept`
(`AcknowledgedStays`), `WaitIsEnough` (`WaitSuffices`).

That an acknowledged block stays depends on where the next one goes.
`SenderInv` adds that hashes rise along the chain (`HashesRise`), so a hash
names one height, and that a block in the making follows the block of
`lastHash` (`BuildsOnLast`), which is what the wait in `frontier` is for: then
even a node that displaces keeps all up to that block.

### The send loop and its journal: `AirdropProofs`, `AccountProofs`

`AirdropTypeCorrect`, `PayOnceInvariant`, `PayOnce` (`NoPayAfterRecord`),
`AccountInvariant`, `LapsesAreFew` (`OneLapsePerMishap`), `ReportIsRecorded`
(`SentIsRecorded`); on a node that refuses a block at a taken height
`AirdropKeepsPromise` (`KeepsPromise`), `NobodySkippedUnpaid`
(`NoLineWithoutSend`), `DoneIsPaid` (`DoneMeansPaid`).

`NoPayAfterRecord` is not inductive: that a send is safe depends on the draft,
on what the journal said when the invocation began, and on which block a line
is about.  `PayOnceInv` adds these.  `Drafted`: a block being built is for a
recipient whom the journal did not have.  `SnapshotHolds`: since it was read,
the journal gained only recipients before the current one, so not this one,
because a list names nobody twice.  `HashesGrow` and `LinesMatch`: a new block
has a hash no line has, and a line that has the hash of a block is about that
payment; so a new payment follows no recorded one.  `Acknowledged`: the line
written after a send is about the last block, and no later payment exists that
it could forbid.

`AirdropKeepsPromise` is the refinement of `Payout`, initial state and step
under `PayOnceInv`: an accepted send pays and opens an entry, or pays and
leaves none, a written line enters what is open, a failed write or a crash
loses it, everything else stutters.
That every entry of the book is a payment is an invariant of `Payout`, hence
`NobodySkippedUnpaid`.

`AccountInv` is about counts.  A lapse (a payment without a line) costs a
mishap, but an interrupt costs its mishap before the lapse it may cause:
`LapsesPaidFor` has that one in reserve (`ToCome`).  `NoneMissed` follows the
loop: as long as nothing failed, everyone before `i` is on record.

`AirdropUsesSender` shows that `Airdrop` is one of the callers `Sender`
describes, so every theorem of `SenderProofs` holds of it: `PaymentsAreKept` is
`AcknowledgedStays` there.

### The scan: `ScanProofs`

`ScanInvariant`, `ScanTypeCorrect`, `BatchesTile` (`FoundWhatActed`),
`FullAnswersFullRange` (`WholeRange`), `FlagsNameTheRange` (`RangeAsAsked`),
`RecipientsActed` (`RecipientsSound`), `VerificationReproduces`
(`LoggedScanReproduces`), `ContractBlocksAddUp` (`ContractsCounted`).

`ScanInv` adds where a scan is (`ScanSound`: a height in its range or just
after it, and at its end only if no answer was short), the contract blocks
counted in every phase and not just at the end (`CountSound`: a batch adds the
blocks of its momentums, which no earlier batch had), what a log is worth
(`LogSound`) and that a verification scans the range and the accounts of that
log (`VerifySound`).  That `Sorted` is well defined, which rests on finiteness,
is the lemma the list depends on.

### Invocations over days: `CampaignSteps`, `CampaignProofs`

`CampaignInvariant`, `CampaignTypeCorrect`, `OncePerAirdrop` (`PaidOncePerKey`),
`SameFlagsWithToResume` (`ClosedRangeResumes`), `ReplayNeverRepeats`
(`ReplayResumes`), `RepeatIsWarnedOf` (`WarnsBeforeRepeat`),
`WarningIsWarranted` (`NoFalseAlarm`), `SuccessIsComplete`
(`SuccessCoversList`), `LogIsTruthful` (`LogTellsWhatWasSent`),
`LoggedListIsReplayed` (`ReplayTakesLoggedList`, an action property).

What an invocation will pay depends on what it read, not on what the journal
has by now.  `LeftUnpaid` says that of two invocations of one airdrop that did
not overlap neither has left to pay whom the other has on record; it needs to
know who overlaps (two that send at once always do), that `recorded` is in the
journal (`RecordSound`) and that no line is from nowhere (`JournalSound`).
`CoveredSoFar` says of everyone no longer left that somebody paid them those
terms; `SuccessCoversList` is what remains at the end.  For replays,
`DigestKept` is why an edited log gives the approved list, everybody found or
none: its digests are still those of the scan and of the approved list.  That it
may give everybody found is `empty_filter`.  `ReplaySound` is
why the log's own run is among those the replay reads or is warned of, and
`RangeKept` why flags with `-to` name one range.  `StageSound` says what cannot
have happened yet in each phase.

### Amounts and settings: `AmountProofs`, `SettingsProofs`

`ParseIsExact`: for every text and every number of decimals, an amount that is
accepted is exactly what was typed, and one is refused only if no number of
smallest units above zero is.  `FormatReadsBack`: every amount above zero, as
it is displayed, is read as itself.

`Worth` is recursive, and a theorem about it needs induction.  The induction
theorems of the library take an operator as a parameter, which these provers
cannot instantiate; the proofs go by sets instead.  `NatInducts` says that a
set of numbers with 0, and with n + 1 for each n, has all of them (from
`WFMin`, which takes a set), and `StepsExist` that a function given step by
step exists.  On them rest what appending digits and zeros does to the worth
of a text, and so what padding and trimming preserve.

`SettingsInvariant`, `SettingsTypeCorrect`, `SettingsPrecedence` (`Precedence`),
`SendingIsAsked` (`NothingSentUnasked`), `KeyIsConfigured` (`KeyAsConfigured`),
`LogIsFollowed` (`ReplayFollowsLog`), `TypedAmountIsExact` (`AmountExact`, from
`ParseIsExact`), `DisplayIsSent` (`DisplayedIsSent`, from `FormatReadsBack`).
`SettingsInv` follows the values: what was given (`GivenSound`), what the
environment has after some lines of the file (`EnvSound`: the shell's, else the
first line's), what the options are once it is read (`OptsSound`), what is
chosen from them (`ChosenSound`) and when (`OutcomeSound`).

### Only model-checked

Liveness, which needs ENABLED and is out of the prover's reach: `CallReturns`,
`InvocationEnds`, `EventuallyPaid`, `ScanEnds`.  On a node that displaces,
`NoLineWithoutSend`, `DoneMeansPaid` and `KeepsPromise` are not claimed: there
the first fails, as said above.  The claims of the documentation that the code
does not keep have counterexamples, not proofs.

## What is not modelled

JSON, HTTP and formatting other than of amounts; the syntax of a `.env` line;
cryptography, key derivation and proof of work (`wallet.go` is library calls
without state); `-out` files; the names of log files; other writers of the
account.  `Airdrop` runs one invocation at a time on an exact journal;
`Campaign` has several at once on a journal that is always readable, and not
both at the same time.

## Plan

1. Done: Ledger, Sender, Journal, Airdrop with Payout; Scan; Campaign; Settings
   and Amount; their runs; and a proof of every safety property.
2. Left: shorter proofs where lemmas of `AmountProofs` and `CampaignSteps`
   overlap; that an invocation of `Campaign` is one of `Airdrop` at a coarser
   grain, and its scan one of `Scan`, which is argued above and not proved.
