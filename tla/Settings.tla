------------------------------ MODULE Settings ------------------------------
(***************************************************************************)
(* env.go, and what main.go and replay.go make of the settings: flags on   *)
(* the command line, the shell's environment, the lines of a .env file and *)
(* a log that is replayed or verified, down to the node that is asked, the *)
(* key that signs, the amount that goes on the wire and whether anything   *)
(* is sent at all.  A setting is called by its flag; the empty text is     *)
(* what a string flag that was not given holds.                            *)
(***************************************************************************)
EXTENDS Amount, FiniteSets

CONSTANTS
  Texts,        \* amounts as somebody may type them
  MaxDecimals,  \* bound: the decimals of a token
  MaxGiven      \* bound: flags, variables and lines in all

ASSUME SettingsAssumption ==
  /\ Texts \subseteq Seq(Character)
  /\ MaxDecimals \in Nat /\ MaxGiven \in Nat

VARIABLES
  mode,      \* "scan", or the log is to be replayed or verified
  text,      \* the amount where one is given
  decimals,  \* of the token
  log,       \* the node and the raw amount of the log, 0 if it has none
  flags,     \* the command line: what was given for each flag, or Unset
  shell,     \* the environment the process was started in
  file,      \* the lines of .env: a setting and its value
  line,      \* how many of them have been read
  env,       \* the environment of the process
  phase,     \* "given" until the program starts; "applied"; "ready"; "refused"
  opts,      \* the options, once they are applied
  chosen     \* what the run will do, once that is settled

input == <<mode, text, decimals, log, flags, shell, file>>
vars == <<input, line, env, phase, opts, chosen>>

Unset == "unset"
Empty == ""
DefaultNode == "localhost"

Booleans == {"confirm", "dry-run", "devnet"}
KeySources == {"devnet", "mnemonic-file", "mnemonic-env", "keystore", "mnemonic"}

\* The settings; "mnemonic" has no flag.  The values one may be given; as a
\* variable or in the file a truth value may be anything.
Settings == {"node", "amount", "password"} \union KeySources \union Booleans
Flags == Settings \ {"mnemonic"}
Junk == "junk"

Values(n) ==
  CASE n = "node" -> {DefaultNode, "public"}
    [] n = "amount" -> {"typed"}
    [] n = "password" -> {"secret", "other"}
    [] n = "keystore" -> {"wallet"}
    [] n \in Booleans -> {"true", "false"}
    [] OTHER -> {"phrase"}

Sayable(n) == Values(n) \union {Empty} \union (IF n \in Booleans THEN {Junk} ELSE {})

Default(n) ==
  CASE n = "node" -> DefaultNode
    [] n \in Booleans -> "false"
    [] OTHER -> Empty

Nothing == [node |-> Empty, amount |-> Refused, key |-> Empty, password |-> Empty,
            sending |-> FALSE]

\* How many flags, variables and lines were given.
Given == Cardinality({n \in Settings : flags[n] # Unset})
         + Cardinality({n \in Settings : shell[n] # Unset}) + Len(file)

Init ==
  /\ mode \in {"scan", "replay", "verify"}
  /\ text \in Texts /\ decimals \in 0 .. MaxDecimals
  /\ log \in [node : {"recorded"}, amount : {0, 25}]
  /\ flags = [n \in Settings |-> Unset] /\ shell = flags
  /\ file = <<>> /\ line = 0 /\ env = flags
  /\ phase = "given" /\ opts = [n \in Settings |-> Default(n)] /\ chosen = Nothing

-----------------------------------------------------------------------------
(* What the operator gives *)

\* flag.Parse exits at once on a truth value it cannot read.
GiveFlag(n, v) ==
  /\ flags[n] = Unset /\ n \in Flags /\ v # Junk
  /\ v = Empty => n \notin Booleans
  /\ flags' = [flags EXCEPT ![n] = v]
  /\ UNCHANGED <<shell, file>>

Export(n, v) ==
  /\ shell[n] = Unset
  /\ shell' = [shell EXCEPT ![n] = v]
  /\ UNCHANGED <<flags, file>>

AddLine(n, v) ==
  /\ file' = Append(file, [key |-> n, value |-> v])
  /\ UNCHANGED <<flags, shell>>

GiveOne(n, v) ==
  /\ phase = "given" /\ Given < MaxGiven
  /\ GiveFlag(n, v) \/ Export(n, v) \/ AddLine(n, v)
  /\ UNCHANGED <<mode, text, decimals, log, line, env, phase, opts, chosen>>

Give ==
  \E n \in Settings : \E v \in Sayable(n) : GiveOne(n, v)

\* run parses the flags and turns to the file, in the environment it was given.
Start ==
  /\ phase = "given"
  /\ phase' = "loading"
  /\ env' = shell
  /\ UNCHANGED <<input, line, opts, chosen>>

-----------------------------------------------------------------------------
(* LoadDotEnv and ApplyEnvDefaults *)

\* Mutant: an empty value in the environment gives way to the file.
LoadLineOverEmpty ==
  /\ phase = "loading" /\ line < Len(file)
  /\ line' = line + 1
  /\ env' = IF env[file[line + 1].key] \in {Unset, Empty}
            THEN [env EXCEPT ![file[line + 1].key] = file[line + 1].value] ELSE env
  /\ UNCHANGED <<input, phase, opts, chosen>>

LoadLine ==
  /\ phase = "loading" /\ line < Len(file)
  /\ line' = line + 1
  /\ env' = IF env[file[line + 1].key] = Unset
            THEN [env EXCEPT ![file[line + 1].key] = file[line + 1].value] ELSE env
  /\ UNCHANGED <<input, phase, opts, chosen>>

\* A line without an equals sign.
LoadFails ==
  /\ phase = "loading" /\ line < Len(file)
  /\ phase' = "refused"
  /\ UNCHANGED <<input, line, env, opts, chosen>>

\* Mutants: an empty variable sets the flag to nothing; a flag that was given
\* its default counts as not given.
AppliedEmpty(n) ==
  IF flags[n] # Unset THEN flags[n]
  ELSE IF n \in Flags /\ env[n] # Unset THEN env[n]
  ELSE Default(n)

AppliedUnlessDefault(n) ==
  IF flags[n] \notin {Unset, Default(n)} THEN flags[n]
  ELSE IF n \in Flags /\ env[n] \notin {Unset, Empty} THEN env[n]
  ELSE Default(n)

Applied(n) ==
  IF flags[n] # Unset THEN flags[n]
  ELSE IF n \in Flags /\ env[n] \notin {Unset, Empty} THEN env[n]
  ELSE Default(n)

ApplyEnvDefaults ==
  /\ phase = "loading" /\ line = Len(file)
  /\ IF \E n \in Settings : Applied(n) = Junk
     THEN phase' = "refused" /\ UNCHANGED opts
     ELSE phase' = "applied" /\ opts' = [n \in Settings |-> Applied(n)]
  /\ UNCHANGED <<input, line, env, chosen>>

-----------------------------------------------------------------------------
(* keySource, and what run, replayScan and verifyScan choose *)

Holds(n) == env[n] \notin {Unset, Empty}

\* Mutant: the phrase in the environment comes before the keystore.
KeyPhraseFirst ==
  IF opts["devnet"] = "true" THEN "devnet"
  ELSE IF opts["mnemonic-file"] # Empty THEN "mnemonic-file"
  ELSE IF opts["mnemonic-env"] # Empty THEN "mnemonic-env"
  ELSE IF Holds("mnemonic") THEN "mnemonic"
  ELSE IF opts["keystore"] # Empty THEN "keystore"
  ELSE Empty

\* The first source there is; a phrase in the environment comes last.
Key ==
  IF opts["devnet"] = "true" THEN "devnet"
  ELSE IF opts["mnemonic-file"] # Empty THEN "mnemonic-file"
  ELSE IF opts["mnemonic-env"] # Empty THEN "mnemonic-env"
  ELSE IF opts["keystore"] # Empty THEN "keystore"
  ELSE IF Holds("mnemonic") THEN "mnemonic"
  ELSE Empty

\* The environment's password, the file's included, beats the flag.
Password ==
  IF Holds("password") THEN env["password"] ELSE opts["password"]

Sending == opts["confirm"] = "true" /\ opts["dry-run"] # "true"

\* Mutant: the flag or its default, for a replay as for a scan.
NodeOfFlag == opts["node"]

\* A log's node gives way to a flag that is not the default.
Node ==
  IF mode = "scan" \/ opts["node"] # DefaultNode THEN opts["node"] ELSE log.node

AmountToSend ==
  IF opts["amount"] # Empty THEN ParseAmount(text, decimals)
  ELSE IF mode = "replay" THEN log.amount
  ELSE Refused

\* A source fails if it has no password, or cannot be read; that is passed over
\* unless something is to be sent.
Choose ==
  /\ phase = "applied" /\ mode # "verify"
  /\ \E readable \in BOOLEAN :
       LET found == /\ Key # Empty
                    /\ Key = "keystore" => Password # Empty
                    /\ Key \in {"mnemonic-file", "mnemonic-env"} => readable
       IN  /\ chosen' = [node |-> Node, amount |-> AmountToSend,
                         key |-> IF found THEN Key ELSE Empty,
                         password |-> IF found /\ Key = "keystore" THEN Password ELSE Empty,
                         sending |-> Sending]
           /\ phase' = IF \/ AmountToSend = Refused
                             /\ (mode = "replay" \/ Sending \/ opts["amount"] # Empty)
                          \/ Sending /\ ~found
                       THEN "refused" ELSE "ready"
  /\ UNCHANGED <<input, line, env, opts>>

ChooseToVerify ==
  /\ phase = "applied" /\ mode = "verify"
  /\ chosen' = [Nothing EXCEPT !.node = Node]
  /\ phase' = "ready"
  /\ UNCHANGED <<input, line, env, opts>>

Program ==
  \/ Start \/ LoadLine \/ LoadFails \/ ApplyEnvDefaults
  \/ Choose \/ ChooseToVerify

Next == Give \/ Program

Spec == Init /\ [][Next]_vars

-----------------------------------------------------------------------------

TypeOK ==
  /\ \A n \in Settings : opts[n] \in Values(n) \union {Default(n), Empty}
  /\ \A n \in Booleans : opts[n] \in {"true", "false"}
  /\ line \in 0 .. Len(file)
  /\ phase \in {"given", "loading", "applied", "ready", "refused"}
  /\ chosen.key \in KeySources \union {Empty} /\ chosen.amount \in Nat
  /\ chosen.sending \in BOOLEAN

\* What the shell and the file say of a setting: the shell if it says anything,
\* be it nothing, and otherwise the first line about it.
FromEnvironment(n) ==
  LET about == {k \in DOMAIN file : file[k].key = n}
  IN  IF shell[n] # Unset THEN shell[n]
      ELSE IF about = {} THEN Empty
      ELSE file[CHOOSE k \in about : \A l \in about : k <= l].value

\* What is said of a setting in the end.
Said(n) ==
  IF flags[n] # Unset THEN flags[n]
  ELSE IF FromEnvironment(n) # Empty THEN FromEnvironment(n)
  ELSE IF n \in Flags THEN Default(n)
  ELSE Empty

Decided == phase \in {"applied", "ready"}

\* A flag beats the shell, which beats the file, in which the first line wins;
\* an empty flag stands, and an empty variable hides the file and leaves the
\* default.
Precedence == Decided => \A n \in Flags : opts[n] = Said(n)

\* Nothing is sent if the command line says -confirm=false or -dry-run, whatever
\* the environment says, nor if no one has said confirm; the file does not count
\* where the shell says anything.
NothingSentUnasked ==
  phase = "ready" /\ chosen.sending =>
    /\ flags["confirm"] # "false" /\ flags["dry-run"] # "true"
    /\ \/ "true" \in {flags["confirm"], shell["confirm"]}
       \/ /\ shell["confirm"] = Unset
          /\ [key |-> "confirm", value |-> "true"] \in ToSet(file)
    /\ chosen.key # Empty /\ chosen.amount # Refused

\* The key that signs was configured; a phrase that only lies in the environment
\* displaces no other source; where one source alone is configured it is that
\* one; and the keystore is opened with a password that was given: which, if flag
\* and environment give two, is left open, since code and documentation differ.
Configured == {n \in KeySources : Said(n) \notin {Empty, "false"}}

KeyAsConfigured ==
  phase = "ready" /\ chosen.key # Empty =>
    /\ chosen.key \in Configured
    /\ chosen.key = "mnemonic" => Configured = {"mnemonic"}
    /\ chosen.key = "keystore" => chosen.password \in
         {flags["password"], FromEnvironment("password")} \ {Unset, Empty}

\* A replay or verification about whose node nothing was said asks the log's,
\* and one told another node asks that; a replay about whose amount nothing was
\* said sends the log's, to the unit.
Unsaid(n) ==
  flags[n] = Unset /\ shell[n] = Unset /\ \A k \in DOMAIN file : file[k].key # n

ReplayFollowsLog ==
  phase = "ready" /\ mode # "scan" =>
    /\ Unsaid("node") => chosen.node = log.node
    /\ flags["node"] \notin {Unset, DefaultNode} => chosen.node = flags["node"]
    /\ mode = "replay" /\ Unsaid("amount") => chosen.amount = log.amount

-----------------------------------------------------------------------------
(* Why all this holds: the inductive invariant *)

Line == UNION {[key : {n}, value : Sayable(n)] : n \in Settings}

GivenSound ==
  /\ mode \in {"scan", "replay", "verify"} /\ text \in Texts /\ decimals \in 0 .. MaxDecimals
  /\ log.amount \in Nat
  /\ DOMAIN flags = Settings /\ DOMAIN shell = Settings
  /\ \A n \in Settings :
       /\ flags[n] \in Values(n) \union {Empty, Unset}
       /\ flags[n] = Empty => n \notin Booleans
       /\ flags[n] # Unset => n \in Flags
       /\ shell[n] \in Sayable(n) \union {Unset}
  /\ file \in Seq(Line)

\* Of what the shell leaves open, the first of the lines read so far stands.
FirstSaid(n, value) ==
  IF shell[n] # Unset THEN value = shell[n]
  ELSE \/ value = Unset /\ \A k \in 1 .. line : file[k].key # n
       \/ \E k \in 1 .. line : /\ file[k].key = n /\ value = file[k].value
                               /\ \A l \in 1 .. k - 1 : file[l].key # n

EnvSound ==
  /\ line \in 0 .. Len(file)
  /\ phase = "given" => line = 0
  /\ phase # "given" =>
       DOMAIN env = Settings /\ \A n \in Settings : FirstSaid(n, env[n])

\* The options are settled once the whole file is read.
OptsSound ==
  Decided => line = Len(file) /\ \A n \in Settings : opts[n] = Applied(n) /\ opts[n] # Junk

ChosenSound ==
  /\ phase = "ready" => chosen.node = Node
  /\ phase = "ready" /\ mode = "verify" => chosen.key = Empty /\ ~chosen.sending
  /\ phase = "ready" /\ mode # "verify" =>
       /\ chosen.amount = AmountToSend
       /\ chosen.key \in {Key, Empty}
       /\ chosen.key = "keystore" => chosen.password = Password /\ Password # Empty
       /\ chosen.sending => Sending /\ chosen.key # Empty /\ chosen.amount # Refused

\* Nothing is chosen before the options are, and a run that was refused had not
\* turned to its amount or had read it.
OutcomeSound ==
  /\ phase \in {"given", "loading", "applied"} => chosen = Nothing
  /\ phase \in {"given", "loading"} => opts = [n \in Settings |-> Default(n)]
  /\ phase = "refused" => \/ chosen = Nothing /\ opts["amount"] = Empty
                          \/ chosen.amount = AmountToSend

SettingsInv == GivenSound /\ EnvSound /\ OptsSound /\ ChosenSound /\ OutcomeSound

-----------------------------------------------------------------------------
(* What is sent: the number of smallest units *)

\* A typed amount comes to exactly what was typed, or is refused, and is refused
\* only if no number of smallest units above zero is exactly that.
AmountExact ==
  phase \in {"ready", "refused"} /\ opts["amount"] = "typed" /\ mode # "verify" =>
    IF chosen.amount # Refused THEN IsWorth(chosen.amount, text, decimals)
    ELSE ~ /\ WellFormed(text)
           /\ Mantissa(text) > 0
           /\ (Mantissa(text) * TenTo(decimals)) % TenTo(Places(text)) = 0

\* The amount as it is displayed, and logged beside the raw one, read again is
\* the amount that is sent.
DisplayedIsSent ==
  chosen.amount # Refused =>
    ParseAmount(FormatAmount(chosen.amount, decimals), decimals) = chosen.amount
=============================================================================
