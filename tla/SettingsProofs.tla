--------------------------- MODULE SettingsProofs ---------------------------
(***************************************************************************)
(* Theorems about the settings, for any number of flags, variables and     *)
(* lines of a .env file, given in any order, and any amount.               *)
(***************************************************************************)
EXTENDS Settings, AmountProofs

\* What the provers need to know of the words a setting may be given.
LEMMA Words ==
  ASSUME NEW n \in Settings
  PROVE  /\ Unset \notin Sayable(n) /\ Unset \notin Values(n) /\ Empty \notin Values(n)
         /\ Values(n) \subseteq Sayable(n) /\ Empty \in Sayable(n)
         /\ n \notin Booleans => Junk \notin Sayable(n)
         /\ n \in Booleans => Values(n) = {"true", "false"} /\ Junk \notin Values(n)
         /\ n \notin Booleans => "false" \notin Values(n)
         /\ Default(n) # Junk /\ Default(n) # Unset
         /\ n \in Booleans => Default(n) = "false"
         /\ n \notin Booleans /\ n # "node" => Default(n) = Empty
         /\ n = "node" => Default(n) = DefaultNode
  <1>1. CASE n \in Booleans
    BY <1>1 DEF Sayable, Values, Default, Settings, Booleans, Unset, Empty, Junk, DefaultNode
  <1>2. CASE n \notin Booleans
    BY <1>2 DEF Sayable, Values, Default, Settings, KeySources, Unset, Empty, Junk, DefaultNode
  <1>3. QED
    BY <1>1, <1>2

LEMMA LineOfFile ==
  ASSUME GivenSound
  PROVE  /\ Len(file) \in Nat /\ DOMAIN file = 1 .. Len(file)
         /\ \A k \in DOMAIN file :
              file[k].key \in Settings /\ file[k].value \in Sayable(file[k].key)
  <1>1. file \in Seq(Line)
    BY DEF GivenSound
  <1>2. Len(file) \in Nat /\ DOMAIN file = 1 .. Len(file)
        /\ \A k \in DOMAIN file : file[k] \in Line
    BY <1>1, ElementOfSeq, LenProperties
  <1>3. QED
    BY <1>2 DEF Line

-----------------------------------------------------------------------------
(* The inductive invariant. *)

LEMMA GiveKeepsInput ==
  ASSUME GivenSound, NEW n \in Settings, NEW v \in Sayable(n), GiveOne(n, v)
  PROVE  GivenSound'
  <1>1. UNCHANGED <<mode, text, decimals, log>> /\ (GiveFlag(n, v) \/ Export(n, v) \/ AddLine(n, v))
    BY DEF GiveOne
  <1>2. CASE GiveFlag(n, v)
    <2>1. v \in Values(n) \union {Empty} /\ n \in Flags /\ (v = Empty => n \notin Booleans)
      BY <1>2 DEF GiveFlag, Sayable
    <2>2. flags' = [flags EXCEPT ![n] = v] /\ shell' = shell /\ file' = file
      BY <1>2 DEF GiveFlag
    <2>3. QED
      BY <1>1, <2>1, <2>2 DEF GivenSound
  <1>3. CASE Export(n, v)
    BY <1>1, <1>3 DEF GivenSound, Export
  <1>4. CASE AddLine(n, v)
    <2>1. PICK l : l = [key |-> n, value |-> v]
      OBVIOUS
    <2>2. l \in Line
      BY <2>1 DEF Line
    <2>3. file \in Seq(Line) /\ file' = Append(file, l)
      BY <1>4, <2>1 DEF GivenSound, AddLine
    <2>4. file' \in Seq(Line)
      BY <2>2, <2>3, AppendProperties
    <2>5. QED
      BY <1>1, <1>4, <2>4 DEF GivenSound, AddLine
  <1>5. QED
    BY <1>1, <1>2, <1>3, <1>4

LEMMA OutcomeStep ==
  ASSUME OutcomeSound, [Next]_vars
  PROVE  OutcomeSound'
  <1>1. Default("amount") = Empty /\ "amount" \in Settings
    BY DEF Default, Booleans, Settings
  <1>2. (UNCHANGED input /\ UNCHANGED <<opts, phase>>) \/ (UNCHANGED input /\ opts' = opts)
          => AmountToSend' = AmountToSend
    BY DEF AmountToSend, input
  <1>3. CASE Give
    <2>1. phase = "given" /\ UNCHANGED <<phase, opts, chosen>>
      BY <1>3 DEF Give, GiveOne
    <2>2. QED
      BY <2>1 DEF OutcomeSound
  <1>4. CASE UNCHANGED vars
    <2>1. UNCHANGED input /\ UNCHANGED <<phase, opts, chosen>>
      BY <1>4 DEF vars
    <2>2. QED
      BY <1>2, <2>1 DEF OutcomeSound
  <1>5. CASE Start \/ LoadLine
    <2>1. phase \in {"given", "loading"} /\ phase' = "loading" /\ UNCHANGED <<opts, chosen>>
      BY <1>5 DEF Start, LoadLine
    <2>2. QED
      BY <2>1 DEF OutcomeSound
  <1>6. CASE LoadFails
    <2>1. phase = "loading" /\ phase' = "refused" /\ UNCHANGED <<opts, chosen>>
      BY <1>6 DEF LoadFails
    <2>2. QED
      BY <1>1, <2>1 DEF OutcomeSound
  <1>7. CASE ApplyEnvDefaults
    <2>1. /\ phase = "loading" /\ chosen' = chosen
          /\ phase' = "applied" \/ (phase' = "refused" /\ opts' = opts)
      BY <1>7 DEF ApplyEnvDefaults
    <2>2. QED
      BY <1>1, <2>1 DEF OutcomeSound
  <1>8. CASE Choose
    <2>1. /\ chosen'.amount = AmountToSend /\ phase' \in {"refused", "ready"}
          /\ UNCHANGED input /\ opts' = opts
      BY <1>8 DEF Choose
    <2>2. QED
      BY <1>2, <2>1 DEF OutcomeSound
  <1>9. CASE ChooseToVerify
    BY <1>9 DEF ChooseToVerify, OutcomeSound
  <1>10. QED
    BY <1>3, <1>4, <1>5, <1>6, <1>7, <1>8, <1>9 DEF Next, Program

LEMMA GiveStep ==
  ASSUME SettingsInv, Give
  PROVE  SettingsInv'
  <1>1. PICK n \in Settings : \E v \in Sayable(n) : GiveOne(n, v)
    BY DEF Give
  <1>2. PICK v \in Sayable(n) : GiveOne(n, v)
    BY <1>1
  <1>3. phase = "given" /\ phase' = "given" /\ line' = line
    BY <1>2 DEF GiveOne
  <1>4. GivenSound'
    BY <1>2, GiveKeepsInput DEF SettingsInv
  <1>5. EnvSound'
    <2>1. line = 0
      BY <1>3 DEF SettingsInv, EnvSound
    <2>2. Len(file') \in Nat
      BY <1>4, LenProperties DEF GivenSound
    <2>3. QED
      BY <1>3, <2>1, <2>2 DEF EnvSound
  <1>6. QED
    BY <1>3, <1>4, <1>5, OutcomeStep DEF SettingsInv, OptsSound, ChosenSound, Decided, Next

LEMMA InputKept ==
  ASSUME GivenSound, UNCHANGED input
  PROVE  GivenSound'
  BY DEF GivenSound, input

LEMMA LoadLineStep ==
  ASSUME GivenSound, EnvSound, LoadLine
  PROVE  EnvSound'
  <1>1. /\ phase = "loading" /\ line < Len(file) /\ line' = line + 1 /\ line \in Nat
        /\ shell' = shell /\ file' = file /\ phase' = phase
    BY LineOfFile DEF LoadLine, input, EnvSound
  <1>2. PICK l \in Nat : l = line + 1 /\ l \in DOMAIN file
    BY <1>1, LineOfFile
  <1>3. PICK m \in Settings : m = file[l].key /\ file[l].value \in Sayable(m)
    BY <1>2, LineOfFile
  <1>4. PICK v \in Sayable(m) : v = file[l].value
    BY <1>3
  <1>5. env' = IF env[m] = Unset THEN [env EXCEPT ![m] = v] ELSE env
    BY <1>2, <1>3, <1>4 DEF LoadLine
  <1>6. DOMAIN env = Settings /\ DOMAIN env' = Settings
    BY <1>1, <1>5 DEF EnvSound
  <1>7. line' = l /\ 1 .. l = (1 .. line) \union {l} /\ 1 .. l - 1 = 1 .. line
    BY <1>1, <1>2
  <1>8. ASSUME NEW n \in Settings
        PROVE  FirstSaid(n, env[n])'
    <2>1. FirstSaid(n, env[n])
      BY <1>1 DEF EnvSound
    <2>2. CASE shell[n] # Unset
      <3>1. env[n] = shell[n]
        BY <2>1, <2>2 DEF FirstSaid
      <3>2. env'[n] = shell[n]
        BY <1>5, <1>6, <2>2, <3>1
      <3>3. QED
        BY <1>1, <2>2, <3>2 DEF FirstSaid
    <2>3. CASE shell[n] = Unset /\ env[n] = Unset
      <3>1. \A k \in 1 .. line : file[k].key # n
        <4>1. ASSUME NEW k \in 1 .. line, file[k].key = n, env[n] = file[k].value
              PROVE  FALSE
          <5>1. k \in DOMAIN file
            BY <1>1, <4>1, LineOfFile
          <5>2. Unset \in Sayable(n)
            BY <2>3, <4>1, <5>1, LineOfFile
          <5>3. QED
            BY <5>2, Words
        <4>2. QED
          BY <2>1, <2>3, <4>1 DEF FirstSaid
      <3>2. CASE n = m
        <4>1. env'[n] = v
          BY <1>5, <1>6, <2>3, <3>2
        <4>2. l \in 1 .. l /\ file[l].key = n /\ env'[n] = file[l].value
          BY <1>2, <1>3, <1>4, <1>7, <3>2, <4>1
        <4>3. \A k \in 1 .. l - 1 : file[k].key # n
          BY <1>7, <3>1
        <4>4. QED
          BY <1>1, <1>7, <2>3, <4>2, <4>3 DEF FirstSaid
      <3>3. CASE n # m
        <4>1. env'[n] = Unset /\ \A k \in 1 .. l : file[k].key # n
          BY <1>3, <1>5, <1>6, <1>7, <2>3, <3>1, <3>3
        <4>2. QED
          BY <1>1, <1>7, <2>3, <4>1 DEF FirstSaid
      <3>4. QED
        BY <3>2, <3>3
    <2>4. CASE shell[n] = Unset /\ env[n] # Unset
      <3>1. env'[n] = env[n]
        BY <1>5, <1>6, <2>4
      <3>2. PICK k \in 1 .. line : /\ file[k].key = n /\ env[n] = file[k].value
                                   /\ \A j \in 1 .. k - 1 : file[j].key # n
        BY <2>1, <2>4 DEF FirstSaid
      <3>3. k \in 1 .. l
        BY <1>7
      <3>4. QED
        BY <1>1, <1>7, <2>4, <3>1, <3>2, <3>3 DEF FirstSaid
    <2>5. QED
      BY <2>2, <2>3, <2>4
  <1>9. line' \in 0 .. Len(file')
    BY <1>1, LineOfFile
  <1>10. QED
    BY <1>1, <1>6, <1>8, <1>9 DEF EnvSound

LEMMA SettingsInit ==
  ASSUME Init
  PROVE  SettingsInv
  <1>1. /\ flags = [n \in Settings |-> Unset] /\ shell = flags /\ file = <<>> /\ line = 0
        /\ phase = "given" /\ log.amount \in Nat
        /\ mode \in {"scan", "replay", "verify"} /\ text \in Texts /\ decimals \in 0 .. MaxDecimals
    BY DEF Init
  <1>2. file \in Seq(Line) /\ Len(file) = 0
    BY <1>1, EmptySeq
  <1>3. GivenSound
    BY <1>1, <1>2 DEF GivenSound, Unset, Empty
  <1>4. EnvSound
    BY <1>1, <1>2 DEF EnvSound
  <1>5. OutcomeSound
    BY <1>1 DEF Init, OutcomeSound
  <1>6. QED
    BY <1>1, <1>3, <1>4, <1>5 DEF SettingsInv, OptsSound, ChosenSound, Decided

\* The rest of the program leaves the environment and what was given alone.
LEMMA EnvKept ==
  ASSUME EnvSound, UNCHANGED input, UNCHANGED <<line, env>>,
         phase # "given" /\ phase' # "given"
  PROVE  EnvSound'
  BY DEF EnvSound, FirstSaid, input

LEMMA SettingsStep ==
  ASSUME SettingsInv, [Next]_vars
  PROVE  SettingsInv'
  <1>0. GivenSound /\ EnvSound /\ OptsSound /\ ChosenSound /\ OutcomeSound'
    BY OutcomeStep DEF SettingsInv
  <1>1. CASE Give
    BY <1>1, GiveStep
  <1>2. CASE UNCHANGED vars
    <2>1. UNCHANGED input /\ UNCHANGED <<line, env, phase, opts, chosen>>
      BY <1>2 DEF vars
    <2>2. GivenSound' /\ EnvSound'
      BY <1>0, <2>1, InputKept DEF EnvSound, FirstSaid, input
    <2>3. OptsSound' /\ ChosenSound'
      BY <1>0, <2>1
         DEF OptsSound, ChosenSound, Decided, Applied, Node, AmountToSend, Key, Password,
             Holds, Sending, input
    <2>4. QED
      BY <1>0, <2>2, <2>3 DEF SettingsInv
  <1>3. CASE Start
    <2>1. UNCHANGED input /\ env' = shell /\ line' = line /\ phase = "given" /\ phase' = "loading"
      BY <1>3 DEF Start
    <2>2. line = 0 /\ \A n \in Settings : FirstSaid(n, env[n])'
      BY <1>0, <2>1 DEF EnvSound, FirstSaid, input
    <2>3. EnvSound'
      BY <1>0, <2>1, <2>2 DEF EnvSound, GivenSound, input
    <2>4. QED
      BY <1>0, <2>1, <2>3, InputKept DEF SettingsInv, OptsSound, ChosenSound, Decided
  <1>4. CASE LoadLine
    <2>1. UNCHANGED input /\ phase = "loading" /\ phase' = "loading"
      BY <1>4 DEF LoadLine
    <2>2. QED
      BY <1>0, <1>4, <2>1, InputKept, LoadLineStep
         DEF SettingsInv, OptsSound, ChosenSound, Decided
  <1>5. CASE LoadFails
    <2>1. /\ UNCHANGED input /\ UNCHANGED <<line, env>>
          /\ phase = "loading" /\ phase' = "refused"
      BY <1>5 DEF LoadFails
    <2>2. QED
      BY <1>0, <2>1, InputKept, EnvKept DEF SettingsInv, OptsSound, ChosenSound, Decided
  <1>6. CASE ApplyEnvDefaults
    <2>1. /\ UNCHANGED input /\ UNCHANGED <<line, env>> /\ line = Len(file)
          /\ phase = "loading" /\ phase' \in {"refused", "applied"}
      BY <1>6 DEF ApplyEnvDefaults
    <2>2. phase' = "applied" => /\ opts' = [n \in Settings |-> Applied(n)]
                                /\ \A n \in Settings : Applied(n) # Junk
      BY <1>6 DEF ApplyEnvDefaults
    <2>3. \A n : Applied(n)' = Applied(n)
      BY <2>1 DEF Applied, input
    <2>4. OptsSound'
      BY <2>1, <2>2, <2>3 DEF OptsSound, Decided, input
    <2>5. QED
      BY <1>0, <2>1, <2>4, InputKept, EnvKept DEF SettingsInv, ChosenSound
  <1>7. CASE Choose \/ ChooseToVerify
    <2>1. /\ UNCHANGED input /\ UNCHANGED <<line, env, opts>>
          /\ phase = "applied" /\ phase' \in {"refused", "ready"}
      BY <1>7 DEF Choose, ChooseToVerify
    <2>2. /\ \A n : Applied(n)' = Applied(n)
          /\ Node' = Node /\ AmountToSend' = AmountToSend /\ Key' = Key
          /\ Password' = Password /\ Sending' = Sending /\ mode' = mode
      BY <2>1 DEF Applied, Node, AmountToSend, Key, Password, Holds, Sending, input
    <2>3. OptsSound'
      BY <1>0, <2>1, <2>2 DEF OptsSound, Decided, input
    <2>4. ChosenSound'
      <3>1. CASE Choose
        <4>1. PICK readable \in BOOLEAN :
                LET found == /\ Key # Empty
                             /\ Key = "keystore" => Password # Empty
                             /\ Key \in {"mnemonic-file", "mnemonic-env"} => readable
                IN  /\ chosen' = [node |-> Node, amount |-> AmountToSend,
                                  key |-> IF found THEN Key ELSE Empty,
                                  password |-> IF found /\ Key = "keystore" THEN Password ELSE Empty,
                                  sending |-> Sending]
                    /\ phase' = IF \/ AmountToSend = Refused
                                      /\ (mode = "replay" \/ Sending \/ opts["amount"] # Empty)
                                   \/ Sending /\ ~found
                                THEN "refused" ELSE "ready"
          BY <3>1 DEF Choose
        <4>2. PICK found \in BOOLEAN :
                /\ found => Key # Empty /\ (Key = "keystore" => Password # Empty)
                /\ chosen' = [node |-> Node, amount |-> AmountToSend,
                              key |-> IF found THEN Key ELSE Empty,
                              password |-> IF found /\ Key = "keystore" THEN Password ELSE Empty,
                              sending |-> Sending]
                /\ phase' = "ready" /\ Sending => found /\ AmountToSend # Refused
          BY <4>1
        <4>3. /\ chosen'.node = Node /\ chosen'.amount = AmountToSend
              /\ chosen'.key = IF found THEN Key ELSE Empty
              /\ chosen'.password = IF found /\ Key = "keystore" THEN Password ELSE Empty
              /\ chosen'.sending = Sending
          BY <4>2
        <4>4. mode' # "verify" /\ Empty # "keystore"
          BY <2>2, <3>1 DEF Choose, Empty
        <4>5. QED
          BY <2>2, <4>2, <4>3, <4>4 DEF ChosenSound
      <3>2. CASE ChooseToVerify
        <4>1. /\ chosen' = [Nothing EXCEPT !.node = Node] /\ mode' = "verify"
          BY <2>2, <3>2 DEF ChooseToVerify
        <4>2. chosen'.node = Node /\ chosen'.key = Empty /\ ~chosen'.sending
          BY <4>1 DEF Nothing
        <4>3. QED
          BY <2>2, <4>1, <4>2 DEF ChosenSound
      <3>3. QED
        BY <1>7, <3>1, <3>2
    <2>5. QED
      BY <1>0, <2>1, <2>3, <2>4, InputKept, EnvKept DEF SettingsInv
  <1>8. QED
    BY <1>1, <1>2, <1>3, <1>4, <1>5, <1>6, <1>7 DEF Next, Program

\* The inductive invariant holds throughout.
THEOREM SettingsInvariant == Spec => []SettingsInv
  <1>1. Init => SettingsInv
    BY SettingsInit
  <1>2. SettingsInv /\ [Next]_vars => SettingsInv'
    BY SettingsStep
  <1>3. QED
    BY <1>1, <1>2, PTL DEF Spec

-----------------------------------------------------------------------------
(* What follows from it. *)

\* Once the file is read, the environment is what the shell and the file say.
LEMMA EnvironmentIsRead ==
  ASSUME GivenSound, EnvSound, phase # "given", line = Len(file), NEW n \in Settings
  PROVE  FromEnvironment(n) = IF env[n] = Unset THEN Empty ELSE env[n]
  <1> DEFINE about == {k \in DOMAIN file : file[k].key = n}
  <1>1. FirstSaid(n, env[n]) /\ DOMAIN file = 1 .. line
        /\ shell[n] \in Sayable(n) \union {Unset}
    BY LineOfFile DEF EnvSound, GivenSound
  <1>2. CASE shell[n] # Unset
    BY <1>1, <1>2 DEF FromEnvironment, FirstSaid
  <1>3. CASE shell[n] = Unset /\ \A k \in 1 .. line : file[k].key # n
    <2>1. about = {}
      BY <1>1, <1>3
    <2>2. env[n] = Unset
      BY <1>1, <1>3 DEF FirstSaid
    <2>3. QED
      BY <1>3, <2>1, <2>2 DEF FromEnvironment
  <1>4. CASE shell[n] = Unset /\ \E k \in 1 .. line : file[k].key = n
    <2>1. PICK k \in 1 .. line : /\ file[k].key = n /\ env[n] = file[k].value
                                 /\ \A l \in 1 .. k - 1 : file[l].key # n
      BY <1>1, <1>4 DEF FirstSaid
    <2>2. line \in Nat /\ about \subseteq 1 .. line /\ k \in about
      BY <1>1, <2>1, LineOfFile
    <2>3. \A l \in about : k <= l
      BY <2>1, <2>2
    <2>4. (CHOOSE j \in about : \A l \in about : j <= l) = k
      <3>1. PICK j : j = CHOOSE x \in about : \A l \in about : x <= l
        OBVIOUS
      <3>2. j \in about /\ \A l \in about : j <= l
        BY <2>2, <2>3, <3>1
      <3>3. j <= k /\ k <= j /\ j \in Nat /\ k \in Nat
        BY <2>2, <2>3, <3>2
      <3>4. QED
        BY <3>1, <3>3
    <2>5. FromEnvironment(n) = file[k].value
      BY <1>4, <2>2, <2>4 DEF FromEnvironment
    <2>6. file[k].value \in Sayable(n)
      BY <1>1, <2>1, LineOfFile
    <2>7. QED
      BY <2>1, <2>5, <2>6, Words
  <1>5. QED
    BY <1>2, <1>3, <1>4

\* Once the options are settled, they are what was said in the end; the phrase,
\* which is no option, is what the environment holds.
LEMMA SettledAsSaid ==
  ASSUME SettingsInv, Decided, NEW n \in Settings
  PROVE  /\ n \in Flags => opts[n] = Said(n)
         /\ n = "mnemonic" => Said(n) = IF Holds(n) THEN env[n] ELSE Empty
         /\ opts[n] # Junk
         /\ Said(n) \in Sayable(n) \union {Default(n)}
  <1>1. GivenSound /\ EnvSound /\ phase # "given" /\ line = Len(file)
        /\ opts[n] = Applied(n) /\ opts[n] # Junk
    BY DEF SettingsInv, Decided, OptsSound
  <1>2. FromEnvironment(n) = IF env[n] = Unset THEN Empty ELSE env[n]
    BY <1>1, EnvironmentIsRead
  <1>3. Unset # Empty
    BY DEF Unset, Empty
  <1>4. n \in Flags => opts[n] = Said(n)
    BY <1>1, <1>2, <1>3 DEF Applied, Said
  <1>5. flags[n] # Unset => n \in Flags /\ flags[n] \in Sayable(n)
    BY <1>1, Words DEF GivenSound
  <1>6. n = "mnemonic" => n \notin Flags /\ flags[n] = Unset
    BY <1>5 DEF Flags
  <1>7. n = "mnemonic" => Said(n) = IF Holds(n) THEN env[n] ELSE Empty
    BY <1>2, <1>3, <1>6 DEF Said, Holds
  <1>8. env[n] # Unset => env[n] \in Sayable(n)
    <2>1. FirstSaid(n, env[n]) /\ DOMAIN file = 1 .. line
          /\ shell[n] \in Sayable(n) \union {Unset}
      BY <1>1, LineOfFile DEF EnvSound, GivenSound
    <2>2. QED
      BY <1>1, <2>1, LineOfFile DEF FirstSaid
  <1>9. Said(n) \in Sayable(n) \union {Default(n)}
    BY <1>2, <1>5, <1>8, Words DEF Said
  <1>10. QED
    BY <1>1, <1>4, <1>7, <1>9

\* A flag beats the shell, the shell the file, and in the file the first line
\* wins; an empty variable hides the file and leaves the default.
THEOREM SettingsPrecedence == Spec => []Precedence
  <1>1. SettingsInv => Precedence
    BY SettledAsSaid DEF Precedence, Flags
  <1>2. QED
    BY <1>1, SettingsInvariant, PTL

\* A truth value that is decided is one of the two.
LEMMA TruthValues ==
  ASSUME SettingsInv, Decided, NEW n \in Booleans
  PROVE  n \in Flags /\ opts[n] \in {"true", "false"}
  <1>1. n \in Settings /\ n \in Flags
    BY DEF Settings, Flags, Booleans
  <1>2. opts[n] = Applied(n) /\ opts[n] # Junk /\ opts[n] \in Sayable(n) \union {Default(n)}
    BY <1>1, SettledAsSaid DEF SettingsInv, OptsSound
  <1>3. Sayable(n) = {"true", "false", Empty, Junk} /\ Default(n) = "false"
    BY <1>1, Words DEF Sayable
  <1>4. opts[n] # Empty
    <2>1. flags[n] # Empty
      BY <1>1 DEF SettingsInv, GivenSound
    <2>2. QED
      BY <1>2, <1>3, <2>1 DEF Applied, Empty
  <1>5. QED
    BY <1>1, <1>2, <1>3, <1>4

\* Nothing is sent if the command line says not to, whatever the environment
\* says, nor unless somebody said to, nor without a key and an amount.
THEOREM SendingIsAsked == Spec => []NothingSentUnasked
  <1>1. SettingsInv => NothingSentUnasked
    <2>1. SUFFICES ASSUME SettingsInv, phase = "ready", chosen.sending
                   PROVE  /\ flags["confirm"] # "false" /\ flags["dry-run"] # "true"
                          /\ \/ "true" \in {flags["confirm"], shell["confirm"]}
                             \/ /\ shell["confirm"] = Unset
                                /\ [key |-> "confirm", value |-> "true"] \in ToSet(file)
                          /\ chosen.key # Empty /\ chosen.amount # Refused
      BY DEF NothingSentUnasked
    <2>2. GivenSound /\ EnvSound /\ Decided /\ line = Len(file)
      BY <2>1 DEF SettingsInv, OptsSound, Decided
    <2>3. Sending /\ chosen.key # Empty /\ chosen.amount # Refused
      BY <2>1 DEF SettingsInv, ChosenSound
    <2>4. {"confirm", "dry-run"} \subseteq Settings
      BY DEF Settings, Booleans
    <2>5. opts["confirm"] = Applied("confirm") /\ opts["dry-run"] = Applied("dry-run")
      BY <2>1, <2>2, <2>4 DEF SettingsInv, OptsSound
    <2>6. Applied("confirm") = "true" /\ Applied("dry-run") # "true"
      BY <2>3, <2>5 DEF Sending
    <2>7. flags["confirm"] # "false" /\ flags["dry-run"] # "true"
      BY <2>6 DEF Applied, Unset
    <2>8. CASE flags["confirm"] = "true" \/ shell["confirm"] = "true"
      BY <2>3, <2>7, <2>8
    <2>9. CASE flags["confirm"] # "true" /\ shell["confirm"] # "true"
      <3>1. env["confirm"] = "true"
        BY <2>6, <2>9 DEF Applied, Default, Booleans
      <3>2. FirstSaid("confirm", env["confirm"]) /\ DOMAIN file = 1 .. line
        BY <2>1, <2>2, <2>4, LineOfFile DEF EnvSound
      <3>3. /\ shell["confirm"] = Unset
            /\ \E k \in DOMAIN file : file[k].key = "confirm" /\ file[k].value = "true"
        BY <2>9, <3>1, <3>2 DEF FirstSaid, Unset
      <3> PICK k \in DOMAIN file : file[k].key = "confirm" /\ file[k].value = "true"
        BY <3>3
      <3>4. file[k] \in Line
        BY <2>2, ElementOfSeq, LenProperties DEF GivenSound
      <3>5. file[k] = [key |-> "confirm", value |-> "true"]
        BY <3>4 DEF Line
      <3>6. file[k] \in ToSet(file)
        BY DEF ToSet
      <3>7. QED
        BY <2>3, <2>7, <3>3, <3>5, <3>6
    <2>10. QED
      BY <2>8, <2>9
  <1>2. QED
    BY <1>1, SettingsInvariant, PTL

\* What the options say of the sources of a key.
LEMMA Sources ==
  ASSUME SettingsInv, Decided
  PROVE  /\ "devnet" \in Configured <=> opts["devnet"] = "true"
         /\ \A n \in {"mnemonic-file", "mnemonic-env", "keystore"} :
              n \in Configured <=> opts[n] # Empty
         /\ "mnemonic" \in Configured <=> Holds("mnemonic")
  <1>1. KeySources \subseteq Settings /\ KeySources \ {"mnemonic"} \subseteq Flags
    BY DEF KeySources, Settings, Flags
  <1>2. "devnet" \in Configured <=> opts["devnet"] = "true"
    BY <1>1, SettledAsSaid, TruthValues DEF Configured, KeySources, Booleans, Empty
  <1>3. \A n \in KeySources \ {"devnet"} : Said(n) # "false"
    <2>1. SUFFICES ASSUME NEW n \in KeySources \ {"devnet"}
                   PROVE  Said(n) # "false"
      OBVIOUS
    <2>2. n \in Settings /\ n \notin Booleans /\ n # "node"
      BY <1>1 DEF KeySources, Booleans
    <2>3. Said(n) \in Sayable(n) \union {Default(n)} /\ Default(n) = Empty
      BY <2>2, SettledAsSaid, Words
    <2>4. Sayable(n) = Values(n) \union {Empty} /\ "false" \notin Values(n)
      BY <2>2, Words DEF Sayable
    <2>5. QED
      BY <2>3, <2>4 DEF Empty
  <1>4. \A n \in {"mnemonic-file", "mnemonic-env", "keystore"} :
          n \in Configured <=> opts[n] # Empty
    BY <1>1, <1>3, SettledAsSaid DEF Configured, KeySources
  <1>5. "mnemonic" \in Configured <=> Holds("mnemonic")
    BY <1>1, <1>3, SettledAsSaid DEF Configured, KeySources, Holds
  <1>6. QED
    BY <1>2, <1>4, <1>5

\* The key that signs was configured, and a phrase that only lies in the
\* environment displaces no other; the password that opens the keystore is one
\* that flag or environment gave.
THEOREM KeyIsConfigured == Spec => []KeyAsConfigured
  <1>1. SettingsInv => KeyAsConfigured
    <2>1. SUFFICES ASSUME SettingsInv, phase = "ready", chosen.key # Empty
                   PROVE  /\ chosen.key \in Configured
                          /\ chosen.key = "mnemonic" => Configured = {"mnemonic"}
                          /\ chosen.key = "keystore" => chosen.password \in
                               {flags["password"], FromEnvironment("password")} \ {Unset, Empty}
      BY DEF KeyAsConfigured
    <2>2. Decided
      BY <2>1 DEF Decided
    <2>3. chosen.key = Key
          /\ (chosen.key = "keystore" => chosen.password = Password /\ Password # Empty)
      BY <2>1 DEF SettingsInv, ChosenSound
    <2>4. /\ "devnet" \in Configured <=> opts["devnet"] = "true"
          /\ \A n \in {"mnemonic-file", "mnemonic-env", "keystore"} :
               n \in Configured <=> opts[n] # Empty
          /\ "mnemonic" \in Configured <=> Holds("mnemonic")
      BY <2>1, <2>2, Sources
    <2>5. Key \in Configured
      BY <2>1, <2>3, <2>4 DEF Key
    <2>6. Key = "mnemonic" =>
            /\ opts["devnet"] # "true" /\ opts["mnemonic-file"] = Empty
            /\ opts["mnemonic-env"] = Empty /\ opts["keystore"] = Empty
      BY DEF Key, Empty
    <2>7. Key = "mnemonic" => Configured = {"mnemonic"}
      BY <2>4, <2>5, <2>6 DEF Configured, KeySources
    <2>8. Password # Empty =>
            Password \in {flags["password"], FromEnvironment("password")} \ {Unset, Empty}
      <3>1. "password" \in Settings /\ "password" \in Flags
        BY DEF Settings, Flags
      <3>2. FromEnvironment("password") = IF env["password"] = Unset THEN Empty
                                                                   ELSE env["password"]
        BY <2>1, <2>2, <3>1, EnvironmentIsRead DEF SettingsInv, OptsSound, Decided
      <3>3. opts["password"] = Said("password")
        BY <2>1, <2>2, <3>1, SettledAsSaid
      <3>4. Default("password") = Empty
        BY <3>1, Words DEF Booleans
      <3>5. CASE Holds("password")
        BY <3>2, <3>5 DEF Password, Holds
      <3>6. CASE ~Holds("password")
        <4>1. FromEnvironment("password") = Empty
          BY <3>2, <3>6 DEF Holds
        <4>2. Password = IF flags["password"] # Unset THEN flags["password"] ELSE Empty
          BY <3>1, <3>3, <3>4, <3>6, <4>1 DEF Password, Said
        <4>3. QED
          BY <4>2
      <3>7. QED
        BY <3>5, <3>6
    <2>9. QED
      BY <2>3, <2>5, <2>7, <2>8
  <1>2. QED
    BY <1>1, SettingsInvariant, PTL

\* What nobody said anything about keeps its default.
LEMMA UnsaidIsDefault ==
  ASSUME SettingsInv, Decided, NEW n \in Settings, Unsaid(n)
  PROVE  opts[n] = Default(n)
  <1>1. phase # "given" /\ line = Len(file) /\ opts[n] = Applied(n)
    BY DEF SettingsInv, Decided, OptsSound
  <1>2. FirstSaid(n, env[n]) /\ DOMAIN file = 1 .. line
    BY <1>1, LineOfFile DEF SettingsInv, EnvSound
  <1>3. env[n] = Unset
    BY <1>2 DEF FirstSaid, Unsaid
  <1>4. QED
    BY <1>1, <1>3 DEF Applied, Unsaid

\* A replay or a verification about whose node nothing was said asks the log's,
\* and one told another asks that; a replay sends the log's amount.
THEOREM LogIsFollowed == Spec => []ReplayFollowsLog
  <1>1. SettingsInv => ReplayFollowsLog
    <2>1. SUFFICES ASSUME SettingsInv, phase = "ready", mode # "scan"
                   PROVE  /\ Unsaid("node") => chosen.node = log.node
                          /\ flags["node"] \notin {Unset, DefaultNode} => chosen.node = flags["node"]
                          /\ mode = "replay" /\ Unsaid("amount") => chosen.amount = log.amount
      BY DEF ReplayFollowsLog
    <2>2. Decided /\ chosen.node = Node
      BY <2>1 DEF Decided, SettingsInv, ChosenSound
    <2>3. "node" \in Settings /\ "amount" \in Settings
      BY DEF Settings
    <2>4. Unsaid("node") => chosen.node = log.node
      <3>1. Default("node") = DefaultNode
        BY <2>3, Words
      <3>2. Unsaid("node") => opts["node"] = DefaultNode
        BY <2>1, <2>2, <2>3, <3>1, UnsaidIsDefault
      <3>3. QED
        BY <2>1, <2>2, <3>2 DEF Node
    <2>5. flags["node"] \notin {Unset, DefaultNode} => chosen.node = flags["node"]
      <3>1. opts["node"] = Applied("node")
        BY <2>1, <2>2, <2>3 DEF SettingsInv, OptsSound
      <3>2. QED
        BY <2>1, <2>2, <3>1 DEF Node, Applied
    <2>6. mode = "replay" /\ Unsaid("amount") => chosen.amount = log.amount
      <3>1. Default("amount") = Empty
        BY <2>3, Words DEF Booleans
      <3>2. mode = "replay" => chosen.amount = AmountToSend
        BY <2>1 DEF SettingsInv, ChosenSound
      <3>3. QED
        BY <2>1, <2>2, <2>3, <3>1, <3>2, UnsaidIsDefault DEF AmountToSend
    <2>7. QED
      BY <2>4, <2>5, <2>6
  <1>2. QED
    BY <1>1, SettingsInvariant, PTL

-----------------------------------------------------------------------------
(* The amount. *)

LEMMA AmountRead ==
  ASSUME GivenSound
  PROVE  text \in Seq(Character) /\ decimals \in Nat /\ AmountToSend \in Nat
  <1>1. text \in Seq(Character) /\ decimals \in Nat
    BY SettingsAssumption DEF GivenSound
  <1>2. ParseAmount(text, decimals) \in Nat
    BY <1>1, ParseIsExact
  <1>3. log.amount \in Nat /\ Refused \in Nat
    BY DEF GivenSound, Refused
  <1>4. QED
    BY <1>1, <1>2, <1>3 DEF AmountToSend

\* What Applied makes of what was given is a value the flag takes.
LEMMA AppliedType ==
  ASSUME SettingsInv, phase = "loading", line = Len(file),
         NEW n \in Settings, Applied(n) # Junk
  PROVE  /\ Applied(n) \in Values(n) \union {Default(n), Empty}
         /\ n \in Booleans => Applied(n) \in {"true", "false"}
  <1>1. GivenSound /\ EnvSound
    BY DEF SettingsInv
  <1>2. CASE flags[n] # Unset
    <2>1. Applied(n) = flags[n] /\ flags[n] \in Values(n) \union {Empty}
          /\ (flags[n] = Empty => n \notin Booleans)
      BY <1>1, <1>2 DEF Applied, GivenSound
    <2>2. QED
      BY <2>1, Words
  <1>3. CASE flags[n] = Unset /\ n \in Flags /\ env[n] \notin {Unset, Empty}
    <2>1. Applied(n) = env[n]
      BY <1>3 DEF Applied
    <2>2. env[n] \in Sayable(n)
      <3>1. FirstSaid(n, env[n])
        BY <1>1 DEF EnvSound
      <3>2. CASE shell[n] # Unset
        BY <1>1, <3>1, <3>2 DEF FirstSaid, GivenSound
      <3>3. CASE shell[n] = Unset
        <4>1. PICK k \in 1 .. line : file[k].key = n /\ env[n] = file[k].value
          BY <1>3, <3>1, <3>3 DEF FirstSaid
        <4>2. k \in DOMAIN file
          BY <1>1, LineOfFile
        <4>3. QED
          BY <1>1, <4>1, <4>2, LineOfFile
      <3>4. QED
        BY <3>2, <3>3
    <2>3. env[n] \in Values(n)
      BY <1>3, <2>1, <2>2 DEF Sayable
    <2>4. QED
      BY <2>1, <2>3, Words
  <1>4. CASE flags[n] = Unset /\ ~(n \in Flags /\ env[n] \notin {Unset, Empty})
    <2>1. Applied(n) = Default(n)
      BY <1>4 DEF Applied
    <2>2. QED
      BY <2>1, Words
  <1>5. QED
    BY <1>2, <1>3, <1>4

LEMMA TypeStep ==
  ASSUME SettingsInv, TypeOK, [Next]_vars
  PROVE  TypeOK'
  <1>0. GivenSound /\ EnvSound /\ file \in Seq(Line) /\ Len(file) \in Nat
    <2>1. GivenSound /\ EnvSound
      BY DEF SettingsInv
    <2>2. file \in Seq(Line)
      BY <2>1 DEF GivenSound
    <2>3. QED
      BY <2>1, <2>2, LenProperties
  <1>1. line' \in 0 .. Len(file')
    <2>1. SettingsInv'
      BY SettingsStep
    <2>2. QED
      BY <2>1 DEF SettingsInv, EnvSound
  <1>2. CASE Give \/ UNCHANGED vars
    <2>1. UNCHANGED <<phase, opts, chosen>>
      BY <1>2 DEF Give, GiveOne, vars
    <2>2. QED
      BY <1>1, <2>1 DEF TypeOK
  <1>3. CASE Start \/ LoadLine \/ LoadFails
    <2>1. UNCHANGED <<opts, chosen>> /\ phase' \in {"loading", "refused"}
      BY <1>3 DEF Start, LoadLine, LoadFails
    <2>2. QED
      BY <1>1, <2>1 DEF TypeOK
  <1>4. CASE ApplyEnvDefaults
    <2>1. chosen' = chosen /\ phase' \in {"refused", "applied"} /\ phase = "loading" /\ line = Len(file)
          /\ \/ opts' = opts
             \/ opts' = [n \in Settings |-> Applied(n)] /\ \A n \in Settings : Applied(n) # Junk
      BY <1>4 DEF ApplyEnvDefaults
    <2>2. CASE opts' = opts
      BY <1>1, <2>1, <2>2 DEF TypeOK
    <2>3. CASE opts' = [n \in Settings |-> Applied(n)] /\ \A n \in Settings : Applied(n) # Junk
      <3>1. ASSUME NEW n \in Settings
            PROVE  /\ opts'[n] \in Values(n) \union {Default(n), Empty}
                   /\ n \in Booleans => opts'[n] \in {"true", "false"}
        <4>1. opts'[n] = Applied(n) /\ Applied(n) # Junk
          BY <2>3
        <4>2. /\ Applied(n) \in Values(n) \union {Default(n), Empty}
              /\ n \in Booleans => Applied(n) \in {"true", "false"}
          BY <2>1, <4>1, AppliedType
        <4>3. QED
          BY <4>1, <4>2
      <3>2. \A n \in Settings : opts'[n] \in Values(n) \union {Default(n), Empty}
        BY <3>1
      <3>3. ASSUME NEW n \in Booleans
            PROVE  opts'[n] \in {"true", "false"}
        <4>1. n \in Settings
          BY DEF Settings
        <4>2. QED
          BY <3>1, <4>1
      <3>4. /\ chosen.key \in KeySources \union {Empty} /\ chosen.amount \in Nat
            /\ chosen.sending \in BOOLEAN
        BY DEF TypeOK
      <3>5. phase' \in {"refused", "applied"} /\ chosen' = chosen
        BY <2>1
      <3>6. QED
        BY <1>1, <3>2, <3>3, <3>4, <3>5 DEF TypeOK
    <2>4. QED
      BY <2>1, <2>2, <2>3
  <1>5. CASE Choose
    <2>1. PICK found \in BOOLEAN :
            chosen' = [node |-> Node, amount |-> AmountToSend,
                       key |-> IF found THEN Key ELSE Empty,
                       password |-> IF found /\ Key = "keystore" THEN Password ELSE Empty,
                       sending |-> Sending]
      BY <1>5 DEF Choose
    <2>2. /\ chosen'.amount = AmountToSend /\ chosen'.sending = Sending
          /\ chosen'.key \in {Key, Empty}
      BY <2>1
    <2>3. Key \in KeySources \union {Empty} /\ Sending \in BOOLEAN /\ AmountToSend \in Nat
      BY <1>0, AmountRead DEF Key, KeySources, Sending
    <2>4. opts' = opts /\ phase' \in {"refused", "ready"}
      BY <1>5 DEF Choose
    <2>5. QED
      BY <1>1, <2>2, <2>3, <2>4 DEF TypeOK
  <1>6. CASE ChooseToVerify
    <2>1. chosen' = [Nothing EXCEPT !.node = Node] /\ opts' = opts /\ phase' = "ready"
      BY <1>6 DEF ChooseToVerify
    <2>2. chosen'.amount = 0 /\ ~chosen'.sending /\ chosen'.key = Empty /\ chosen'.sending \in BOOLEAN
      BY <2>1 DEF Nothing, Refused
    <2>3. QED
      BY <1>1, <2>1, <2>2 DEF TypeOK
  <1>7. QED
    BY <1>2, <1>3, <1>4, <1>5, <1>6 DEF Next, Program

\* Every option holds a value its flag takes, and the amount is a number.
THEOREM SettingsTypeCorrect == Spec => []TypeOK
  <1>1. Init => TypeOK
    <2>1. SUFFICES ASSUME Init
                   PROVE  TypeOK
      OBVIOUS
    <2>2. /\ file = <<>> /\ line = 0 /\ phase = "given" /\ chosen = Nothing
          /\ opts = [n \in Settings |-> Default(n)]
      BY <2>1 DEF Init
    <2>3. \A n \in Booleans : n \in Settings /\ Default(n) = "false"
      BY DEF Settings, Booleans, Default
    <2>4. chosen.key = Empty /\ chosen.amount = 0 /\ chosen.sending \in BOOLEAN
      BY <2>2 DEF Nothing, Refused
    <2>5. line \in 0 .. Len(file)
      BY <2>2
    <2>6. QED
      BY <2>2, <2>3, <2>4, <2>5 DEF TypeOK
  <1>2. SettingsInv /\ TypeOK /\ [Next]_vars => TypeOK'
    BY TypeStep
  <1>3. QED
    BY <1>1, <1>2, SettingsInvariant, PTL DEF Spec

\* A typed amount comes to exactly what was typed, or is refused, and is refused
\* only if no number of smallest units above zero is exactly that: ParseAmount,
\* whatever the text and the token's decimals.
THEOREM TypedAmountIsExact == Spec => []AmountExact
  <1>1. SettingsInv => AmountExact
    <2>1. SUFFICES ASSUME SettingsInv, phase \in {"ready", "refused"},
                          opts["amount"] = "typed", mode # "verify"
                   PROVE  IF chosen.amount # Refused THEN IsWorth(chosen.amount, text, decimals)
                          ELSE ~ /\ WellFormed(text)
                                 /\ Mantissa(text) > 0
                                 /\ (Mantissa(text) * TenTo(decimals)) % TenTo(Places(text)) = 0
      BY DEF AmountExact
    <2>2. "typed" # Empty
      BY DEF Empty
    <2>3. chosen.amount = AmountToSend
      BY <2>1, <2>2 DEF SettingsInv, ChosenSound, OutcomeSound
    <2>4. AmountToSend = ParseAmount(text, decimals)
      BY <2>1, <2>2 DEF AmountToSend
    <2>5. text \in Seq(Character) /\ decimals \in Nat
      BY <2>1, AmountRead DEF SettingsInv
    <2>6. QED
      BY <2>3, <2>4, <2>5, ParseIsExact
  <1>2. QED
    BY <1>1, SettingsInvariant, PTL

\* An amount as FormatAmount displays it, read again, is the amount that is sent.
THEOREM DisplayIsSent == Spec => []DisplayedIsSent
  <1>1. SettingsInv /\ TypeOK => DisplayedIsSent
    <2>1. SUFFICES ASSUME SettingsInv, TypeOK, chosen.amount # Refused
                   PROVE  ParseAmount(FormatAmount(chosen.amount, decimals), decimals) = chosen.amount
      BY DEF DisplayedIsSent
    <2>2. chosen.amount \in Nat \ {0}
      BY <2>1 DEF TypeOK, Refused
    <2>3. decimals \in Nat
      BY <2>1, AmountRead DEF SettingsInv
    <2>4. QED
      BY <2>2, <2>3, FormatReadsBack
  <1>2. QED
    BY <1>1, SettingsInvariant, SettingsTypeCorrect, PTL
=============================================================================
