---------------------------- MODULE MCSettings ----------------------------
(***************************************************************************)
(* All ways to give three flags, variables and lines, about two settings   *)
(* and the amount; and all amounts of up to four characters, typed on the  *)
(* command line by themselves.                                             *)
(***************************************************************************)
EXTENDS Settings

Usual == <<5>>

Characters == {0, 7, Dot, Minus, Plus, Underscore, Space}

MCTexts == UNION {[1 .. n -> Characters] : n \in 1 .. 4} \union {Usual}

MCInit ==
  /\ Init
  /\ IF text = Usual THEN decimals = 2 ELSE mode = "scan"
  /\ mode # "replay" => log.amount = 0

About(n) ==
  flags'[n] # Unset \/ shell'[n] # Unset \/ \E k \in DOMAIN file' : file'[k].key = n

\* A replay is given one besides its node, its amount and -confirm.
TwoAndAmount ==
  phase = "given" =>
    /\ Cardinality({n \in Settings \ {"amount"} : About(n)}) <= 2
    /\ mode = "replay" =>
         Cardinality({n \in Settings \ {"amount", "node", "confirm"} : About(n)}) <= 1

\* An unusual amount is all that is given.  Two settings do for a verification,
\* which only takes its node from them, and for a replay of a log without an amount.
Most == IF mode = "verify" \/ (mode = "replay" /\ log.amount = 0) THEN 2 ELSE MaxGiven

MCNext ==
  \/ text = Usual /\ Given < Most /\ Give
  \/ text # Usual /\ Given = 0 /\ GiveOne("amount", "typed")
  \/ Program

MCSpec == MCInit /\ [][MCNext]_vars
=============================================================================
