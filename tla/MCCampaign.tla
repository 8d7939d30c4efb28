----------------------------- MODULE MCCampaign -----------------------------
(***************************************************************************)
(* Two users, of whom one acts in the first momentum and both in the last. *)
(* Ranges that follow the tip, and one that does not.                      *)
(***************************************************************************)
EXTENDS Campaign, TLC

CONSTANTS t1, t2, j1, j2

Momentums == <<{1}, {1, 2}>>

\* The other way round, so that the first run may be cut short.
BothFirst == <<{1, 2}, {1}>>

Ranges == {[from |-> 0, last |-> 1, to |-> 1],
           [from |-> 0, last |-> 2, to |-> 0]}

\* Two invocations, which may overlap, and then a replay by itself, while nothing
\* else happens.  Other terms come up as what a replay of the first, by itself,
\* was told to send.
Sequel(terms) == Len(runs) >= 1 /\ Alive = {} /\ (terms = t2 => Len(runs) = 1)

\* Only a replay reads a log, when it begins: so an edit is left until nothing runs
\* and the chain has grown, and what begins next replays the log that was edited.
AtRest == Len(runs) < 3 /\ Alive = {} /\ tip = MaxHeight

Edited(l) == l.addresses # l.digest \/ l.recipients # l.recipientDigest
NoneEditedBut(j) == \A k \in Invocations \ {j} : ~Edited(runs[k].log)

\* A run without terms touches no journal, so none overlaps with another, nor has
\* one of its own.
MCNext ==
  \/ /\ Len(runs) < 2 /\ NoneEditedBut(0)
     /\ \E f \in RangeFlags, terms \in {t1, NoTerms}, path \in Journals :
          /\ terms = NoTerms => Alive = {} /\ \A k \in Invocations : path = runs[k].path
          /\ \A k \in Alive : runs[k].terms # NoTerms
          /\ Scan(f, terms, path)
  \/ /\ Len(runs) < 2
     /\ \E terms \in {t1, NoTerms}, path \in Journals : Replay(1, terms, path)
  \/ \E j \in Ids, terms \in Terms \union {NoTerms}, path \in Journals :
       Sequel(terms) /\ NoneEditedBut(j) /\ Replay(j, terms, path)
  \/ Proceed /\ (Len(runs) = 3 => UNCHANGED mishaps /\ ~runs'[3].failed)
  \/ AtRest /\ EditALog /\ runs' # runs
  \/ Len(runs) < 3 /\ NewMomentum

MCSpec == Init /\ [][MCNext]_vars

Symmetry == Permutations({j1, j2})
=============================================================================
