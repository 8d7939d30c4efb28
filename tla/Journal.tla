------------------------------ MODULE Journal ------------------------------
(***************************************************************************)
(* journal.go: the file that says who has been paid, one line per payment, *)
(* shared by every airdrop that is given the same path.  A line that was   *)
(* cut short is `torn'; one that is complete but for its newline is        *)
(* `bare', and the next line written lands on the same line of the file,   *)
(* which garbles both.                                                     *)
(***************************************************************************)
EXTENDS Sender

VARIABLE journal   \* the lines of the file, in order

Line == [run : Runs, addr : Addrs, hash : Nat,
         form : {"whole", "bare", "garbled", "torn"}]

JournalTypeOK == journal \in Seq(Line)

JournalInit == journal = <<>>

\* The lines whose text reached the file in full; those of one airdrop.
Written == {k \in DOMAIN journal : journal[k].form # "torn"}
Lines(r) == {k \in Written : journal[k].run = r}
Recorded(r) == {journal[k].addr : k \in Lines(r)}

\* Paid gives up on the whole file at the first line that is not an entry,
\* whichever airdrop the line is for.
Readable == \A k \in DOMAIN journal : journal[k].form \in {"whole", "bare"}

\* A line goes to the end of the file, and so on to the end of a bare line.
OnBareLine == journal # <<>> /\ journal[Len(journal)].form = "bare"

Write(r, a, h, form) ==
  LET written(f) == IF OnBareLine /\ f # "torn" THEN "garbled" ELSE f
      earlier == [k \in DOMAIN journal |->
                    IF OnBareLine /\ k = Len(journal)
                    THEN [journal[k] EXCEPT !.form = "garbled"]
                    ELSE journal[k]]
  IN  journal' = Append(earlier, [run |-> r, addr |-> a, hash |-> h,
                                  form |-> written(form)])

\* Mutant: the line stays in the buffer.
RecordUnflushed(r, a, h) == UNCHANGED journal

Record(r, a, h) == Write(r, a, h, "whole")

\* The write, the flush or the sync fails, or the machine stops in the middle.
RecordCutShort(r, a, h) ==
  \/ UNCHANGED journal
  \/ \E form \in {"torn", "bare", "whole"} : Write(r, a, h, form)
=============================================================================
