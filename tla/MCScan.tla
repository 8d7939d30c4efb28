------------------------------- MODULE MCScan -------------------------------
(***************************************************************************)
(* Three users, one of them the payer, and a contract, on a chain of a few *)
(* momentums: an empty one, a user's send to another, a contract's send    *)
(* beside a receive, and a send to a contract.                             *)
(***************************************************************************)
EXTENDS Scan

Send(a, b) == [by |-> a, to |-> b]

Momentums == <<{}, {Send(1, 2)}, {Send(9, 3), Send(3, Zero)}, {Send(2, 9)}>>

\* The four momentums, starting from the first or the third.
Rotations == {[m \in 1 .. MaxHeight |-> Momentums[((m + k) % 4) + 1]] : k \in {0, 2}}

\* -from wins over -last, and only a list with the payer on it tells whether
\* the payer is excluded: of the flags, one combination of each kind is enough.
MCFlags == {f \in Flags : (f.from = 0 \/ f.last = 0) /\ f.excludeSelf = ~f.include /\ ~f.verify}

MCNext ==
  \/ \E f \in MCFlags :
       ScanCommand(f) \/ RefusedCommand(f)
  \/ VerifyCommand \/ Program \/ Fail \/ NewMomentum

MCSpec == Init /\ [][MCNext]_vars /\ WF_vars(Program)
=============================================================================
