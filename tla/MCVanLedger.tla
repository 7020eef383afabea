---------------------------- MODULE MCVanLedger ----------------------------
(**************************************************************************)
(* Small instances of VanLedger: two engineers, two tickets; a and b are  *)
(* drafts of engineer e1 for two tickets, c is e2's draft for a's ticket. *)
(**************************************************************************)
EXTENDS VanLedger, TLC

CONSTANTS e1, e2, t1, t2, a, b, c, w1, w2

MCEngineerOf == [x \in Drafts |-> IF x = c THEN e2 ELSE e1]
MCTicketOf == [x \in Drafts |-> IF x = b THEN t2 ELSE t1]

\* One draft of e1 uses two parts.
MCQty == [x \in Drafts |-> IF x = a THEN 2 ELSE 1]

\* e1 holds less than its drafts use, e2 has no stock row.
MCIssued == [e \in Engineers |-> IF e = e1 THEN 2 ELSE 0]

WorkerSymmetry == Permutations(Workers)

=============================================================================
