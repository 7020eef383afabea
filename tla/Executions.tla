----------------------------- MODULE Executions -----------------------------
(****************************************************************************)
(* The executions in progress: HTTP handlers and sweeps of the node         *)
(* processes.  job[w] is what execution w has read and decided and not yet  *)
(* written; it is Idle between two requests.  The modules of the scheduling *)
(* services and of the approval desks share these definitions.              *)
(****************************************************************************)
CONSTANT Workers

VARIABLE job

Idle == [op |-> "idle"]

Running(w, op) == job[w].op = op

\* A handler has read and decided.
Begin(w, j) == job[w] = Idle /\ job' = [job EXCEPT ![w] = j]

\* A handler goes on to its next database statement.
Proceed(w, j) == job' = [job EXCEPT ![w] = j]

Finish(w) == job' = [job EXCEPT ![w] = Idle]

\* It ends without writing: a crash, a constraint the database refuses.
Abandon(w) == job[w] # Idle /\ Finish(w)

\* Row r after an UPDATE that sets the columns of data: the other columns keep their value.
Updated(r, data) == [c \in DOMAIN r |-> IF c \in DOMAIN data THEN data[c] ELSE r[c]]

=============================================================================
