------------------------------- MODULE Frames -------------------------------
(***************************************************************************)
(* How one service call runs.  A call is a frame: whose it is, the         *)
(* operation, its input, the point it has reached, its local variables and *)
(* its result.  An operation maps a frame, the database and an unused id   *)
(* to the outcome of ONE step, which makes at most one repository call or  *)
(* one outside call; between two steps other callers run.                  *)
(***************************************************************************)
EXTENDS StoreLists, IpNet, TLC

S == INSTANCE SqlStore WITH db <- None, call <- None, reply <- None

\* t: the tenant; role: what the gateway resolved; val: the rows answered, as <<table, id>>.
Frame(t, role, op, in) ==
  [t |-> t, role |-> role, op |-> op, in |-> in, at |-> "begin", x |-> None, err |-> "", val |-> {}]

\* The roles of internal/authz; "owner" and the system scope count as "admin".
IsAdmin(f) == f.role = "admin"

IsPlatformAdmin(f) == f.role \in {"admin", "platform"}

Finished(f) == f.at = "done"

\* fx: what the step does outside the tables (an event published, an audit row, a
\* power command sent).
Outcome(f, d, fx) == [f |-> f, db |-> d, fx |-> fx]

Go(f, d, at, x) == Outcome([f EXCEPT !.at = at, !.x = x @@ @], d, <<>>)

Return(f, d, err, val) == Outcome([f EXCEPT !.at = "done", !.err = err, !.val = val, !.x = None], d, <<>>)

Refuse(f, d, err) == Return(f, d, err, {})

Effect(kind, what, id) == [kind |-> kind, what |-> what, id |-> id]

\* The audit row written with the step, unless the step failed.
Audited(o, what, id) ==
  IF o.f.err \in {"", "ok"} THEN [o EXCEPT !.fx = <<Effect("audit", what, id)>>] ELSE o

\* The repository answered a: go on, or return its error.
Then(f, a, at, x) == IF a.err = "ok" THEN Go(f, a.db, at, x) ELSE Refuse(f, a.db, a.err)

\* The repository's answer ends the call.
Reply(f, a, val) == Return(f, a.db, a.err, IF a.err = "ok" THEN val ELSE {})

Rows(tab, ids) == {<<tab, i>> : i \in ids}

\* A read whose rows are the answer.
Read(f, d, tab, ids) == Return(f, d, "ok", Rows(tab, ids))

GetOne(f, d, tab, a) == Reply(f, a, Rows(tab, {f.in.id}))

ListAll(f, d, tab, filter) == Read(f, d, tab, Where(d, tab, f.t, filter))

\* The re-read that ends a create or an update.
Reread(f, a, tab) == Reply(f, a, Rows(tab, {f.x.id}))

=============================================================================
