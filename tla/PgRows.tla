------------------------------- MODULE PgRows -------------------------------
(***************************************************************************)
(* Row versions under PostgreSQL's READ COMMITTED isolation, the part of   *)
(* the database the repository layer relies on (it opens every transaction *)
(* with pool.Begin and no options).  PostgreSQL is not part of the         *)
(* repository; this is what its code uses of it.                           *)
(*                                                                         *)
(* A table is a set of row versions.  A version carries, next to its       *)
(* columns, the transaction that inserted it while that transaction is     *)
(* open (by) and the open transaction that deleted or replaced it (gone);  *)
(* Nil stands for "no open transaction".  gone is also the row lock that   *)
(* the writer holds until it ends.                                         *)
(***************************************************************************)
CONSTANT Nil

\* The versions a statement of transaction t sees when it starts.
Visible(rows, t) == {v \in rows : v.by \in {Nil, t} /\ v.gone # t}

\* What every other transaction sees: the committed contents of the table.
Committed(rows) == {v \in rows : v.by = Nil}

\* The open transactions other than t that hold a lock on one of the rows.
Writers(rows, t) == {v.gone : v \in rows} \ {Nil, t}

\* The open transactions other than t that inserted one of the rows.
Inserters(rows, t) == {v.by : v \in rows} \ {Nil, t}

\* t deletes the given versions: its own disappear, others stay for the rest
\* of the world until t commits.
Remove(rows, victims, t) ==
    (rows \ victims)
        \cup {[v EXCEPT !.gone = t] : v \in {w \in victims : w.by # t}}

Commit(rows, t) ==
    {[v EXCEPT !.by = IF @ = t THEN Nil ELSE @] :
        v \in {w \in rows : w.gone # t}}

Rollback(rows, t) ==
    {[v EXCEPT !.gone = IF @ = t THEN Nil ELSE @] :
        v \in {w \in rows : w.by # t}}
=============================================================================
