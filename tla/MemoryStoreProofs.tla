-------------------------- MODULE MemoryStoreProofs --------------------------
(***************************************************************************)
(* What the knowledge graph keeps true for any number of requests, any     *)
(* plans made of the repository's calls and any legal initial rows.        *)
(*                                                                         *)
(* The four tables hold row versions of the same shape, so the facts about *)
(* Commit, Rollback and Remove are proved once, for a table rows whose     *)
(* columns C matter, and used for each table and each key.                 *)
(***************************************************************************)
EXTENDS MemoryStore, FiniteSetTheorems, TLAPS

Owners == Requests \cup {Nil}

(* ---- Tables ----------------------------------------------------------- *)

\* A table of row versions with at least the columns C.  A version that is
\* not committed is locked by nobody.
Rows(rows, C) ==
    \A v \in rows :
        /\ v = [c \in DOMAIN v |-> v[c]]
        /\ {"by", "gone"} \cup C \subseteq DOMAIN v
        /\ v.by \in Owners /\ v.gone \in Owners
        /\ v.by # Nil => v.gone = Nil

Columns(C) == "by" \notin C /\ "gone" \notin C

SameOn(C, v, w) == \A c \in C : v[c] = w[c]

\* w is the version that will replace v.
Replaced(v, w) == v.by = Nil /\ w.by # Nil /\ v.gone = w.by

Alt(v, w) == v = w \/ Replaced(v, w) \/ Replaced(w, v)

\* The columns C are a key: two versions that agree on them are one version,
\* or a committed one and the one that replaces it.
Unique(rows, C) == \A v, w \in rows : SameOn(C, v, w) => Alt(v, w)

\* The versions a statement of t may remove once nobody blocks it.
Removable(rows, victims, t) ==
    /\ victims \subseteq rows
    /\ \A v \in victims : v.by \in {Nil, t} /\ v.gone = Nil

\* All ids were taken from the sequence.
Numbered(rows, n) == \A v \in rows : v.id \in 1 .. n - 1

\* t owns no version and holds no lock.
Untouched(rows, t) == \A v \in rows : v.by # t /\ v.gone # t

\* x is what the commit of t makes of v.
Committing(v, x, t, C) ==
    /\ v.gone # t /\ x.gone = v.gone
    /\ x.by = IF v.by = t THEN Nil ELSE v.by
    /\ v.by # t => x = v
    /\ x = [v EXCEPT !.by = IF v.by = t THEN Nil ELSE v.by]
    /\ DOMAIN x = DOMAIN v /\ x = [c \in DOMAIN x |-> x[c]]
    /\ \A c \in C : x[c] = v[c]

\* Where the rows of a committed table come from.
LEMMA InCommit ==
    ASSUME NEW rows, NEW C, Rows(rows, C), Columns(C), NEW t \in Requests,
           NEW x \in Commit(rows, t)
    PROVE  \E v \in rows : Committing(v, x, t, C)
<1>1. PICK v \in rows : v.gone # t
                        /\ x = [v EXCEPT !.by = IF @ = t THEN Nil ELSE @]
  BY DEF Commit
<1>2. /\ v = [c \in DOMAIN v |-> v[c]]
      /\ {"by", "gone"} \cup C \subseteq DOMAIN v
  BY DEF Rows
<1>3. /\ x.gone = v.gone /\ x.by = IF v.by = t THEN Nil ELSE v.by
      /\ DOMAIN x = DOMAIN v /\ x = [c \in DOMAIN x |-> x[c]]
      /\ \A c \in C : x[c] = v[c]
  BY <1>1, <1>2 DEF Columns
<1>4. v.by # t => x = v
  BY <1>1, <1>2
<1> QED
  BY <1>1, <1>3, <1>4 DEF Committing

\* x is what the rollback of t makes of v.
RollingBack(v, x, t, C) ==
    /\ v.by # t /\ x.by = v.by
    /\ x.gone = IF v.gone = t THEN Nil ELSE v.gone
    /\ v.gone # t => x = v
    /\ x = [v EXCEPT !.gone = IF v.gone = t THEN Nil ELSE v.gone]
    /\ DOMAIN x = DOMAIN v /\ x = [c \in DOMAIN x |-> x[c]]
    /\ \A c \in C : x[c] = v[c]

\* Where the rows of a table that is rolled back come from.
LEMMA InRollback ==
    ASSUME NEW rows, NEW C, Rows(rows, C), Columns(C), NEW t \in Requests,
           NEW x \in Rollback(rows, t)
    PROVE  \E v \in rows : RollingBack(v, x, t, C)
<1>1. PICK v \in rows : v.by # t
                        /\ x = [v EXCEPT !.gone = IF @ = t THEN Nil ELSE @]
  BY DEF Rollback
<1>2. /\ v = [c \in DOMAIN v |-> v[c]]
      /\ {"by", "gone"} \cup C \subseteq DOMAIN v
  BY DEF Rows
<1>3. /\ x.by = v.by /\ x.gone = IF v.gone = t THEN Nil ELSE v.gone
      /\ DOMAIN x = DOMAIN v /\ x = [c \in DOMAIN x |-> x[c]]
      /\ \A c \in C : x[c] = v[c]
  BY <1>1, <1>2 DEF Columns
<1>4. v.gone # t => x = v
  BY <1>1, <1>2
<1> QED
  BY <1>1, <1>3, <1>4 DEF RollingBack

\* x is what a removal by t makes of v, which is a victim if b.
Removing(v, x, t, b, C) ==
    /\ x.by = v.by
    /\ ~b => x = v
    /\ b => v.by = Nil /\ x.gone = t /\ x = [v EXCEPT !.gone = t]
    /\ DOMAIN x = DOMAIN v /\ x = [c \in DOMAIN x |-> x[c]]
    /\ \A c \in C : x[c] = v[c]

\* Where the rows come from after a removal.
LEMMA InRemove ==
    ASSUME NEW rows, NEW C, Rows(rows, C), Columns(C), NEW t \in Requests,
           NEW victims, Removable(rows, victims, t),
           NEW x \in Remove(rows, victims, t)
    PROVE  \E v \in rows : Removing(v, x, t, v \in victims, C)
<1>1. CASE x \in rows \ victims
  BY <1>1 DEF Rows, Removing
<1>2. CASE x \notin rows \ victims
  <2>1. PICK v \in victims : v.by # t /\ x = [v EXCEPT !.gone = t]
    BY <1>2 DEF Remove
  <2>2. /\ v \in rows /\ v.by = Nil /\ v = [c \in DOMAIN v |-> v[c]]
        /\ {"by", "gone"} \cup C \subseteq DOMAIN v
    BY <2>1 DEF Rows, Removable
  <2>3. /\ x.by = v.by /\ x.gone = t
        /\ DOMAIN x = DOMAIN v /\ x = [c \in DOMAIN x |-> x[c]]
        /\ \A c \in C : x[c] = v[c]
    BY <2>1, <2>2 DEF Columns
  <2> QED
    BY <2>1, <2>2, <2>3 DEF Removing
<1> QED
  BY <1>1, <1>2 DEF Removing

\* A column that no statement changes.
Fixed(rows, c) == \A v, w \in rows : v.id = w.id => v[c] = w[c]

\* A commit of t keeps shape, keys, numbers and fixed columns, leaves nothing
\* of t, and gives nobody else a row or a lock.
LEMMA CommitKeeps ==
    ASSUME NEW rows, NEW C, Rows(rows, C), Columns(C), NEW t \in Requests,
           Nil \notin Requests
    PROVE  LET new == Commit(rows, t)
           IN  /\ Rows(new, C)
               /\ \A D : D \subseteq C /\ Unique(rows, D) => Unique(new, D)
               /\ \A n : "id" \in C /\ Numbered(rows, n) => Numbered(new, n)
               /\ \A c \in C : "id" \in C /\ Fixed(rows, c) => Fixed(new, c)
               /\ Untouched(new, t)
               /\ \A s \in Requests :
                     s # t /\ Untouched(rows, s) => Untouched(new, s)
<1> DEFINE new == Commit(rows, t)
           From(x, v) == v \in rows /\ Committing(v, x, t, C)
<1>1. \A x \in new : \E v : From(x, v)
  BY InCommit
<1> HIDE DEF new
<1>2. Rows(new, C)
  <2> SUFFICES ASSUME NEW x \in new
      PROVE  /\ x = [c \in DOMAIN x |-> x[c]]
             /\ {"by", "gone"} \cup C \subseteq DOMAIN x
             /\ x.by \in Owners /\ x.gone \in Owners
             /\ x.by # Nil => x.gone = Nil
    BY DEF Rows
  <2>1. PICK v : From(x, v)
    BY <1>1
  <2> QED
    BY <2>1 DEF Rows, Owners, Committing
<1>3. ASSUME NEW D, D \subseteq C, Unique(rows, D)
      PROVE  Unique(new, D)
  <2> SUFFICES ASSUME NEW x \in new, NEW y \in new, SameOn(D, x, y)
      PROVE  Alt(x, y)
    BY DEF Unique
  <2>1. PICK v : From(x, v)
    BY <1>1
  <2>2. PICK w : From(y, w)
    BY <1>1
  <2>3. SameOn(D, v, w)
    BY <2>1, <2>2, <1>3 DEF SameOn, Committing
  <2>4. Alt(v, w)
    BY <2>1, <2>2, <2>3, <1>3 DEF Unique
  <2>5. CASE v = w
    BY <2>1, <2>2, <2>5 DEF Alt, Committing
  <2>6. CASE Replaced(v, w)
    BY <2>1, <2>2, <2>6 DEF Alt, Replaced, Committing
  <2>7. CASE Replaced(w, v)
    BY <2>1, <2>2, <2>7 DEF Alt, Replaced, Committing
  <2> QED
    BY <2>4, <2>5, <2>6, <2>7 DEF Alt
<1>4. ASSUME NEW n, "id" \in C, Numbered(rows, n)
      PROVE  Numbered(new, n)
  BY <1>1, <1>4 DEF Numbered, Committing
<1>5. ASSUME NEW c \in C, "id" \in C, Fixed(rows, c)
      PROVE  Fixed(new, c)
  <2> SUFFICES ASSUME NEW x \in new, NEW y \in new, x.id = y.id
      PROVE  x[c] = y[c]
    BY DEF Fixed
  <2>1. PICK v : From(x, v)
    BY <1>1
  <2>2. PICK w : From(y, w)
    BY <1>1
  <2>3. v.id = w.id /\ x[c] = v[c] /\ y[c] = w[c]
    BY <2>1, <2>2, <1>5 DEF Committing
  <2> QED
    BY <2>1, <2>2, <2>3, <1>5 DEF Fixed, Committing
<1>6. Untouched(new, t)
  BY <1>1 DEF Untouched, Committing
<1>7. ASSUME NEW s \in Requests, s # t, Untouched(rows, s)
      PROVE  Untouched(new, s)
  BY <1>1, <1>7 DEF Untouched, Committing
<1> QED
  BY <1>2, <1>3, <1>4, <1>5, <1>6, <1>7 DEF new

\* So does a rollback of t.
LEMMA RollbackKeeps ==
    ASSUME NEW rows, NEW C, Rows(rows, C), Columns(C), NEW t \in Requests,
           Nil \notin Requests
    PROVE  LET new == Rollback(rows, t)
           IN  /\ Rows(new, C)
               /\ \A D : D \subseteq C /\ Unique(rows, D) => Unique(new, D)
               /\ \A n : "id" \in C /\ Numbered(rows, n) => Numbered(new, n)
               /\ \A c \in C : "id" \in C /\ Fixed(rows, c) => Fixed(new, c)
               /\ Untouched(new, t)
               /\ \A s \in Requests :
                     s # t /\ Untouched(rows, s) => Untouched(new, s)
<1> DEFINE new == Rollback(rows, t)
           From(x, v) == v \in rows /\ RollingBack(v, x, t, C)
<1>1. \A x \in new : \E v : From(x, v)
  BY InRollback
<1> HIDE DEF new
<1>2. Rows(new, C)
  <2> SUFFICES ASSUME NEW x \in new
      PROVE  /\ x = [c \in DOMAIN x |-> x[c]]
             /\ {"by", "gone"} \cup C \subseteq DOMAIN x
             /\ x.by \in Owners /\ x.gone \in Owners
             /\ x.by # Nil => x.gone = Nil
    BY DEF Rows
  <2>1. PICK v : From(x, v)
    BY <1>1
  <2> QED
    BY <2>1 DEF Rows, Owners, RollingBack
<1>3. ASSUME NEW D, D \subseteq C, Unique(rows, D)
      PROVE  Unique(new, D)
  <2> SUFFICES ASSUME NEW x \in new, NEW y \in new, SameOn(D, x, y)
      PROVE  Alt(x, y)
    BY DEF Unique
  <2>1. PICK v : From(x, v)
    BY <1>1
  <2>2. PICK w : From(y, w)
    BY <1>1
  <2>3. SameOn(D, v, w)
    BY <2>1, <2>2, <1>3 DEF SameOn, RollingBack
  <2>4. Alt(v, w)
    BY <2>1, <2>2, <2>3, <1>3 DEF Unique
  <2>5. CASE v = w
    BY <2>1, <2>2, <2>5 DEF Alt, RollingBack
  <2>6. CASE Replaced(v, w)
    BY <2>1, <2>2, <2>6 DEF Alt, Replaced, RollingBack
  <2>7. CASE Replaced(w, v)
    BY <2>1, <2>2, <2>7 DEF Alt, Replaced, RollingBack
  <2> QED
    BY <2>4, <2>5, <2>6, <2>7 DEF Alt
<1>4. ASSUME NEW n, "id" \in C, Numbered(rows, n)
      PROVE  Numbered(new, n)
  BY <1>1, <1>4 DEF Numbered, RollingBack
<1>5. ASSUME NEW c \in C, "id" \in C, Fixed(rows, c)
      PROVE  Fixed(new, c)
  <2> SUFFICES ASSUME NEW x \in new, NEW y \in new, x.id = y.id
      PROVE  x[c] = y[c]
    BY DEF Fixed
  <2>1. PICK v : From(x, v)
    BY <1>1
  <2>2. PICK w : From(y, w)
    BY <1>1
  <2>3. v.id = w.id /\ x[c] = v[c] /\ y[c] = w[c]
    BY <2>1, <2>2, <1>5 DEF RollingBack
  <2> QED
    BY <2>1, <2>2, <2>3, <1>5 DEF Fixed, RollingBack
<1>6. Untouched(new, t)
  BY <1>1 DEF Untouched, RollingBack
<1>7. ASSUME NEW s \in Requests, s # t, Untouched(rows, s)
      PROVE  Untouched(new, s)
  BY <1>1, <1>7 DEF Untouched, RollingBack
<1> QED
  BY <1>2, <1>3, <1>4, <1>5, <1>6, <1>7 DEF new

\* So does a removal by t, except that t may hold the victims now.
LEMMA RemoveKeeps ==
    ASSUME NEW rows, NEW C, Rows(rows, C), Columns(C), NEW t \in Requests,
           Nil \notin Requests, NEW victims, Removable(rows, victims, t)
    PROVE  LET new == Remove(rows, victims, t)
           IN  /\ Rows(new, C)
               /\ \A D : D \subseteq C /\ Unique(rows, D) => Unique(new, D)
               /\ \A n : "id" \in C /\ Numbered(rows, n) => Numbered(new, n)
               /\ \A c \in C : "id" \in C /\ Fixed(rows, c) => Fixed(new, c)
               /\ \A s \in Requests :
                     s # t /\ Untouched(rows, s) => Untouched(new, s)
<1> DEFINE new == Remove(rows, victims, t)
           From(x, v) == v \in rows /\ Removing(v, x, t, v \in victims, C)
<1>1. \A x \in new : \E v : From(x, v)
  BY InRemove
<1> HIDE DEF new
<1>2. Rows(new, C)
  <2> SUFFICES ASSUME NEW x \in new
      PROVE  /\ x = [c \in DOMAIN x |-> x[c]]
             /\ {"by", "gone"} \cup C \subseteq DOMAIN x
             /\ x.by \in Owners /\ x.gone \in Owners
             /\ x.by # Nil => x.gone = Nil
    BY DEF Rows
  <2>1. PICK v : From(x, v)
    BY <1>1
  <2> QED
    BY <2>1 DEF Rows, Owners, Removing
<1>3. ASSUME NEW D, D \subseteq C, Unique(rows, D)
      PROVE  Unique(new, D)
  <2> SUFFICES ASSUME NEW x \in new, NEW y \in new, SameOn(D, x, y)
      PROVE  Alt(x, y)
    BY DEF Unique
  <2>1. PICK v : From(x, v)
    BY <1>1
  <2>2. PICK w : From(y, w)
    BY <1>1
  <2>3. SameOn(D, v, w)
    BY <2>1, <2>2, <1>3 DEF SameOn, Removing
  <2>4. Alt(v, w)
    BY <2>1, <2>2, <2>3, <1>3 DEF Unique
  <2>5. CASE v = w
    BY <2>1, <2>2, <2>5 DEF Alt, Removing
  <2>6. CASE Replaced(v, w)
    BY <2>1, <2>2, <2>6 DEF Alt, Replaced, Removable, Removing
  <2>7. CASE Replaced(w, v)
    BY <2>1, <2>2, <2>7 DEF Alt, Replaced, Removable, Removing
  <2> QED
    BY <2>4, <2>5, <2>6, <2>7 DEF Alt
<1>4. ASSUME NEW n, "id" \in C, Numbered(rows, n)
      PROVE  Numbered(new, n)
  BY <1>1, <1>4 DEF Numbered, Removing
<1>5. ASSUME NEW c \in C, "id" \in C, Fixed(rows, c)
      PROVE  Fixed(new, c)
  <2> SUFFICES ASSUME NEW x \in new, NEW y \in new, x.id = y.id
      PROVE  x[c] = y[c]
    BY DEF Fixed
  <2>1. PICK v : From(x, v)
    BY <1>1
  <2>2. PICK w : From(y, w)
    BY <1>1
  <2>3. v.id = w.id /\ x[c] = v[c] /\ y[c] = w[c]
    BY <2>1, <2>2, <1>5 DEF Removing
  <2> QED
    BY <2>1, <2>2, <2>3, <1>5 DEF Fixed, Removing
<1>6. ASSUME NEW s \in Requests, s # t, Untouched(rows, s)
      PROVE  Untouched(new, s)
  BY <1>1, <1>6 DEF Untouched, Removing
<1> QED
  BY <1>2, <1>3, <1>4, <1>5, <1>6 DEF new

\* What becomes of a row that t does not remove.
LEMMA OfCommit ==
    ASSUME NEW rows, NEW C, Rows(rows, C), Columns(C), NEW t \in Requests,
           NEW v \in rows, v.gone # t
    PROVE  \E x \in Commit(rows, t) : Committing(v, x, t, C)
<1> DEFINE x == [v EXCEPT !.by = IF v.by = t THEN Nil ELSE v.by]
<1>1. x \in Commit(rows, t)
  BY DEF Commit
<1>2. /\ v = [c \in DOMAIN v |-> v[c]]
      /\ {"by", "gone"} \cup C \subseteq DOMAIN v
  BY DEF Rows
<1>3. Committing(v, x, t, C)
  BY <1>2 DEF Committing, Columns
<1> QED
  BY <1>1, <1>3

\* What becomes of a row that t did not insert.
LEMMA OfRollback ==
    ASSUME NEW rows, NEW C, Rows(rows, C), Columns(C), NEW t \in Requests,
           NEW v \in rows, v.by # t
    PROVE  \E x \in Rollback(rows, t) : RollingBack(v, x, t, C)
<1> DEFINE x == [v EXCEPT !.gone = IF v.gone = t THEN Nil ELSE v.gone]
<1>1. x \in Rollback(rows, t)
  BY DEF Rollback
<1>2. /\ v = [c \in DOMAIN v |-> v[c]]
      /\ {"by", "gone"} \cup C \subseteq DOMAIN v
  BY DEF Rows
<1>3. RollingBack(v, x, t, C)
  BY <1>2 DEF RollingBack, Columns
<1> QED
  BY <1>1, <1>3

\* What becomes of a row, victim or not.
LEMMA OfRemove ==
    ASSUME NEW rows, NEW C, Rows(rows, C), Columns(C), NEW t \in Requests,
           Nil \notin Requests, NEW victims, Removable(rows, victims, t),
           NEW v \in rows, v \in victims => v.by # t
    PROVE  \E x \in Remove(rows, victims, t) :
              Removing(v, x, t, v \in victims, C)
<1>1. /\ v = [c \in DOMAIN v |-> v[c]]
      /\ {"by", "gone"} \cup C \subseteq DOMAIN v
  BY DEF Rows
<1>2. CASE v \notin victims
  BY <1>1, <1>2 DEF Remove, Removing
<1>3. CASE v \in victims
  <2> DEFINE x == [v EXCEPT !.gone = t]
  <2>1. x \in Remove(rows, victims, t) /\ v.by = Nil
    BY <1>3 DEF Remove, Removable
  <2>2. Removing(v, x, t, v \in victims, C)
    BY <1>1, <1>3, <2>1 DEF Removing, Columns
  <2> QED
    BY <2>1, <2>2
<1> QED
  BY <1>2, <1>3

\* A new version n keeps a key if every row it agrees with on the key is the
\* one it replaces.
LEMMA AddKeeps ==
    ASSUME NEW rows, NEW C, Rows(rows, C), NEW n,
           n = [c \in DOMAIN n |-> n[c]], {"by", "gone"} \cup C \subseteq DOMAIN n,
           n.by \in Owners, n.gone = Nil
    PROVE  LET new == rows \cup {n}
           IN  /\ Rows(new, C)
               /\ \A D : /\ Unique(rows, D)
                         /\ \A v \in rows : SameOn(D, v, n) => Alt(v, n)
                         => Unique(new, D)
               /\ \A m : Numbered(rows, m) /\ n.id \in 1 .. m - 1
                         => Numbered(new, m)
               /\ \A s \in Requests : s # n.by /\ Nil \notin Requests
                     /\ Untouched(rows, s) => Untouched(new, s)
<1> DEFINE new == rows \cup {n}
<1>1. Rows(new, C)
  BY DEF Rows, Owners
<1>2. ASSUME NEW D, Unique(rows, D),
             \A v \in rows : SameOn(D, v, n) => Alt(v, n)
      PROVE  Unique(new, D)
  <2> SUFFICES ASSUME NEW x \in new, NEW y \in new, SameOn(D, x, y)
      PROVE  Alt(x, y)
    BY DEF Unique
  <2>1. CASE x \in rows /\ y \in rows
    BY <1>2, <2>1 DEF Unique
  <2>2. CASE x \in rows /\ y = n
    BY <1>2, <2>2
  <2>3. CASE x = n /\ y \in rows
    <3>1. SameOn(D, y, x)
      BY DEF SameOn
    <3> QED
      BY <1>2, <2>3, <3>1 DEF Alt
  <2> QED
    BY <2>1, <2>2, <2>3 DEF Alt
<1>3. ASSUME NEW m, Numbered(rows, m), n.id \in 1 .. m - 1
      PROVE  Numbered(new, m)
  BY <1>3 DEF Numbered
<1>4. ASSUME NEW s \in Requests, s # n.by, Nil \notin Requests,
             Untouched(rows, s)
      PROVE  Untouched(new, s)
  BY <1>4 DEF Untouched
<1> QED
  BY <1>1, <1>2, <1>3, <1>4

(* ---- References ------------------------------------------------------- *)

EntityColumns == {"id", "project", "name", "type"}

\* t, if it ends now either way, leaves an entity with this id to others: one
\* it sees is not locked, or its replacement is there too.
Lives(ents, id, t) ==
    \E e \in ents :
        /\ e.id = id /\ e.by \in {Nil, t}
        /\ e.gone = Nil \/ \E f \in ents : f.id = id /\ f.by = e.gone

\* t is deleting the entity with this id.
Going(ents, id, t) ==
    t # Nil /\ \E e \in ents : e.id = id /\ e.by = Nil /\ e.gone = t

\* The row v references an entity, in column c: one that stays, or one that
\* goes with it.
Refers(ents, v, c) ==
    \/ Lives(ents, v[c], v.by)
    \/ v.by = Nil /\ Going(ents, v[c], v.gone)

References(ents, rows, c) == \A v \in rows : Refers(ents, v, c)

\* No reference dangles after the commit of t: what t deleted, t deleted with
\* all its references.
LEMMA CommitRefers ==
    ASSUME NEW ents, Rows(ents, EntityColumns), NEW t \in Requests,
           Nil \notin Requests,
           NEW rows, NEW C, Rows(rows, C), Columns(C), NEW c \in C,
           References(ents, rows, c)
    PROVE  References(Commit(ents, t), Commit(rows, t), c)
<1> DEFINE ents2 == Commit(ents, t)
           K == EntityColumns
<1>0. Columns(K) /\ "id" \in K
  BY DEF Columns, EntityColumns
<1>1. \A e \in ents : e.gone # t => \E x \in ents2 : Committing(e, x, t, K)
  BY <1>0, OfCommit
<1>2. \A e, x : Committing(e, x, t, K) => x.id = e.id
  BY <1>0 DEF Committing
<1>3. \A e \in ents : e.by # Nil => e.gone = Nil
  BY DEF Rows
<1> HIDE DEF ents2, K
<1>4. ASSUME NEW id, NEW s, Lives(ents, id, s)
      PROVE  Lives(ents2, id, IF s = t THEN Nil ELSE s)
  <2>1. PICK e \in ents :
           /\ e.id = id /\ e.by \in {Nil, s}
           /\ e.gone = Nil \/ \E f \in ents : f.id = id /\ f.by = e.gone
    BY <1>4 DEF Lives
  <2>2. CASE e.gone = Nil
    <3>1. PICK x \in ents2 : Committing(e, x, t, K)
      BY <1>1, <2>2
    <3>2. x.id = id /\ x.gone = Nil /\ x.by \in {Nil, IF s = t THEN Nil ELSE s}
      BY <1>2, <2>1, <2>2, <3>1 DEF Committing
    <3> QED
      BY <3>2 DEF Lives
  <2>3. CASE e.gone # Nil
    <3>1. PICK f \in ents : f.id = id /\ f.by = e.gone
      BY <2>1, <2>3
    <3>2. f.gone = Nil /\ e.by = Nil
      BY <1>3, <2>3, <3>1
    <3>3. PICK y \in ents2 : Committing(f, y, t, K)
      BY <1>1, <3>2
    <3>4. y.id = id /\ y.gone = Nil
      BY <1>2, <3>1, <3>2, <3>3 DEF Committing
    <3>5. CASE e.gone = t
      <4>1. y.by = Nil
        BY <3>1, <3>3, <3>5 DEF Committing
      <4> QED
        BY <3>4, <4>1 DEF Lives
    <3>6. CASE e.gone # t
      <4>1. PICK x \in ents2 : Committing(e, x, t, K)
        BY <1>1, <3>6
      <4>2. x.id = id /\ x.by = Nil /\ x.gone = e.gone /\ y.by = x.gone
        BY <1>2, <2>1, <3>1, <3>2, <3>3, <3>6, <4>1 DEF Committing
      <4> QED
        BY <3>4, <4>2 DEF Lives
    <3> QED
      BY <3>5, <3>6
  <2> QED
    BY <2>2, <2>3
<1>5. ASSUME NEW id, NEW s, s # t, Going(ents, id, s)
      PROVE  Going(ents2, id, s)
  <2>1. PICK e \in ents : e.id = id /\ e.by = Nil /\ e.gone = s
    BY <1>5 DEF Going
  <2>2. PICK x \in ents2 : Committing(e, x, t, K)
    BY <1>1, <1>5, <2>1
  <2>3. x.id = id /\ x.by = Nil /\ x.gone = s
    BY <1>2, <2>1, <2>2 DEF Committing
  <2> QED
    BY <1>5, <2>3 DEF Going
<1> SUFFICES ASSUME NEW w \in Commit(rows, t)
    PROVE  Refers(ents2, w, c)
  BY DEF References, ents2
<1>6. PICK v \in rows : Committing(v, w, t, C)
  BY InCommit
<1>7. /\ Refers(ents, v, c) /\ w[c] = v[c] /\ v.gone # t /\ w.gone = v.gone
      /\ w.by = IF v.by = t THEN Nil ELSE v.by
  BY <1>6 DEF References, Committing
<1>8. CASE Lives(ents, v[c], v.by)
  BY <1>4, <1>7, <1>8 DEF Refers
<1>9. CASE v.by = Nil /\ Going(ents, v[c], v.gone)
  BY <1>5, <1>7, <1>9 DEF Refers
<1> QED
  BY <1>7, <1>8, <1>9 DEF Refers

\* Nor after its rollback: what t inserted, only rows of t refer to.
LEMMA RollbackRefers ==
    ASSUME NEW ents, Rows(ents, EntityColumns), NEW t \in Requests,
           Nil \notin Requests,
           NEW rows, NEW C, Rows(rows, C), Columns(C), NEW c \in C,
           References(ents, rows, c)
    PROVE  References(Rollback(ents, t), Rollback(rows, t), c)
<1> DEFINE ents2 == Rollback(ents, t)
           K == EntityColumns
<1>0. Columns(K) /\ "id" \in K
  BY DEF Columns, EntityColumns
<1>1. \A e \in ents : e.by # t => \E x \in ents2 : RollingBack(e, x, t, K)
  BY <1>0, OfRollback
<1>2. \A e, x : RollingBack(e, x, t, K) => x.id = e.id
  BY <1>0 DEF RollingBack
<1> HIDE DEF ents2, K
<1>4. ASSUME NEW id, NEW s, s # t, Lives(ents, id, s)
      PROVE  Lives(ents2, id, s)
  <2>1. PICK e \in ents :
           /\ e.id = id /\ e.by \in {Nil, s}
           /\ e.gone = Nil \/ \E f \in ents : f.id = id /\ f.by = e.gone
    BY <1>4 DEF Lives
  <2>2. PICK x \in ents2 : RollingBack(e, x, t, K)
    BY <1>1, <1>4, <2>1
  <2>3. x.id = id /\ x.by \in {Nil, s}
    BY <1>2, <2>1, <2>2 DEF RollingBack
  <2>4. CASE e.gone \in {Nil, t}
    BY <2>2, <2>3, <2>4 DEF Lives, RollingBack
  <2>5. CASE e.gone \notin {Nil, t}
    <3>1. PICK f \in ents : f.id = id /\ f.by = e.gone
      BY <2>1, <2>5
    <3>2. PICK y \in ents2 : RollingBack(f, y, t, K)
      BY <1>1, <2>5, <3>1
    <3>3. y.id = id /\ y.by = x.gone
      BY <1>2, <2>2, <2>5, <3>1, <3>2 DEF RollingBack
    <3> QED
      BY <2>3, <3>3 DEF Lives
  <2> QED
    BY <2>4, <2>5
<1>5. ASSUME NEW id, NEW s, Going(ents, id, s)
      PROVE  IF s = t THEN Lives(ents2, id, Nil) ELSE Going(ents2, id, s)
  <2>1. PICK e \in ents : e.id = id /\ e.by = Nil /\ e.gone = s
    BY <1>5 DEF Going
  <2>2. PICK x \in ents2 : RollingBack(e, x, t, K)
    BY <1>1, <2>1
  <2>3. x.id = id /\ x.by = Nil /\ x.gone = IF s = t THEN Nil ELSE s
    BY <1>2, <2>1, <2>2 DEF RollingBack
  <2> QED
    BY <1>5, <2>3 DEF Going, Lives
<1> SUFFICES ASSUME NEW w \in Rollback(rows, t)
    PROVE  Refers(ents2, w, c)
  BY DEF References, ents2
<1>6. PICK v \in rows : RollingBack(v, w, t, C)
  BY InRollback
<1>7. /\ Refers(ents, v, c) /\ w[c] = v[c] /\ v.by # t /\ w.by = v.by
      /\ w.gone = IF v.gone = t THEN Nil ELSE v.gone
  BY <1>6 DEF References, RollingBack
<1>8. CASE Lives(ents, v[c], v.by)
  BY <1>4, <1>7, <1>8 DEF Refers
<1>9. CASE v.by = Nil /\ Going(ents, v[c], v.gone)
  BY <1>5, <1>7, <1>9 DEF Refers
<1> QED
  BY <1>7, <1>8, <1>9 DEF Refers

\* Removing rows leaves the references of the others alone.
LEMMA RemoveRefers ==
    ASSUME NEW ents, NEW t \in Requests, Nil \notin Requests,
           NEW rows, NEW C, Rows(rows, C), Columns(C), NEW c \in C,
           References(ents, rows, c),
           NEW victims, Removable(rows, victims, t)
    PROVE  References(ents, Remove(rows, victims, t), c)
<1> SUFFICES ASSUME NEW w \in Remove(rows, victims, t)
    PROVE  Refers(ents, w, c)
  BY DEF References
<1>1. PICK v \in rows : Removing(v, w, t, v \in victims, C)
  BY InRemove
<1>2. Refers(ents, v, c) /\ w[c] = v[c] /\ w.by = v.by
  BY <1>1 DEF References, Removing
<1>3. CASE v \notin victims
  BY <1>1, <1>2, <1>3 DEF Removing
<1>4. CASE v \in victims
  <2>1. ~Going(ents, v[c], v.gone)
    BY <1>4 DEF Removable, Going
  <2> QED
    BY <1>2, <2>1 DEF Refers
<1> QED
  BY <1>3, <1>4

\* A table of entities that keeps each reference keeps them all.
LEMMA SameReferences ==
    ASSUME NEW ents, NEW ents2, NEW rows, NEW c, References(ents, rows, c),
           \A id, s : Lives(ents, id, s) => Lives(ents2, id, s),
           \A id, s : Going(ents, id, s) => Going(ents2, id, s)
    PROVE  References(ents2, rows, c)
BY DEF References, Refers

\* A new entity takes no reference away.
LEMMA AddEntityRefers ==
    ASSUME NEW ents, NEW n, NEW rows, NEW c, References(ents, rows, c)
    PROVE  References(ents \cup {n}, rows, c)
<1>1. \A id, s : Lives(ents, id, s) => Lives(ents \cup {n}, id, s)
  BY DEF Lives
<1>2. \A id, s : Going(ents, id, s) => Going(ents \cup {n}, id, s)
  BY DEF Going
<1> QED
  BY <1>1, <1>2, SameReferences

\* Nor does an entity that t replaces, as its replacement n has the same id.
LEMMA RenameRefers ==
    ASSUME NEW ents, Rows(ents, EntityColumns), NEW t \in Requests,
           Nil \notin Requests, NEW e \in ents, e.by = Nil, e.gone = Nil,
           NEW n, n.id = e.id, n.by = t,
           NEW rows, NEW c, References(ents, rows, c)
    PROVE  References(Remove(ents, {e}, t) \cup {n}, rows, c)
<1> DEFINE ents2 == Remove(ents, {e}, t) \cup {n}
           K == EntityColumns
<1>0. Columns(K) /\ "id" \in K /\ Removable(ents, {e}, t)
  BY DEF Columns, EntityColumns, Removable
<1>1. \A d \in ents : \E x \in ents2 : Removing(d, x, t, d \in {e}, K)
  <2> SUFFICES ASSUME NEW d \in ents
      PROVE  \E x \in ents2 : Removing(d, x, t, d \in {e}, K)
    OBVIOUS
  <2>1. d \in {e} => d.by # t
    OBVIOUS
  <2> QED
    BY <1>0, <2>1, OfRemove
<1>2. \A d, x, b : Removing(d, x, t, b, K) => x.id = d.id
  BY <1>0 DEF Removing
<1>3. n \in ents2
  OBVIOUS
<1> HIDE DEF ents2, K
<1>4. ASSUME NEW id, NEW s, Lives(ents, id, s)
      PROVE  Lives(ents2, id, s)
  <2>1. PICK d \in ents :
           /\ d.id = id /\ d.by \in {Nil, s}
           /\ d.gone = Nil \/ \E f \in ents : f.id = id /\ f.by = d.gone
    BY <1>4 DEF Lives
  <2>2. PICK x \in ents2 : Removing(d, x, t, d \in {e}, K)
    BY <1>1
  <2>3. x.id = id /\ x.by \in {Nil, s}
    BY <1>2, <2>1, <2>2 DEF Removing
  <2>4. CASE d = e
    BY <1>3, <2>1, <2>2, <2>3, <2>4 DEF Lives, Removing
  <2>5. CASE d # e /\ d.gone = Nil
    BY <2>2, <2>3, <2>5 DEF Lives, Removing
  <2>6. CASE d # e /\ d.gone # Nil
    <3>1. PICK f \in ents : f.id = id /\ f.by = d.gone
      BY <2>1, <2>6
    <3>2. PICK y \in ents2 : Removing(f, y, t, f \in {e}, K)
      BY <1>1
    <3>3. y.id = id /\ y.by = x.gone
      BY <1>2, <2>2, <2>6, <3>1, <3>2 DEF Removing
    <3> QED
      BY <2>3, <3>3 DEF Lives
  <2> QED
    BY <2>4, <2>5, <2>6
<1>5. ASSUME NEW id, NEW s, Going(ents, id, s)
      PROVE  Going(ents2, id, s)
  <2>1. PICK d \in ents : d.id = id /\ d.by = Nil /\ d.gone = s /\ s # Nil
    BY <1>5 DEF Going
  <2>2. PICK x \in ents2 : Removing(d, x, t, d \in {e}, K)
    BY <1>1
  <2>3. x = d
    BY <2>1, <2>2 DEF Removing
  <2> QED
    BY <2>1, <2>2, <2>3 DEF Going
<1>6. References(ents2, rows, c)
  BY <1>4, <1>5, SameReferences
<1> QED
  BY <1>6 DEF ents2

\* A deletion of entities takes along every row that refers to them.
LEMMA CascadeRefers ==
    ASSUME NEW ents, Rows(ents, EntityColumns), Unique(ents, {"id"}),
           NEW t \in Requests, Nil \notin Requests,
           NEW gone, gone \subseteq ents,
           \A e \in gone : e.by = Nil /\ e.gone = Nil,
           NEW rows, NEW C, Rows(rows, C), Columns(C), NEW c \in C,
           References(ents, rows, c),
           NEW victims, Removable(rows, victims, t),
           \A v \in rows : \A e \in gone :
              v[c] = e.id => v.by = Nil /\ v \in victims
    PROVE  References(Remove(ents, gone, t), Remove(rows, victims, t), c)
<1> DEFINE ents2 == Remove(ents, gone, t)
           K == EntityColumns
<1>0. Columns(K) /\ "id" \in K /\ Removable(ents, gone, t)
  BY DEF Columns, EntityColumns, Removable
<1>1. \A d \in ents : \E x \in ents2 : Removing(d, x, t, d \in gone, K)
  <2> SUFFICES ASSUME NEW d \in ents
      PROVE  \E x \in ents2 : Removing(d, x, t, d \in gone, K)
    OBVIOUS
  <2>1. d \in gone => d.by # t
    OBVIOUS
  <2> QED
    BY <1>0, <2>1, OfRemove
<1>2. \A d, x, b : Removing(d, x, t, b, K) => x.id = d.id
  BY <1>0 DEF Removing
<1> HIDE DEF ents2, K
\* Other ids keep their entities.
<1>3. ASSUME NEW id, NEW s, \A e \in gone : e.id # id, Lives(ents, id, s)
      PROVE  Lives(ents2, id, s)
  <2>1. PICK d \in ents :
           /\ d.id = id /\ d.by \in {Nil, s}
           /\ d.gone = Nil \/ \E f \in ents : f.id = id /\ f.by = d.gone
    BY <1>3 DEF Lives
  <2>2. \A f \in ents : f.id = id => f \in ents2
    BY <1>1, <1>3 DEF Removing
  <2> QED
    BY <2>1, <2>2 DEF Lives
<1>4. ASSUME NEW id, NEW s, Going(ents, id, s)
      PROVE  Going(ents2, id, s)
  <2>1. PICK d \in ents : d.id = id /\ d.by = Nil /\ d.gone = s /\ s # Nil
    BY <1>4 DEF Going
  <2>2. d \in ents2
    BY <1>1, <2>1 DEF Removing
  <2> QED
    BY <2>1, <2>2 DEF Going
<1>5. \A e \in gone : Going(ents2, e.id, t)
  <2> SUFFICES ASSUME NEW e \in gone
      PROVE  Going(ents2, e.id, t)
    OBVIOUS
  <2>1. PICK x \in ents2 : Removing(e, x, t, TRUE, K)
    BY <1>1
  <2> QED
    BY <1>2, <2>1 DEF Going, Removing
<1> SUFFICES ASSUME NEW w \in Remove(rows, victims, t)
    PROVE  Refers(ents2, w, c)
  BY DEF References, ents2
<1>6. PICK v \in rows : Removing(v, w, t, v \in victims, C)
  BY InRemove
<1>7. Refers(ents, v, c) /\ w[c] = v[c] /\ w.by = v.by
  BY <1>6 DEF References, Removing
<1>8. CASE \E e \in gone : e.id = v[c]
  <2>1. v.by = Nil /\ v \in victims /\ Going(ents2, v[c], t)
    BY <1>5, <1>8
  <2> QED
    BY <1>6, <1>7, <2>1 DEF Refers, Removing
<1>9. CASE \A e \in gone : e.id # v[c]
  <2>1. CASE Lives(ents, v[c], v.by)
    BY <1>3, <1>7, <1>9, <2>1 DEF Refers
  <2>2. CASE v.by = Nil /\ Going(ents, v[c], v.gone)
    <3>1. v \notin victims
      BY <2>2 DEF Going, Removable
    <3> QED
      BY <1>4, <1>6, <1>7, <2>2, <3>1 DEF Refers, Removing
  <2> QED
    BY <1>7, <2>1, <2>2 DEF Refers
<1> QED
  BY <1>8, <1>9

(* ---- The invariant ---------------------------------------------------- *)

ObservationColumns == {"id", "entity", "content"}
RelationColumns == {"id", "from", "to", "type"}
EntryColumns == {"id", "entity", "obs", "action", "old", "new"}

Tables ==
    /\ nextID \in Nat \ {0}
    /\ Rows(entities, EntityColumns) /\ Numbered(entities, nextID)
    /\ Rows(observations, ObservationColumns) /\ Numbered(observations, nextID)
    /\ Rows(relations, RelationColumns) /\ Numbered(relations, nextID)
    /\ Rows(history, EntryColumns) /\ Numbered(history, nextID)

Keys ==
    /\ Unique(entities, {"id"}) /\ Fixed(entities, "project")
    /\ Unique(entities, {"project", "name"})
    /\ Unique(observations, {"id"}) /\ Fixed(observations, "entity")
    /\ Unique(relations, {"from", "to", "type"})

ForeignKeys ==
    /\ References(entities, observations, "entity")
    /\ References(entities, relations, "from")
    /\ References(entities, relations, "to")

\* Uncommitted versions included, a relation joins entities of one project.
Apart ==
    \A x \in relations : \A e, f \in entities :
        e.id = x.from /\ f.id = x.to => e.project = f.project

\* Once the trail has an entry of its deletion, an observation has no version
\* but the one the deletion holds.
Erased ==
    \A h \in history : h.action = "observation_deleted" =>
        /\ h.obs \in 1 .. nextID - 1
        /\ \A o \in observations : o.id = h.obs =>
              h.by # Nil /\ o.by = Nil /\ o.gone = h.by

\* The id was resolved in that project.
InProject(id, project) ==
    /\ id \in 1 .. nextID - 1
    /\ \A e \in entities : e.id = id => e.project = project

\* An id read by a request that has written nothing: if there is a version of
\* it, there is a committed one.
Known(rows, id) ==
    (\E v \in rows : v.id = id) => \E v \in rows : v.id = id /\ v.by = Nil

\* Where a transaction may have written.
Open == {"find_item", "insert_item", "find_from", "insert_from", "find_to",
         "insert_to", "snap_obs", "clear_obs", "insert_obs", "insert_rel",
         "commit"}

Fields == {"pc", "asked", "plan", "items", "triples", "contents", "id", "id2",
           "obs", "name", "old", "snap", "seen", "cut"}
Shape(q) == q = [f \in DOMAIN q |-> q[f]] /\ DOMAIN q = Fields

Clean(r) ==
    /\ Untouched(entities, r) /\ Untouched(observations, r)
    /\ Untouched(relations, r) /\ Untouched(history, r)

\* What holds of request r in state q.
Local(q, r) ==
    /\ Shape(q) /\ q.plan \in Seq(Calls)
    /\ q.pc \notin {"idle", "done", "failed"} => q.plan # << >>
    /\ q.pc \notin Open => Clean(r)
    /\ q.pc \in {"check_name", "rename", "find_to", "insert_to", "insert_rel"} =>
          InProject(q.id, Head(q.plan).project)
    /\ q.pc = "insert_rel" => InProject(q.id2, Head(q.plan).project)
    /\ q.pc = "write_obs" =>
          q.obs \in 1 .. nextID - 1 /\ Known(observations, q.obs)
    /\ q.pc \in {"log", "log_insert"} => Head(q.plan).do = "log"

Requested ==
    /\ req = [r \in Requests |-> req[r]]
    /\ \A r \in Requests : Local(req[r], r)

Inv == Tables /\ Keys /\ ForeignKeys /\ Apart /\ Erased /\ Requested

\* The columns of the four tables.
LEMMA ColumnsOfTables ==
    /\ Columns(EntityColumns) /\ Columns(ObservationColumns)
    /\ Columns(RelationColumns) /\ Columns(EntryColumns)
    /\ {"id"} \subseteq EntityColumns /\ {"project", "name"} \subseteq EntityColumns
    /\ "project" \in EntityColumns /\ "id" \in EntityColumns
    /\ {"id"} \subseteq ObservationColumns /\ "id" \in ObservationColumns
    /\ "entity" \in ObservationColumns /\ "id" \in RelationColumns
    /\ {"from", "to", "type"} \subseteq RelationColumns
    /\ "from" \in RelationColumns /\ "to" \in RelationColumns
    /\ "id" \in EntryColumns /\ "obs" \in EntryColumns /\ "action" \in EntryColumns
BY DEF Columns, EntityColumns, ObservationColumns, RelationColumns, EntryColumns

\* Where StartCall stands.
LEMMA StartsCall ==
    ASSUME NEW asked, NEW plan \in Seq(Calls)
    PROVE  LET q == StartCall(asked, plan)
           IN  /\ Shape(q) /\ q.plan = plan
               /\ plan = << >> => q.pc = "done"
               /\ q.pc \in {"done", "find_item", "find_from", "commit"} \cup Kinds
               /\ q.pc = "log" => Head(plan).do = "log"
<1> DEFINE q == StartCall(asked, plan)
           start == [Fresh EXCEPT !.asked = asked, !.plan = plan]
<1>1. Shape(start) /\ start.plan = plan
  BY DEF Shape, Fresh, Fields
<1>2. CASE plan = << >>
  <2>1. q = [start EXCEPT !.pc = "done"]
    BY <1>2 DEF StartCall
  <2> QED
    BY <1>1, <1>2, <2>1 DEF Shape, Fields
<1>3. CASE plan # << >>
  <2> DEFINE call == Head(plan)
             pc == LoopPc(call.items, call.triples)
  <2>1. call \in Calls /\ call.do \in Kinds
    BY <1>3, PlanAssumption
  <2>2. pc \in {"find_item", "find_from", "commit"}
    BY DEF LoopPc
  <2>3. CASE call.do = "items"
    <3>1. q = [start EXCEPT !.pc = pc, !.items = call.items,
                            !.triples = call.triples]
      BY <1>3, <2>3 DEF StartCall
    <3> HIDE DEF call, pc
    <3> QED
      BY <1>1, <1>3, <2>2, <3>1 DEF Shape, Fields, q
  <2>4. CASE call.do # "items"
    <3>1. q = [start EXCEPT !.pc = call.do]
      BY <1>3, <2>4 DEF StartCall
    <3>2. call = Head(plan)
      OBVIOUS
    <3> HIDE DEF call
    <3> QED
      BY <1>1, <1>3, <2>1, <3>1, <3>2 DEF Shape, Fields, q
  <2> QED
    BY <2>3, <2>4
<1> QED
  BY <1>2, <1>3

\* A request that starts a call owns nothing, and asks for nothing yet.
LEMMA StartIsLocal ==
    ASSUME Inv, NEW r \in Requests, NEW asked, NEW plan \in Seq(Calls), Clean(r)
    PROVE  Local(StartCall(asked, plan), r)
<1> DEFINE q == StartCall(asked, plan)
<1>1. /\ Shape(q) /\ q.plan = plan
      /\ plan = << >> => q.pc = "done"
      /\ q.pc \in {"done", "find_item", "find_from", "commit"} \cup Kinds
      /\ q.pc = "log" => Head(plan).do = "log"
  BY StartsCall
<1>2. q.pc \notin {"check_name", "rename", "find_to", "insert_to", "insert_rel",
                   "write_obs", "log_insert"}
  BY <1>1 DEF Kinds
<1> HIDE DEF q
<1>3. Local(q, r)
  BY <1>1, <1>2 DEF Local
<1> QED
  BY <1>3 DEF q

\* A step that changes only the request.
LEMMA QuietStep ==
    ASSUME Inv, NEW r \in Requests, NEW q, Local(q, r),
           UNCHANGED tables, req' = [req EXCEPT ![r] = q]
    PROVE  Inv'
<1>1. /\ entities' = entities /\ observations' = observations
      /\ relations' = relations /\ history' = history /\ nextID' = nextID
  BY DEF tables
<1>2. Tables' /\ Keys' /\ ForeignKeys' /\ Apart' /\ Erased'
  BY <1>1 DEF Inv, Tables, Keys, ForeignKeys, Apart, Erased
<1>3. \A s \in Requests : req'[s] = IF s = r THEN q ELSE req[s]
  BY DEF Inv, Requested
<1>4. \A s \in Requests : Local(req'[s], s)
  BY <1>3 DEF Inv, Requested
<1>5. Requested'
  BY <1>1, <1>4 DEF Inv, Requested, Local, InProject, Clean
<1> QED
  BY <1>2, <1>5 DEF Inv

\* What a step must leave other requests: ids stay taken, an entity stays in
\* its project, what was committed stays visible.
Leaves ==
    /\ nextID' \in Nat /\ nextID' >= nextID
    /\ \A x \in entities' : x.id \in 1 .. nextID - 1 =>
          \E e \in entities : e.id = x.id /\ e.project = x.project
    /\ \A id \in 1 .. nextID - 1 :
          Known(observations, id) => Known(observations', id)

\* Numbers taken stay taken.
LEMMA Widen ==
    ASSUME NEW m \in Nat, NEW n \in Nat, n >= m
    PROVE  \A i \in 1 .. m - 1 : i \in 1 .. n - 1
OBVIOUS

\* An id that was resolved in a project stays there.
LEMMA InProjectStays ==
    ASSUME Inv, Leaves, NEW id, NEW project, InProject(id, project)
    PROVE  InProject(id, project)'
<1>1. nextID \in Nat /\ nextID' \in Nat /\ nextID' >= nextID
  BY DEF Leaves, Inv, Tables
<1>2. id \in 1 .. nextID - 1 /\ id \in 1 .. nextID' - 1
  BY <1>1, Widen DEF InProject
<1>3. ASSUME NEW x \in entities', x.id = id
      PROVE  x.project = project
  BY <1>2, <1>3 DEF Leaves, InProject
<1> QED
  BY <1>2, <1>3 DEF InProject

\* What a request relies on outlives the steps of others.
LEMMA LocalStays ==
    ASSUME Inv, Leaves, NEW s \in Requests, NEW q, Local(q, s),
           Clean(s) => Clean(s)'
    PROVE  Local(q, s)'
<1>1. \A id, project : InProject(id, project) => InProject(id, project)'
  BY InProjectStays
<1>2. \A id \in 1 .. nextID - 1 :
         Known(observations, id) => id \in 1 .. nextID' - 1 /\ Known(observations, id)'
  <2>1. nextID \in Nat /\ nextID' \in Nat /\ nextID' >= nextID
    BY DEF Leaves, Inv, Tables
  <2>2. \A id \in 1 .. nextID - 1 : id \in 1 .. nextID' - 1
    BY <2>1, Widen
  <2> QED
    BY <2>2 DEF Leaves
<1> QED
  BY <1>1, <1>2 DEF Local

\* A step of r that leaves what others need.
LEMMA OthersStay ==
    ASSUME Inv, Leaves, NEW r \in Requests, NEW q,
           req' = [req EXCEPT ![r] = q], Local(q, r)',
           \A s \in Requests : s # r /\ Clean(s) => Clean(s)'
    PROVE  Requested'
<1>1. \A s \in Requests : req'[s] = IF s = r THEN q ELSE req[s]
  BY DEF Inv, Requested
<1>2. req' = [s \in Requests |-> req'[s]]
  BY DEF Inv, Requested
<1>3. ASSUME NEW s \in Requests
      PROVE  Local(req[s], s)' \/ s = r
  <2>1. CASE s # r
    <3>1. PICK p : p = req[s]
      OBVIOUS
    <3>2. Local(p, s) /\ req'[s] = p
      BY <1>1, <2>1, <3>1 DEF Inv, Requested
    <3>3. Local(p, s)'
      BY <2>1, <3>2, LocalStays
    <3> QED
      BY <3>2, <3>3
  <2> QED
    BY <2>1
<1>4. \A s \in Requests : Local(req[s], s)'
  BY <1>1, <1>3
<1> QED
  BY <1>2, <1>4 DEF Requested

\* An id that a request has read stays known when another one commits,
LEMMA KnownCommits ==
    ASSUME NEW rows, NEW C, Rows(rows, C), Columns(C), "id" \in C,
           Unique(rows, {"id"}), NEW t \in Requests, NEW id, Known(rows, id)
    PROVE  Known(Commit(rows, t), id)
<1> SUFFICES ASSUME NEW x \in Commit(rows, t), x.id = id
    PROVE  \E y \in Commit(rows, t) : y.id = id /\ y.by = Nil
  BY DEF Known
<1>1. PICK v \in rows : Committing(v, x, t, C)
  BY InCommit
<1>2. v.id = id
  BY <1>1 DEF Committing
<1>3. PICK p \in rows : p.id = id /\ p.by = Nil
  BY <1>2 DEF Known
<1>4. CASE v.by \in {Nil, t}
  BY <1>1, <1>4 DEF Committing
<1>5. CASE v.by \notin {Nil, t}
  <2>1. Alt(p, v)
    BY <1>2, <1>3 DEF Unique, SameOn
  <2>2. p.gone # t
    BY <1>3, <1>5, <2>1 DEF Alt, Replaced
  <2>3. PICK y \in Commit(rows, t) : Committing(p, y, t, C)
    BY <2>2, OfCommit
  <2> QED
    BY <1>3, <2>3 DEF Committing
<1> QED
  BY <1>4, <1>5

\* ... rolls back,
LEMMA KnownRollsBack ==
    ASSUME NEW rows, NEW C, Rows(rows, C), Columns(C), "id" \in C,
           NEW t \in Requests, Nil \notin Requests, NEW id, Known(rows, id)
    PROVE  Known(Rollback(rows, t), id)
<1> SUFFICES ASSUME NEW x \in Rollback(rows, t), x.id = id
    PROVE  \E y \in Rollback(rows, t) : y.id = id /\ y.by = Nil
  BY DEF Known
<1>1. PICK v \in rows : RollingBack(v, x, t, C)
  BY InRollback
<1>2. PICK p \in rows : p.id = id /\ p.by = Nil
  BY <1>1 DEF Known, RollingBack
<1>3. PICK y \in Rollback(rows, t) : RollingBack(p, y, t, C)
  BY <1>2, OfRollback
<1> QED
  BY <1>2, <1>3 DEF RollingBack

\* ... or removes rows.
LEMMA KnownRemoves ==
    ASSUME NEW rows, NEW C, Rows(rows, C), Columns(C), "id" \in C,
           NEW t \in Requests, Nil \notin Requests,
           NEW victims, Removable(rows, victims, t), NEW id, Known(rows, id)
    PROVE  Known(Remove(rows, victims, t), id)
<1> SUFFICES ASSUME NEW x \in Remove(rows, victims, t), x.id = id
    PROVE  \E y \in Remove(rows, victims, t) : y.id = id /\ y.by = Nil
  BY DEF Known
<1>1. PICK v \in rows : Removing(v, x, t, v \in victims, C)
  BY InRemove
<1>2. PICK p \in rows : p.id = id /\ p.by = Nil
  BY <1>1 DEF Known, Removing
<1>3. PICK y \in Remove(rows, victims, t) :
         Removing(p, y, t, p \in victims, C)
  BY <1>2, OfRemove
<1> QED
  BY <1>2, <1>3 DEF Removing

(* ---- The end of a transaction ----------------------------------------- *)

\* The tables after a rollback.
LEMMA RollbackTables ==
    ASSUME Inv, NEW r \in Requests,
           entities' = Rollback(entities, r),
           observations' = Rollback(observations, r),
           relations' = Rollback(relations, r),
           history' = Rollback(history, r),
           nextID' = nextID
    PROVE  /\ Tables' /\ Keys' /\ ForeignKeys' /\ Apart' /\ Erased'
           /\ Leaves /\ Clean(r)'
           /\ \A s \in Requests : s # r /\ Clean(s) => Clean(s)'
<1>1. Tables /\ Keys /\ ForeignKeys /\ Apart /\ Erased /\ Nil \notin Requests
  BY PlanAssumption DEF Inv
<1>2. /\ Rows(entities', EntityColumns)
      /\ \A D : D \subseteq EntityColumns /\ Unique(entities, D)
                  => Unique(entities', D)
      /\ Numbered(entities', nextID)
      /\ Fixed(entities', "project")
      /\ Untouched(entities', r)
      /\ \A s \in Requests : s # r /\ Untouched(entities, s)
                               => Untouched(entities', s)
  BY <1>1, ColumnsOfTables, RollbackKeeps DEF Tables, Keys
<1>3. /\ Rows(observations', ObservationColumns)
      /\ \A D : D \subseteq ObservationColumns /\ Unique(observations, D)
                  => Unique(observations', D)
      /\ Numbered(observations', nextID)
      /\ Fixed(observations', "entity")
      /\ Untouched(observations', r)
      /\ \A s \in Requests : s # r /\ Untouched(observations, s)
                               => Untouched(observations', s)
  BY <1>1, ColumnsOfTables, RollbackKeeps DEF Tables, Keys
<1>4. /\ Rows(relations', RelationColumns)
      /\ \A D : D \subseteq RelationColumns /\ Unique(relations, D)
                  => Unique(relations', D)
      /\ Numbered(relations', nextID)
      /\ Untouched(relations', r)
      /\ \A s \in Requests : s # r /\ Untouched(relations, s)
                               => Untouched(relations', s)
  BY <1>1, ColumnsOfTables, RollbackKeeps DEF Tables, Keys
<1>5. /\ Rows(history', EntryColumns)
      /\ Numbered(history', nextID)
      /\ Untouched(history', r)
      /\ \A s \in Requests : s # r /\ Untouched(history, s)
                               => Untouched(history', s)
  BY <1>1, ColumnsOfTables, RollbackKeeps DEF Tables, Keys
<1>6. Tables'
  BY <1>1, <1>2, <1>3, <1>4, <1>5 DEF Tables
<1>7. Keys'
  BY <1>1, <1>2, <1>3, <1>4, ColumnsOfTables DEF Keys
<1>8. ForeignKeys'
  BY <1>1, ColumnsOfTables, RollbackRefers DEF Tables, ForeignKeys
<1>9. \A x \in entities' : \E e \in entities : RollingBack(e, x, r, EntityColumns)
  BY <1>1, ColumnsOfTables, InRollback DEF Tables
<1>10. \A x \in entities' : \E e \in entities :
          e.id = x.id /\ e.project = x.project
  BY <1>9, ColumnsOfTables DEF RollingBack
<1>11. \A x \in relations' : \E v \in relations :
          v.from = x.from /\ v.to = x.to
  <2>1. \A x \in relations' : \E v \in relations :
           RollingBack(v, x, r, RelationColumns)
    BY <1>1, ColumnsOfTables, InRollback DEF Tables
  <2> QED
    BY <2>1, ColumnsOfTables DEF RollingBack
<1>12. Apart'
  <2> SUFFICES ASSUME NEW x \in relations', NEW d \in entities', NEW e \in entities',
                      d.id = x.from, e.id = x.to
      PROVE  d.project = e.project
    BY DEF Apart
  <2> QED
    BY <1>1, <1>10, <1>11 DEF Apart
<1>13. Erased'
  <2> SUFFICES ASSUME NEW g \in history', g.action = "observation_deleted"
      PROVE  /\ g.obs \in 1 .. nextID - 1
             /\ \A p \in observations' : p.id = g.obs =>
                   g.by # Nil /\ p.by = Nil /\ p.gone = g.by
    BY DEF Erased
  <2>1. PICK h \in history : RollingBack(h, g, r, EntryColumns)
    BY <1>1, ColumnsOfTables, InRollback DEF Tables
  <2>2. h.action = g.action /\ h.obs = g.obs /\ h.by = g.by /\ h.by # r
    BY <2>1, ColumnsOfTables DEF RollingBack
  <2>3. ASSUME NEW p \in observations', p.id = g.obs
        PROVE  g.by # Nil /\ p.by = Nil /\ p.gone = g.by
    <3>1. PICK o \in observations : RollingBack(o, p, r, ObservationColumns)
      BY <1>1, ColumnsOfTables, InRollback DEF Tables
    <3>2. o.id = g.obs
      BY <2>3, <3>1, ColumnsOfTables DEF RollingBack
    <3> QED
      BY <1>1, <2>2, <3>1, <3>2 DEF Erased, RollingBack
  <2> QED
    BY <1>1, <2>2, <2>3 DEF Erased
<1>14. Leaves
  <2>1. \A id : Known(observations, id) => Known(observations', id)
    BY <1>1, ColumnsOfTables, KnownRollsBack DEF Tables
  <2> QED
    BY <1>1, <1>10, <2>1 DEF Leaves, Tables
<1>15. Clean(r)' /\ \A s \in Requests : s # r /\ Clean(s) => Clean(s)'
  BY <1>2, <1>3, <1>4, <1>5 DEF Clean
<1> QED
  BY <1>6, <1>7, <1>8, <1>12, <1>13, <1>14, <1>15

\* The error return of any statement.
LEMMA FailStep ==
    ASSUME Inv, NEW r \in Requests, Fail(r)
    PROVE  Inv'
<1> DEFINE q == [Fresh EXCEPT !.pc = "failed", !.asked = req[r].asked]
<1>1. /\ Tables' /\ Keys' /\ ForeignKeys' /\ Apart' /\ Erased'
      /\ Leaves /\ Clean(r)'
      /\ \A s \in Requests : s # r /\ Clean(s) => Clean(s)'
  BY RollbackTables DEF Fail, UndoHistory
<1>2. PICK p : p = q
  OBVIOUS
<1>3. /\ Shape(p) /\ p.pc = "failed" /\ p.plan = << >>
  BY <1>2 DEF Shape, Fresh, Fields
<1>4. Local(p, r)'
  BY <1>1, <1>3 DEF Local
<1>5. req' = [req EXCEPT ![r] = p]
  BY <1>2 DEF Fail
<1>6. Requested'
  BY <1>1, <1>4, <1>5, OthersStay
<1> QED
  BY <1>1, <1>6 DEF Inv

\* The tables after a commit.
LEMMA CommitTables ==
    ASSUME Inv, NEW r \in Requests,
           entities' = Commit(entities, r),
           observations' = Commit(observations, r),
           relations' = Commit(relations, r),
           history' = Commit(history, r),
           nextID' = nextID
    PROVE  /\ Tables' /\ Keys' /\ ForeignKeys' /\ Apart' /\ Erased'
           /\ Leaves /\ Clean(r)'
           /\ \A s \in Requests : s # r /\ Clean(s) => Clean(s)'
<1>1. Tables /\ Keys /\ ForeignKeys /\ Apart /\ Erased /\ Nil \notin Requests
  BY PlanAssumption DEF Inv
<1>2. /\ Rows(entities', EntityColumns)
      /\ \A D : D \subseteq EntityColumns /\ Unique(entities, D)
                  => Unique(entities', D)
      /\ Numbered(entities', nextID)
      /\ Fixed(entities', "project")
      /\ Untouched(entities', r)
      /\ \A s \in Requests : s # r /\ Untouched(entities, s)
                               => Untouched(entities', s)
  BY <1>1, ColumnsOfTables, CommitKeeps DEF Tables, Keys
<1>3. /\ Rows(observations', ObservationColumns)
      /\ \A D : D \subseteq ObservationColumns /\ Unique(observations, D)
                  => Unique(observations', D)
      /\ Numbered(observations', nextID)
      /\ Fixed(observations', "entity")
      /\ Untouched(observations', r)
      /\ \A s \in Requests : s # r /\ Untouched(observations, s)
                               => Untouched(observations', s)
  BY <1>1, ColumnsOfTables, CommitKeeps DEF Tables, Keys
<1>4. /\ Rows(relations', RelationColumns)
      /\ \A D : D \subseteq RelationColumns /\ Unique(relations, D)
                  => Unique(relations', D)
      /\ Numbered(relations', nextID)
      /\ Untouched(relations', r)
      /\ \A s \in Requests : s # r /\ Untouched(relations, s)
                               => Untouched(relations', s)
  BY <1>1, ColumnsOfTables, CommitKeeps DEF Tables, Keys
<1>5. /\ Rows(history', EntryColumns)
      /\ Numbered(history', nextID)
      /\ Untouched(history', r)
      /\ \A s \in Requests : s # r /\ Untouched(history, s)
                               => Untouched(history', s)
  BY <1>1, ColumnsOfTables, CommitKeeps DEF Tables, Keys
<1>6. Tables'
  BY <1>1, <1>2, <1>3, <1>4, <1>5 DEF Tables
<1>7. Keys'
  BY <1>1, <1>2, <1>3, <1>4, ColumnsOfTables DEF Keys
<1>8. ForeignKeys'
  BY <1>1, ColumnsOfTables, CommitRefers DEF Tables, ForeignKeys
<1>9. \A x \in entities' : \E e \in entities : Committing(e, x, r, EntityColumns)
  BY <1>1, ColumnsOfTables, InCommit DEF Tables
<1>10. \A x \in entities' : \E e \in entities :
          e.id = x.id /\ e.project = x.project
  BY <1>9, ColumnsOfTables DEF Committing
<1>11. \A x \in relations' : \E v \in relations :
          v.from = x.from /\ v.to = x.to
  <2>1. \A x \in relations' : \E v \in relations :
           Committing(v, x, r, RelationColumns)
    BY <1>1, ColumnsOfTables, InCommit DEF Tables
  <2> QED
    BY <2>1, ColumnsOfTables DEF Committing
<1>12. Apart'
  <2> SUFFICES ASSUME NEW x \in relations', NEW d \in entities', NEW e \in entities',
                      d.id = x.from, e.id = x.to
      PROVE  d.project = e.project
    BY DEF Apart
  <2> QED
    BY <1>1, <1>10, <1>11 DEF Apart
<1>13. Erased'
  <2> SUFFICES ASSUME NEW g \in history', g.action = "observation_deleted"
      PROVE  /\ g.obs \in 1 .. nextID - 1
             /\ \A p \in observations' : p.id = g.obs =>
                   g.by # Nil /\ p.by = Nil /\ p.gone = g.by
    BY DEF Erased
  <2>1. PICK h \in history : Committing(h, g, r, EntryColumns)
    BY <1>1, ColumnsOfTables, InCommit DEF Tables
  <2>2. /\ h.action = g.action /\ h.obs = g.obs
        /\ g.by = IF h.by = r THEN Nil ELSE h.by
    BY <2>1, ColumnsOfTables DEF Committing
  <2>3. ASSUME NEW p \in observations', p.id = g.obs
        PROVE  g.by # Nil /\ p.by = Nil /\ p.gone = g.by
    <3>1. PICK o \in observations : Committing(o, p, r, ObservationColumns)
      BY <1>1, ColumnsOfTables, InCommit DEF Tables
    <3>2. o.id = g.obs
      BY <2>3, <3>1, ColumnsOfTables DEF Committing
    <3> QED
      BY <1>1, <2>2, <3>1, <3>2 DEF Erased, Committing
  <2> QED
    BY <1>1, <2>2, <2>3 DEF Erased
<1>14. Leaves
  <2>1. \A id : Known(observations, id) => Known(observations', id)
    BY <1>1, ColumnsOfTables, KnownCommits DEF Tables, Keys
  <2> QED
    BY <1>1, <1>10, <2>1 DEF Leaves, Tables
<1>15. Clean(r)' /\ \A s \in Requests : s # r /\ Clean(s) => Clean(s)'
  BY <1>2, <1>3, <1>4, <1>5 DEF Clean
<1> QED
  BY <1>6, <1>7, <1>8, <1>12, <1>13, <1>14, <1>15

\* The end of a call, and the start of the next one.
LEMMA CommitStep ==
    ASSUME Inv, NEW r \in Requests, CommitTx(r)
    PROVE  Inv'
<1>1. /\ Tables' /\ Keys' /\ ForeignKeys' /\ Apart' /\ Erased'
      /\ Leaves /\ Clean(r)'
      /\ \A s \in Requests : s # r /\ Clean(s) => Clean(s)'
  BY CommitTables DEF CommitTx
<1>2. req[r].plan \in Seq(Calls) /\ req[r].plan # << >>
  BY DEF CommitTx, Inv, Requested, Local
<1>3. PICK asked, plan : asked = req[r].asked /\ plan = Tail(req[r].plan)
  OBVIOUS
<1>4. plan \in Seq(Calls)
  BY <1>2, <1>3
<1>5. PICK q : /\ req' = [req EXCEPT ![r] = q]
              /\ \/ q = StartCall(asked, plan)
                 \/ q = [Fresh EXCEPT !.pc = "failed", !.asked = asked]
  BY <1>3 DEF CommitTx
<1>6. Local(q, r)'
  <2>1. CASE q = StartCall(asked, plan)
    <3>1. /\ Shape(q) /\ q.plan = plan
          /\ plan = << >> => q.pc = "done"
          /\ q.pc \in {"done", "find_item", "find_from", "commit"} \cup Kinds
          /\ q.pc = "log" => Head(plan).do = "log"
      BY <1>4, <2>1, StartsCall
    <3>2. q.pc \notin {"check_name", "rename", "find_to", "insert_to",
                       "insert_rel", "write_obs", "log_insert"}
      BY <3>1 DEF Kinds
    <3> QED
      BY <1>1, <1>4, <3>1, <3>2 DEF Local
  <2>2. CASE q = [Fresh EXCEPT !.pc = "failed", !.asked = asked]
    <3>1. Shape(q) /\ q.pc = "failed" /\ q.plan = << >>
      BY <2>2 DEF Shape, Fresh, Fields
    <3> QED
      BY <1>1, <3>1 DEF Local
  <2> QED
    BY <1>5, <2>1, <2>2
<1>7. Requested'
  BY <1>1, <1>5, <1>6, OthersStay
<1> QED
  BY <1>1, <1>7 DEF Inv

(* ---- Request states --------------------------------------------------- *)

LEMMA Moves ==
    ASSUME NEW q, Shape(q), NEW pc
    PROVE  LET n == [q EXCEPT !.pc = pc]
           IN  /\ Shape(n) /\ n.plan = q.plan /\ n.pc = pc /\ n.id = q.id
               /\ n.id2 = q.id2 /\ n.obs = q.obs
BY DEF Shape, Fields

LEMMA LoopPcs ==
    ASSUME NEW items, NEW triples
    PROVE  LoopPc(items, triples) \in {"find_item", "find_from", "commit"}
BY DEF LoopPc

LEMMA ItemFollows ==
    ASSUME NEW q, Shape(q)
    PROVE  /\ Shape(AfterItem(q)) /\ AfterItem(q).plan = q.plan
           /\ AfterItem(q).pc \in {"insert_obs", "find_item", "find_from", "commit"}
<1>1. CASE q.contents # << >>
  BY <1>1 DEF AfterItem, Shape, Fields
<1>2. CASE q.contents = << >>
  <2>1. PICK pc : pc = LoopPc(Tail(q.items), q.triples)
    OBVIOUS
  <2>2. AfterItem(q) = [q EXCEPT !.items = Tail(@), !.pc = pc]
    BY <1>2, <2>1 DEF AfterItem
  <2>3. PICK m : m = [q EXCEPT !.items = Tail(@), !.pc = pc]
    OBVIOUS
  <2>4. Shape(m) /\ m.plan = q.plan /\ m.pc = pc
    BY <2>3 DEF Shape, Fields
  <2> QED
    BY <2>1, <2>2, <2>3, <2>4, LoopPcs
<1> QED
  BY <1>1, <1>2

\* The pcs at which a request looks for or inserts an entity.
Seeking == {"find_item", "insert_item", "find_from", "insert_from", "find_to",
            "insert_to"}

\* Where a request goes once its entity is resolved.
LEMMA Resolves ==
    ASSUME Inv, NEW r \in Requests, NEW id, req[r].pc \in Seeking
    PROVE  LET n == Resolve(r, id)
           IN  /\ Shape(n) /\ n.plan = req[r].plan
               /\ \/ n.pc \in {"snap_obs", "insert_obs", "find_item",
                               "find_from", "commit"}
                  \/ n.pc = "find_to" /\ n.id = id
                  \/ /\ n.pc = "insert_rel" /\ n.id2 = id
                     /\ n.id = req[r].id /\ req[r].pc \in {"find_to", "insert_to"}
<1> DEFINE n == Resolve(r, id)
<1>1. PICK q : q = req[r]
  OBVIOUS
<1>2. Shape(q)
  BY <1>1 DEF Inv, Requested, Local
<1>3. CASE q.pc \in {"find_item", "insert_item"}
  <2>1. PICK m : m = [q EXCEPT !.id = id, !.contents = Item(r).obs]
    OBVIOUS
  <2>2. Shape(m) /\ m.plan = q.plan
    BY <1>2, <2>1 DEF Shape, Fields
  <2>3. n = IF q.pc = "find_item" /\ Call(r).replace THEN [m EXCEPT !.pc = "snap_obs"]
            ELSE AfterItem(m)
    BY <1>1, <1>3, <2>1 DEF Resolve
  <2>4. /\ Shape([m EXCEPT !.pc = "snap_obs"])
        /\ [m EXCEPT !.pc = "snap_obs"].plan = m.plan
        /\ [m EXCEPT !.pc = "snap_obs"].pc = "snap_obs"
    BY <2>2 DEF Shape, Fields
  <2>5. /\ Shape(AfterItem(m)) /\ AfterItem(m).plan = m.plan
        /\ AfterItem(m).pc \in {"insert_obs", "find_item", "find_from", "commit"}
    BY <2>2, ItemFollows
  <2> HIDE DEF n
  <2>6. Shape(n) /\ n.plan = q.plan
    BY <2>2, <2>3, <2>4, <2>5
  <2>7. n.pc \in {"snap_obs", "insert_obs", "find_item", "find_from", "commit"}
    BY <2>3, <2>4, <2>5
  <2> QED
    BY <1>1, <2>6, <2>7 DEF n
<1>4. CASE q.pc \in {"find_from", "insert_from"}
  <2>1. n = [q EXCEPT !.id = id, !.pc = "find_to"]
    BY <1>1, <1>4 DEF Resolve
  <2>2. PICK m : m = [q EXCEPT !.id = id, !.pc = "find_to"]
    OBVIOUS
  <2>3. Shape(m) /\ m.plan = q.plan /\ m.pc = "find_to" /\ m.id = id
    BY <1>2, <2>2 DEF Shape, Fields
  <2> QED
    BY <1>1, <2>1, <2>2, <2>3
<1>5. CASE q.pc \in {"find_to", "insert_to"}
  <2>1. n = [q EXCEPT !.id2 = id, !.pc = "insert_rel"]
    BY <1>1, <1>5 DEF Resolve
  <2>2. PICK m : m = [q EXCEPT !.id2 = id, !.pc = "insert_rel"]
    OBVIOUS
  <2>3. /\ Shape(m) /\ m.plan = q.plan /\ m.pc = "insert_rel"
        /\ m.id2 = id /\ m.id = q.id
    BY <1>2, <2>2 DEF Shape, Fields
  <2> QED
    BY <1>1, <1>5, <2>1, <2>2, <2>3
<1> QED
  BY <1>1, <1>3, <1>4, <1>5 DEF Seeking

LEMMA Grows ==
    ASSUME NEW rows, NEW m \in Nat, NEW n \in Nat, n >= m, Numbered(rows, m)
    PROVE  Numbered(rows, n)
BY Widen DEF Numbered

LEMMA NumbersGrow ==
    ASSUME Tables, nextID' \in Nat, nextID' >= nextID
    PROVE  /\ Numbered(entities, nextID') /\ Numbered(observations, nextID')
           /\ Numbered(relations, nextID') /\ Numbered(history, nextID')
<1>1. PICK m, n : m = nextID /\ n = nextID'
  OBVIOUS
<1>2. m \in Nat /\ n \in Nat /\ n >= m
  BY <1>1 DEF Tables
<1> QED
  BY <1>1, <1>2, Grows DEF Tables

\* When nobody else holds a row of X and t sees none, t has removed them.
LEMMA NobodyElse ==
    ASSUME NEW rows, NEW C, Rows(rows, C), NEW X, X \subseteq rows,
           NEW t \in Requests, Nil \notin Requests,
           UniqueWait(X, t) = {}, Visible(X, t) = {}, NEW v \in X
    PROVE  v.by = Nil /\ v.gone = t
BY DEF Rows, UniqueWait, Inserters, Writers, Visible

\* A statement that waits for nobody may remove what it sees.
LEMMA FreeToRemove ==
    ASSUME NEW rows, NEW C, Rows(rows, C), NEW X, X \subseteq rows,
           NEW t \in Requests, Nil \notin Requests, Writers(X, t) = {}
    PROVE  Removable(rows, Visible(X, t), t)
BY DEF Rows, Writers, Visible, Removable

(* ---- Statements that write entities ----------------------------------- *)

\* The tables after the INSERT of an entity whose name nobody else holds.
LEMMA InsertEntityTables ==
    ASSUME Inv, NEW r \in Requests, NEW n, NEW project, NEW name, NEW type,
           n = [by |-> r, gone |-> Nil, id |-> nextID, project |-> project,
                name |-> name, type |-> type],
           UniqueWait(Named(project, name), r) = {},
           Visible(Named(project, name), r) = {},
           entities' = entities \cup {n}, nextID' = nextID + 1,
           observations' = observations, relations' = relations,
           history' = history
    PROVE  /\ Tables' /\ Keys' /\ ForeignKeys' /\ Apart' /\ Erased' /\ Leaves
           /\ \A id : id = nextID => InProject(id, project)'
           /\ \A s \in Requests : s # r /\ Clean(s) => Clean(s)'
<1>1. Tables /\ Keys /\ ForeignKeys /\ Apart /\ Erased /\ Nil \notin Requests
  BY PlanAssumption DEF Inv
<1>2. /\ nextID \in Nat /\ nextID >= 1 /\ nextID' \in Nat \ {0}
      /\ nextID' >= nextID /\ nextID \in 1 .. nextID' - 1
      /\ nextID \notin 1 .. nextID - 1
  BY <1>1 DEF Tables
<1>3. /\ n = [c \in DOMAIN n |-> n[c]]
      /\ {"by", "gone"} \cup EntityColumns \subseteq DOMAIN n
      /\ n.by = r /\ n.gone = Nil /\ n.id = nextID /\ n.project = project
      /\ n.name = name
  BY DEF EntityColumns
<1>4. \A v \in entities : SameOn({"id"}, v, n) => Alt(v, n)
  BY <1>1, <1>2, <1>3 DEF Tables, Numbered, SameOn
<1>5. \A v \in entities : SameOn({"project", "name"}, v, n) => Alt(v, n)
  <2> SUFFICES ASSUME NEW v \in entities, SameOn({"project", "name"}, v, n)
      PROVE  Alt(v, n)
    OBVIOUS
  <2>1. v \in Named(project, name)
    BY <1>3 DEF SameOn, Named
  <2>2. Named(project, name) \subseteq entities
    BY DEF Named
  <2>3. v.by = Nil /\ v.gone = r
    BY <1>1, <2>1, <2>2, NobodyElse DEF Tables
  <2> QED
    BY <1>1, <1>3, <2>3 DEF Alt, Replaced
<1>6. Numbered(entities, nextID')
  BY <1>1, <1>2, Grows DEF Tables
<1>7. /\ Rows(entities', EntityColumns) /\ Numbered(entities', nextID')
      /\ Unique(entities', {"id"}) /\ Unique(entities', {"project", "name"})
      /\ \A s \in Requests : s # r /\ Untouched(entities, s)
                               => Untouched(entities', s)
  <2>1. /\ Rows(entities, EntityColumns) /\ Unique(entities, {"id"})
        /\ Unique(entities, {"project", "name"})
    BY <1>1 DEF Tables, Keys
  <2>2. PICK m : m = n
    OBVIOUS
  <2>3. /\ m = [c \in DOMAIN m |-> m[c]]
        /\ {"by", "gone"} \cup EntityColumns \subseteq DOMAIN m
        /\ m.by \in Owners /\ m.gone = Nil /\ m.by = r
    BY <1>3, <2>2 DEF Owners
  <2>4. \A v \in entities : /\ SameOn({"id"}, v, m) => Alt(v, m)
                            /\ SameOn({"project", "name"}, v, m) => Alt(v, m)
    BY <1>4, <1>5, <2>2
  <2>5. m.id \in 1 .. nextID' - 1
    BY <1>2, <1>3, <2>2
  <2> HIDE DEF EntityColumns
  <2>6. /\ Rows(entities \cup {m}, EntityColumns)
        /\ \A D : /\ Unique(entities, D)
                  /\ \A v \in entities : SameOn(D, v, m) => Alt(v, m)
                  => Unique(entities \cup {m}, D)
        /\ \A k : Numbered(entities, k) /\ m.id \in 1 .. k - 1
                  => Numbered(entities \cup {m}, k)
        /\ \A s \in Requests : s # m.by /\ Nil \notin Requests
              /\ Untouched(entities, s) => Untouched(entities \cup {m}, s)
    BY <2>1, <2>3, AddKeeps
  <2>7. entities' = entities \cup {m}
    BY <2>2
  <2> QED
    BY <1>1, <1>6, <2>1, <2>3, <2>4, <2>5, <2>6, <2>7
<1>8. Tables'
  BY <1>1, <1>2, <1>7, Grows DEF Tables
<1>9. \A v \in entities : v.id # nextID
  BY <1>1, <1>2 DEF Tables, Numbered
<1>10. Fixed(entities', "project")
  BY <1>1, <1>3, <1>9 DEF Keys, Fixed
<1>11. Keys'
  BY <1>1, <1>7, <1>10 DEF Keys
<1>12. ForeignKeys'
  BY <1>1, AddEntityRefers DEF ForeignKeys
\* No relation refers to the new entity yet.
<1>13. \A x \in relations : x.from # nextID /\ x.to # nextID
  <2>1. \A x \in relations : Refers(entities, x, "from") /\ Refers(entities, x, "to")
    BY <1>1 DEF ForeignKeys, References
  <2> QED
    BY <1>9, <2>1 DEF Refers, Lives, Going
<1>14. Apart'
  BY <1>1, <1>3, <1>13 DEF Apart
<1>15. Erased'
  BY <1>1, <1>2, Widen DEF Erased
<1>16. Leaves
  BY <1>2, <1>3 DEF Leaves
<1>17. ASSUME NEW id, id = nextID
       PROVE  InProject(id, project)'
  <2>1. id = nextID
    BY <1>17
  <2>2. \A e \in entities' : e.id = id => e.project = project
    BY <1>3, <1>9, <2>1
  <2>3. id \in 1 .. nextID' - 1
    BY <1>2, <2>1
  <2> QED
    BY <2>1, <2>2, <2>3 DEF InProject
<1>18. \A s \in Requests : s # r /\ Clean(s) => Clean(s)'
  BY <1>7 DEF Clean
<1> QED
  BY <1>8, <1>11, <1>12, <1>14, <1>15, <1>16, <1>17, <1>18

\* A request in an open transaction whose ids nobody relies on.
LEMMA OpenIsLocal ==
    ASSUME NEW r, NEW q, Shape(q), q.plan \in Seq(Calls), q.plan # << >>,
           q.pc \in Open \ {"find_to", "insert_to", "insert_rel"}
    PROVE  Local(q, r)
BY DEF Local, Open

LEMMA OpenIsLocalNext ==
    ASSUME NEW r, NEW q, Shape(q), q.plan \in Seq(Calls), q.plan # << >>,
           q.pc \in Open \ {"find_to", "insert_to", "insert_rel"}
    PROVE  Local(q, r)'
BY DEF Local, Open

\* The plan of a running request.
LEMMA HasPlan ==
    ASSUME Inv, NEW r \in Requests, req[r].pc \notin {"idle", "done", "failed"}
    PROVE  /\ Shape(req[r]) /\ req[r].plan \in Seq(Calls) /\ req[r].plan # << >>
           /\ Call(r) \in Calls /\ Call(r) = Head(req[r].plan)
<1>1. req[r].plan \in Seq(Calls) /\ req[r].plan # << >> /\ Shape(req[r])
  BY DEF Inv, Requested, Local
<1>2. PICK plan \in Seq(Calls) : plan = req[r].plan
  BY <1>1
<1>3. Head(plan) \in Calls
  BY <1>1, <1>2
<1> QED
  BY <1>1, <1>2, <1>3 DEF Call

LEMMA FindEntityStep ==
    ASSUME Inv, NEW r \in Requests, FindEntity(r)
    PROVE  Inv'
<1> DEFINE E == Visible(Named(Call(r).project, Wanted(r).name), r)
           insert == CASE req[r].pc = "find_item" -> "insert_item"
                       [] req[r].pc = "find_from" -> "insert_from"
                       [] req[r].pc = "find_to" -> "insert_to"
<1>1. /\ req[r].pc \in {"find_item", "find_from", "find_to"}
      /\ \/ \E e \in E : req' = [req EXCEPT ![r] = Resolve(r, e.id)]
         \/ req' = [req EXCEPT ![r].pc = insert]
      /\ UNCHANGED tables
  BY DEF FindEntity
<1>2. /\ Shape(req[r]) /\ req[r].plan \in Seq(Calls) /\ req[r].plan # << >>
      /\ Call(r) = Head(req[r].plan)
  BY <1>1, HasPlan
<1>3. ASSUME NEW e \in E, req' = [req EXCEPT ![r] = Resolve(r, e.id)]
      PROVE  Inv'
  <2>1. PICK n : n = Resolve(r, e.id)
    OBVIOUS
  <2>2. /\ Shape(n) /\ n.plan = req[r].plan
        /\ \/ n.pc \in {"snap_obs", "insert_obs", "find_item", "find_from",
                        "commit"}
           \/ n.pc = "find_to" /\ n.id = e.id
           \/ /\ n.pc = "insert_rel" /\ n.id2 = e.id
              /\ n.id = req[r].id /\ req[r].pc \in {"find_to", "insert_to"}
    <3>1. req[r].pc \in Seeking
      BY <1>1 DEF Seeking
    <3> QED
      BY <2>1, <3>1, Resolves
  <2>3. e \in entities /\ e.project = Call(r).project
    BY DEF Visible, Named
  <2>4. InProject(e.id, Call(r).project)
    <3>1. e.id \in 1 .. nextID - 1
      BY <2>3 DEF Inv, Tables, Numbered
    <3>2. \A d \in entities : d.id = e.id => d.project = e.project
      BY <2>3 DEF Inv, Keys, Fixed
    <3> QED
      BY <2>3, <3>1, <3>2 DEF InProject
  <2>5. Local(n, r)
    <3>1. CASE n.pc \in {"snap_obs", "insert_obs", "find_item", "find_from",
                         "commit"}
      BY <1>2, <2>2, <3>1, OpenIsLocal DEF Open
    <3>2. CASE n.pc = "find_to" /\ n.id = e.id
      BY <1>2, <2>2, <2>4, <3>2 DEF Local, Open
    <3>3. CASE /\ n.pc = "insert_rel" /\ n.id2 = e.id
               /\ n.id = req[r].id /\ req[r].pc \in {"find_to", "insert_to"}
      <4>1. InProject(n.id, Call(r).project)
        BY <1>2, <3>3 DEF Inv, Requested, Local
      <4> QED
        BY <1>2, <2>2, <2>4, <3>3, <4>1 DEF Local, Open
    <3> QED
      BY <2>2, <3>1, <3>2, <3>3
  <2> QED
    BY <1>1, <1>3, <2>1, <2>5, QuietStep
<1>4. ASSUME req' = [req EXCEPT ![r].pc = insert]
      PROVE  Inv'
  <2>0. PICK pc : pc = insert
    OBVIOUS
  <2>1. PICK q : q = [req[r] EXCEPT !.pc = pc]
    OBVIOUS
  <2>2. /\ Shape(q) /\ q.plan = req[r].plan /\ q.pc = pc /\ q.id = req[r].id
    BY <1>2, <2>1, Moves
  <2>3. \/ req[r].pc \in {"find_item", "find_from"}
             /\ pc \in {"insert_item", "insert_from"}
        \/ req[r].pc = "find_to" /\ pc = "insert_to"
    BY <1>1, <2>0
  <2>4. Local(q, r)
    <3>1. CASE pc \in {"insert_item", "insert_from"}
      BY <1>2, <2>2, <3>1, OpenIsLocal DEF Open
    <3>2. CASE req[r].pc = "find_to" /\ pc = "insert_to"
      <4>1. InProject(q.id, Head(q.plan).project)
        BY <2>2, <3>2 DEF Inv, Requested, Local
      <4> QED
        BY <1>2, <2>2, <3>2, <4>1 DEF Local, Open
    <3> QED
      BY <2>3, <3>1, <3>2
  <2>5. req' = [req EXCEPT ![r] = q]
    BY <1>4, <2>0, <2>1
  <2> QED
    BY <1>1, <2>4, <2>5, QuietStep
<1> QED
  BY <1>1, <1>3, <1>4

LEMMA InsertEntityStep ==
    ASSUME Inv, NEW r \in Requests, InsertEntity(r)
    PROVE  Inv'
<1> DEFINE taken == Visible(Named(Call(r).project, Wanted(r).name), r)
<1>1. req[r].pc \in {"insert_item", "insert_from", "insert_to"}
      /\ Blockers(r) = {}
  BY DEF InsertEntity
<1>2. CASE Fail(r)
  BY <1>2, FailStep
<1>3. ASSUME taken = {},
             entities' = entities \cup
                {[by |-> r, gone |-> Nil, id |-> nextID,
                  project |-> Call(r).project, name |-> Wanted(r).name,
                  type |-> Wanted(r).type]},
             req' = [req EXCEPT ![r] = Resolve(r, nextID)],
             nextID' = nextID + 1,
             UNCHANGED <<observations, relations, history>>
      PROVE  Inv'
  <2>1. PICK project, name, type, n, id, id0 :
           /\ project = Call(r).project /\ name = Wanted(r).name
           /\ type = Wanted(r).type /\ n = Resolve(r, nextID)
           /\ id = nextID /\ id0 = req[r].id
    OBVIOUS
  <2>2. UniqueWait(Named(project, name), r) = {}
    BY <1>1, <2>1 DEF Blockers
  <2>3. /\ Tables' /\ Keys' /\ ForeignKeys' /\ Apart' /\ Erased' /\ Leaves
        /\ InProject(id, project)'
        /\ \A s \in Requests : s # r /\ Clean(s) => Clean(s)'
    BY <1>3, <2>1, <2>2, InsertEntityTables
  <2>4. /\ Shape(n) /\ n.plan = req[r].plan
        /\ \/ n.pc \in {"snap_obs", "insert_obs", "find_item", "find_from",
                        "commit"}
           \/ n.pc = "find_to" /\ n.id = id
           \/ /\ n.pc = "insert_rel" /\ n.id2 = id
              /\ n.id = id0 /\ req[r].pc \in {"find_to", "insert_to"}
    <3>1. req[r].pc \in Seeking
      BY <1>1 DEF Seeking
    <3> QED
      BY <2>1, <3>1, Resolves
  <2>5. /\ req[r].plan \in Seq(Calls) /\ req[r].plan # << >>
        /\ Head(n.plan).project = project
    BY <1>1, <2>1, <2>4, HasPlan
  <2>6. Local(n, r)'
    <3>1. CASE n.pc \in {"snap_obs", "insert_obs", "find_item", "find_from",
                         "commit"}
      BY <2>4, <2>5, <3>1, OpenIsLocalNext DEF Open
    <3>2. CASE n.pc = "find_to" /\ n.id = id
      BY <2>3, <2>4, <2>5, <3>2 DEF Local, Open
    <3>3. CASE /\ n.pc = "insert_rel" /\ n.id2 = id
               /\ n.id = id0 /\ req[r].pc \in {"find_to", "insert_to"}
      <4>1. InProject(id0, project)
        BY <2>1, <2>4, <2>5, <3>3 DEF Inv, Requested, Local
      <4>2. InProject(id0, project)'
        BY <2>3, <4>1, InProjectStays
      <4> QED
        BY <2>3, <2>4, <2>5, <3>3, <4>2 DEF Local, Open
    <3> QED
      BY <2>4, <3>1, <3>2, <3>3
  <2>7. Requested'
    BY <1>3, <2>1, <2>3, <2>6, OthersStay
  <2> QED
    BY <2>3, <2>7 DEF Inv
<1> QED
  BY <1>2, <1>3 DEF InsertEntity

\* New entries of the trail.
LEMMA AddEntries ==
    ASSUME Inv, NEW r \in Requests, NEW N, history' = history \cup N,
           nextID' \in Nat, nextID' >= nextID,
           \A n \in N : /\ n = [c \in DOMAIN n |-> n[c]]
                        /\ {"by", "gone"} \cup EntryColumns \subseteq DOMAIN n
                        /\ n.by = r /\ n.gone = Nil /\ n.id \in 1 .. nextID' - 1
    PROVE  /\ Rows(history', EntryColumns) /\ Numbered(history', nextID')
           /\ \A s \in Requests : s # r /\ Untouched(history, s)
                                    => Untouched(history', s)
<1>1. Rows(history, EntryColumns) /\ Numbered(history, nextID)
  BY DEF Inv, Tables
<1>2. nextID \in Nat /\ Nil \notin Requests
  BY PlanAssumption DEF Inv, Tables
<1>3. Numbered(history, nextID')
  BY <1>1, <1>2, Grows
<1>4. Numbered(history', nextID')
  BY <1>3 DEF Numbered
<1>5. Rows(history', EntryColumns)
  BY <1>1 DEF Rows, Owners
<1>6. \A s \in Requests : s # r /\ Untouched(history, s) => Untouched(history', s)
  BY <1>2 DEF Untouched
<1> QED
  BY <1>4, <1>5, <1>6

LEMMA RecordForm ==
    ASSUME NEW r, NEW entity, NEW name, NEW obs, NEW action, NEW old, NEW new
    PROVE  LET n == Record(r, entity, name, obs, action, old, new)
           IN  /\ n = [c \in DOMAIN n |-> n[c]]
               /\ {"by", "gone"} \cup EntryColumns \subseteq DOMAIN n
               /\ n.by = r /\ n.gone = Nil /\ n.id = nextID /\ n.obs = obs
               /\ n.action = action
BY DEF Record, EntryColumns

\* Numbers taken from the sequences.
LEMMA Taken ==
    ASSUME Inv, NEW k \in {1, 2}, nextID' = nextID + k
    PROVE  /\ nextID' \in Nat \ {0} /\ nextID' >= nextID
           /\ nextID \in 1 .. nextID' - 1
           /\ k = 2 => nextID + 1 \in 1 .. nextID' - 1
           /\ \A i \in 1 .. nextID - 1 : i \in 1 .. nextID' - 1
<1>1. nextID \in Nat \ {0}
  BY DEF Inv, Tables
<1>2. nextID' \in Nat \ {0} /\ nextID' >= nextID /\ nextID \in 1 .. nextID' - 1
      /\ k = 2 => nextID + 1 \in 1 .. nextID' - 1
  BY <1>1
<1> QED
  BY <1>1, <1>2, Widen

\* No entity and no relation that was not there before.
LEMMA ApartStays ==
    ASSUME Apart,
           \A v \in entities' : \E d \in entities :
              v.id = d.id /\ v.project = d.project,
           \A x \in relations' : x \in relations
                                \/ \E y \in relations :
                                      x.from = y.from /\ x.to = y.to
    PROVE  Apart'
<1> SUFFICES ASSUME NEW x \in relations', NEW d \in entities', NEW e \in entities',
                    d.id = x.from, e.id = x.to
    PROVE  d.project = e.project
  BY DEF Apart
<1>1. PICK y \in relations : x.from = y.from /\ x.to = y.to
  OBVIOUS
<1>2. PICK d0 \in entities : d.id = d0.id /\ d.project = d0.project
  OBVIOUS
<1>3. PICK e0 \in entities : e.id = e0.id /\ e.project = e0.project
  OBVIOUS
<1> QED
  BY <1>1, <1>2, <1>3 DEF Apart

Formed(v) == v = [c \in DOMAIN v |-> v[c]]

\* An entity e of the table is replaced by n under the lock of r.
LEMMA ReplaceEntity ==
    ASSUME Inv, NEW r \in Requests, NEW e \in entities, e.by = Nil, e.gone = Nil,
           NEW n, Formed(n), DOMAIN n = DOMAIN e,
           n.by = r, n.gone = Nil, n.id = e.id, n.project = e.project,
           \A d \in entities : d.project = n.project /\ d.name = n.name => d = e,
           entities' = Remove(entities, {e}, r) \cup {n},
           observations' = observations, relations' = relations,
           nextID' \in Nat, nextID' >= nextID
    PROVE  /\ Rows(entities', EntityColumns) /\ Numbered(entities', nextID')
           /\ Unique(entities', {"id"}) /\ Fixed(entities', "project")
           /\ Unique(entities', {"project", "name"})
           /\ ForeignKeys' /\ Apart' /\ Leaves
           /\ \A s \in Requests : s # r /\ Untouched(entities, s)
                                    => Untouched(entities', s)
<1> DEFINE mid == Remove(entities, {e}, r)
           K == EntityColumns
<1>1. Tables /\ Keys /\ ForeignKeys /\ Apart /\ Nil \notin Requests
  BY PlanAssumption DEF Inv
<1>2. Removable(entities, {e}, r) /\ nextID \in Nat /\ Rows(entities, K)
      /\ Columns(K) /\ "id" \in K /\ "project" \in K /\ "name" \in K
  BY <1>1 DEF Removable, Tables, Columns, EntityColumns
<1>3. \A v \in mid : \E d \in entities :
         /\ v.id = d.id /\ v.project = d.project /\ v.name = d.name
         /\ d = e => v.by = Nil /\ v.gone = r
  <2> SUFFICES ASSUME NEW v \in mid
      PROVE  \E d \in entities :
                /\ v.id = d.id /\ v.project = d.project /\ v.name = d.name
                /\ d = e => v.by = Nil /\ v.gone = r
    OBVIOUS
  <2>1. PICK d \in entities : Removing(d, v, r, d \in {e}, K)
    BY <1>1, <1>2, InRemove
  <2> QED
    BY <1>2, <2>1 DEF Removing
<1>4. /\ Rows(mid, K) /\ Unique(mid, {"id"}) /\ Unique(mid, {"project", "name"})
      /\ Numbered(mid, nextID) /\ Fixed(mid, "project")
      /\ \A s \in Requests : s # r /\ Untouched(entities, s) => Untouched(mid, s)
  <2>1. /\ Rows(mid, EntityColumns)
        /\ \A D : D \subseteq EntityColumns /\ Unique(entities, D)
                   => Unique(mid, D)
        /\ Numbered(mid, nextID) /\ Fixed(mid, "project")
        /\ \A s \in Requests : s # r /\ Untouched(entities, s)
                                => Untouched(mid, s)
    <3>1. Numbered(entities, nextID) /\ Fixed(entities, "project")
      BY <1>1 DEF Tables, Keys
    <3>2. Columns(EntityColumns) /\ "id" \in EntityColumns
          /\ "project" \in EntityColumns
      BY ColumnsOfTables
    <3> QED
      BY <1>1, <1>2, <3>1, <3>2, RemoveKeeps
  <2> QED
    BY <1>1, <2>1, ColumnsOfTables DEF Keys
<1>5. ForeignKeys'
  BY <1>1, <1>2, RenameRefers DEF ForeignKeys
<1> HIDE DEF mid
<1>6. \A d \in entities : d.id = e.id => d = e
  BY <1>1 DEF Keys, Unique, SameOn, Alt, Replaced
<1>7. \A v \in mid : SameOn({"id"}, v, n) => Alt(v, n)
  BY <1>1, <1>3, <1>6 DEF SameOn, Alt, Replaced
<1>8. \A v \in mid : SameOn({"project", "name"}, v, n) => Alt(v, n)
  BY <1>1, <1>3 DEF SameOn, Alt, Replaced
<1>9. /\ n.by \in Owners /\ {"by", "gone"} \cup K \subseteq DOMAIN n
      /\ n.id \in 1 .. nextID - 1 /\ n = [c \in DOMAIN n |-> n[c]]
  BY <1>1, <1>2 DEF Owners, Rows, Tables, Numbered, Formed
<1>10. entities' = mid \cup {n}
  BY DEF mid
<1>11. /\ Rows(entities', K) /\ Unique(entities', {"id"})
       /\ Unique(entities', {"project", "name"})
       /\ Numbered(entities', nextID)
       /\ \A s \in Requests : s # r /\ Untouched(entities, s)
                                => Untouched(entities', s)
  <2>1. /\ Rows(mid \cup {n}, K)
        /\ \A D : /\ Unique(mid, D)
                  /\ \A v \in mid : SameOn(D, v, n) => Alt(v, n)
                  => Unique(mid \cup {n}, D)
        /\ \A m : Numbered(mid, m) /\ n.id \in 1 .. m - 1
                  => Numbered(mid \cup {n}, m)
        /\ \A s \in Requests : s # n.by /\ Nil \notin Requests
              /\ Untouched(mid, s) => Untouched(mid \cup {n}, s)
    <3> HIDE DEF K
    <3> QED
      BY <1>4, <1>9, AddKeeps
  <2> HIDE DEF K
  <2> QED
    BY <1>1, <1>4, <1>7, <1>8, <1>9, <1>10, <2>1
<1>12. Numbered(entities', nextID')
  BY <1>2, <1>11, Grows
<1>13. \A v \in entities' : \E d \in entities : v.id = d.id /\ v.project = d.project
  BY <1>3, <1>10
<1>14. Fixed(entities', "project")
  <2> SUFFICES ASSUME NEW v \in entities', NEW w \in entities', v.id = w.id
      PROVE  v.project = w.project
    BY DEF Fixed
  <2>1. PICK d \in entities : v.id = d.id /\ v.project = d.project
    BY <1>13
  <2>2. PICK f \in entities : w.id = f.id /\ w.project = f.project
    BY <1>13
  <2>3. d["project"] = f["project"]
    BY <1>1, <2>1, <2>2 DEF Keys, Fixed
  <2> QED
    BY <2>1, <2>2, <2>3
<1>15. Apart'
  BY <1>1, <1>13, ApartStays
<1>16. Leaves
  BY <1>13 DEF Leaves
<1> QED
  BY <1>5, <1>11, <1>12, <1>14, <1>15, <1>16

\* Entries other than deletions change nothing about erased observations.
LEMMA ErasedStays ==
    ASSUME Erased, \A i \in 1 .. nextID - 1 : i \in 1 .. nextID' - 1,
           observations' = observations,
           \A h \in history' : h \in history \/ h.action # "observation_deleted"
    PROVE  Erased'
BY DEF Erased

\* Entries that are not deletions.
Entry(n) ==
    /\ n = [c \in DOMAIN n |-> n[c]]
    /\ {"by", "gone"} \cup EntryColumns \subseteq DOMAIN n
    /\ n.gone = Nil /\ n.action # "observation_deleted"

\* The entries of an UpdateEntity.
LEMMA RenameEntries ==
    ASSUME Inv, NEW r \in Requests, nextID' = nextID + 2,
           NEW a, Entry(a), a.by = r, a.id = nextID,
           NEW d, Entry(d), d.by = r, d.id = nextID,
           NEW A, A \in {{}, {a}}, NEW B, B \in {{}, {[d EXCEPT !.id = @ + 1]}},
           history' = history \cup A \cup B
    PROVE  /\ Rows(history', EntryColumns) /\ Numbered(history', nextID')
           /\ \A s \in Requests : s # r /\ Untouched(history, s)
                                    => Untouched(history', s)
           /\ \A h \in history' : h \in history
                                    \/ h.action # "observation_deleted"
<1>3. PICK b : b = [d EXCEPT !.id = d.id + 1]
  OBVIOUS
<1>4. /\ nextID' \in Nat \ {0} /\ nextID' >= nextID
      /\ nextID \in 1 .. nextID' - 1 /\ nextID + 1 \in 1 .. nextID' - 1
  BY Taken
<1>5. /\ a = [c \in DOMAIN a |-> a[c]]
      /\ {"by", "gone"} \cup EntryColumns \subseteq DOMAIN a
      /\ a.by = r /\ a.gone = Nil /\ a.id = nextID
      /\ a.action # "observation_deleted"
  BY DEF Entry
<1>6. {"by", "gone"} \cup EntryColumns \subseteq DOMAIN d
  BY DEF Entry
<1>7. /\ b = [c \in DOMAIN b |-> b[c]] /\ DOMAIN b = DOMAIN d
      /\ b.by = r /\ b.gone = Nil /\ b.id = nextID + 1
      /\ b.action # "observation_deleted"
  BY <1>3 DEF EntryColumns, Entry
<1>8. A \cup B \subseteq {a, b}
  BY <1>3
<1>9. history' = history \cup (A \cup B)
  OBVIOUS
<1>10. \A n \in A \cup B :
          /\ n = [c \in DOMAIN n |-> n[c]]
          /\ {"by", "gone"} \cup EntryColumns \subseteq DOMAIN n
          /\ n.by = r /\ n.gone = Nil /\ n.id \in 1 .. nextID' - 1
  BY <1>4, <1>5, <1>6, <1>7, <1>8
<1>11. /\ Rows(history', EntryColumns) /\ Numbered(history', nextID')
       /\ \A s \in Requests : s # r /\ Untouched(history, s)
                                => Untouched(history', s)
  BY <1>4, <1>9, <1>10, AddEntries
<1>12. \A h \in history' : h \in history \/ h.action # "observation_deleted"
  BY <1>5, <1>7, <1>8, <1>9
<1> QED
  BY <1>11, <1>12

\* A request that has written its only statement goes to commit.
LEMMA CommitIsNext ==
    ASSUME Inv, NEW r \in Requests, req[r].pc \notin {"idle", "done", "failed"},
           req' = [req EXCEPT ![r].pc = "commit"], Leaves,
           \A s \in Requests : s # r /\ Clean(s) => Clean(s)'
    PROVE  Requested'
<1>1. /\ Shape(req[r]) /\ req[r].plan \in Seq(Calls) /\ req[r].plan # << >>
  BY HasPlan
<1>2. PICK n : n = [req[r] EXCEPT !.pc = "commit"]
  OBVIOUS
<1>3. Shape(n) /\ n.plan = req[r].plan /\ n.pc = "commit"
  BY <1>1, <1>2, Moves
<1>4. Local(n, r)'
  BY <1>1, <1>3, OpenIsLocalNext DEF Open
<1>5. req' = [req EXCEPT ![r] = n]
  BY <1>2
<1> QED
  BY <1>4, <1>5, OthersStay

\* The name a rename sets is free, or it is the name the row has.
LEMMA RenameStep ==
    ASSUME Inv, NEW r \in Requests, Rename(r)
    PROVE  Inv'
<1>1. req[r].pc = "rename" /\ Blockers(r) = {}
  BY DEF Rename
<1>2. CASE Fail(r)
  BY <1>2, FailStep
<1>3. CASE ~Fail(r)
  <2> DEFINE c == Call(r)
             q == req[r]
             rows == Visible(WithID(entities, {q.id}), r)
             taken == {e \in Visible(Named(c.project, c.newName), r) : e.id # q.id}
             renamed == IF c.newName = c.name THEN {}
                        ELSE {Record(r, q.id, c.newName, Nil, "entity_renamed",
                                     c.name, c.newName)}
             retyped == IF c.newType = q.old THEN {}
                        ELSE {[Record(r, q.id, c.newName, Nil,
                                      "entity_type_changed", q.old, c.newType)
                                 EXCEPT !.id = @ + 1]}
  <2>1. /\ rows = {} \/ taken = {}
        /\ entities' = Remove(entities, rows, r) \cup
              {[e EXCEPT !.by = r, !.name = c.newName, !.type = c.newType]
                  : e \in rows}
        /\ history' = history \cup renamed \cup retyped
        /\ nextID' = nextID + 2
        /\ req' = [req EXCEPT ![r].pc = "commit"]
        /\ observations' = observations /\ relations' = relations
    BY <1>3 DEF Rename
  <2>2. /\ Rows(history', EntryColumns) /\ Numbered(history', nextID')
        /\ \A s \in Requests : s # r /\ Untouched(history, s)
                                 => Untouched(history', s)
        /\ \A h \in history' : h \in history \/ h.action # "observation_deleted"
    <3>1. PICK a : a = Record(r, q.id, c.newName, Nil, "entity_renamed", c.name,
                              c.newName)
      OBVIOUS
    <3>2. PICK d : d = Record(r, q.id, c.newName, Nil, "entity_type_changed", q.old,
                              c.newType)
      OBVIOUS
    <3>3. renamed \in {{}, {a}} /\ retyped \in {{}, {[d EXCEPT !.id = @ + 1]}}
      BY <3>1, <3>2
    <3>4. Entry(a) /\ a.by = r /\ a.id = nextID
      BY <3>1, RecordForm DEF Entry
    <3>5. Entry(d) /\ d.by = r /\ d.id = nextID
      BY <3>2, RecordForm DEF Entry
    <3>6. history' = history \cup renamed \cup retyped /\ nextID' = nextID + 2
      BY <2>1
    <3> HIDE DEF renamed, retyped
    <3> QED
      BY <3>3, <3>4, <3>5, <3>6, RenameEntries
  <2>3. /\ nextID' \in Nat \ {0} /\ nextID' >= nextID
        /\ \A i \in 1 .. nextID - 1 : i \in 1 .. nextID' - 1
    BY <2>1, Taken
  <2>4. /\ Tables /\ Keys /\ ForeignKeys /\ Apart /\ Erased /\ Nil \notin Requests
        /\ Clean(r) /\ InProject(q.id, c.project)
    BY <1>1, PlanAssumption DEF Inv, Requested, Local, Open, Call
  <2>5. \A e \in rows : e \in entities /\ e.id = q.id /\ e.by = Nil /\ e.gone = Nil
                        /\ e.project = c.project
    <3>1. WithID(entities, {q.id}) \subseteq entities
      BY DEF WithID
    <3>2. Writers(WithID(entities, {q.id}), r) = {}
      BY <1>1 DEF Blockers
    <3>3. Removable(entities, rows, r)
      BY <2>4, <3>1, <3>2, FreeToRemove DEF Tables
    <3>4. \A e \in rows : e \in entities /\ e.id = q.id
      BY DEF Visible, WithID
    <3> QED
      BY <2>4, <3>3, <3>4 DEF Removable, Clean, Untouched, InProject
  <2>6. CASE rows = {}
    <3>1. entities' = entities
      BY <2>1, <2>6 DEF Remove
    <3>2. Tables'
      BY <2>1, <2>2, <2>3, <2>4, <3>1, NumbersGrow DEF Tables
    <3>3. Keys' /\ ForeignKeys' /\ Apart'
      <4>1. observations' = observations /\ relations' = relations
        BY <2>1
      <4>2. Keys' /\ ForeignKeys'
        BY <2>4, <3>1, <4>1 DEF Keys, ForeignKeys
      <4>3. Apart'
        BY <2>4, <3>1, <4>1, ApartStays
      <4> QED
        BY <4>2, <4>3
    <3>4. Erased'
      BY <2>1, <2>2, <2>3, <2>4, ErasedStays
    <3>5. Leaves
      BY <2>1, <2>3, <3>1 DEF Leaves
    <3>6. \A s \in Requests : s # r /\ Clean(s) => Clean(s)'
      BY <2>1, <2>2, <3>1 DEF Clean
    <3>7. Requested'
      BY <1>1, <2>1, <3>5, <3>6, CommitIsNext
    <3> QED
      BY <3>2, <3>3, <3>4, <3>7 DEF Inv
  <2>7. CASE rows # {}
    <3>1. PICK e \in rows : TRUE
      BY <2>7
    <3>2. /\ e \in entities /\ e.id = q.id /\ e.by = Nil /\ e.gone = Nil
          /\ e.project = c.project
      BY <2>5
    <3>3. \A d \in entities : d.id = e.id => d = e
      BY <2>4, <3>2 DEF Keys, Unique, SameOn, Alt, Replaced
    <3>4. rows = {e}
      BY <2>5, <3>2, <3>3
    <3>5. PICK n : n = [e EXCEPT !.by = r, !.name = c.newName, !.type = c.newType]
      OBVIOUS
    <3>6. /\ e = [f \in DOMAIN e |-> e[f]]
          /\ {"by", "gone"} \cup EntityColumns \subseteq DOMAIN e
      BY <2>4, <3>2 DEF Tables, Rows
    <3>7. /\ Formed(n) /\ DOMAIN n = DOMAIN e
          /\ n.by = r /\ n.gone = Nil /\ n.id = e.id /\ n.project = e.project
          /\ n.name = c.newName
      BY <3>2, <3>5, <3>6 DEF EntityColumns, Formed
    <3>8. entities' = Remove(entities, {e}, r) \cup {n}
      BY <2>1, <3>4, <3>5
    \* Nobody else has the new name.
    <3>9. \A d \in entities : d.project = n.project /\ d.name = n.name => d = e
      <4> SUFFICES ASSUME NEW d \in entities, d.project = n.project,
                          d.name = n.name
          PROVE  d = e
        OBVIOUS
      <4>1. CASE KeepsName(r)
        <5>1. e.name = c.newName
          BY <3>1, <4>1 DEF KeepsName
        <5>2. SameOn({"project", "name"}, d, e)
          BY <3>7, <5>1 DEF SameOn
        <5> QED
          BY <2>4, <3>2, <5>2 DEF Keys, Unique, Alt, Replaced
      <4>2. CASE ~KeepsName(r)
        <5> DEFINE X == Named(c.project, c.newName)
        <5>1. UniqueWait(X, r) = {}
          BY <1>1, <4>2 DEF Blockers
        <5>2. d \in X
          BY <3>2, <3>7 DEF Named
        <5>3. d.by # r /\ d.gone # r
          BY <2>4 DEF Clean, Untouched
        <5> HIDE DEF X
        <5>4. d.by = Nil /\ d.gone = Nil
          BY <5>1, <5>2, <5>3 DEF UniqueWait, Inserters, Writers
        <5>5. d \in Visible(X, r)
          BY <2>4, <5>2, <5>4 DEF Visible
        <5>6. taken = {}
          BY <2>1, <2>7
        <5>7. d.id = q.id
          BY <5>5, <5>6 DEF X
        <5> QED
          BY <3>2, <3>3, <5>7
      <4> QED
        BY <4>1, <4>2
    <3>10. /\ Rows(entities', EntityColumns) /\ Numbered(entities', nextID')
           /\ Unique(entities', {"id"}) /\ Fixed(entities', "project")
           /\ Unique(entities', {"project", "name"})
           /\ ForeignKeys' /\ Apart' /\ Leaves
           /\ \A s \in Requests : s # r /\ Untouched(entities, s)
                                    => Untouched(entities', s)
      <4>1. observations' = observations /\ relations' = relations
            /\ nextID' \in Nat /\ nextID' >= nextID
        BY <2>1, <2>3
      <4> HIDE DEF c, q, rows, taken, renamed, retyped
      <4> QED
        BY <3>2, <3>7, <3>8, <3>9, <4>1, ReplaceEntity
    <3>11. Tables'
      BY <2>1, <2>2, <2>3, <2>4, <3>10, NumbersGrow DEF Tables
    <3>12. Keys'
      BY <2>1, <2>4, <3>10 DEF Keys
    <3>13. Erased'
      BY <2>1, <2>2, <2>3, <2>4, ErasedStays
    <3>14. \A s \in Requests : s # r /\ Clean(s) => Clean(s)'
      BY <2>1, <2>2, <3>10 DEF Clean
    <3>15. Requested'
      BY <1>1, <2>1, <3>10, <3>14, CommitIsNext
    <3> QED
      BY <3>10, <3>11, <3>12, <3>13, <3>15 DEF Inv
  <2> QED
    BY <2>6, <2>7
<1> QED
  BY <1>2, <1>3

(* ---- Statements that remove rows -------------------------------------- *)

\* The observations after a removal.
LEMMA RemoveObservations ==
    ASSUME Inv, NEW r \in Requests, NEW V, Removable(observations, V, r)
    PROVE  LET new == Remove(observations, V, r)
           IN  /\ Rows(new, ObservationColumns) /\ Numbered(new, nextID)
               /\ Unique(new, {"id"}) /\ Fixed(new, "entity")
               /\ References(entities, new, "entity")
               /\ \A id : Known(observations, id) => Known(new, id)
               /\ \A h \in history : h.action = "observation_deleted" =>
                     \A p \in new : p.id = h.obs =>
                        h.by # Nil /\ p.by = Nil /\ p.gone = h.by
               /\ \A s \in Requests : s # r /\ Untouched(observations, s)
                                        => Untouched(new, s)
<1> DEFINE new == Remove(observations, V, r)
           K == ObservationColumns
<1>1. Tables /\ Keys /\ ForeignKeys /\ Erased /\ Nil \notin Requests
  BY PlanAssumption DEF Inv
<1>2. /\ Rows(new, K)
      /\ \A D : D \subseteq K /\ Unique(observations, D) => Unique(new, D)
      /\ Numbered(new, nextID) /\ Fixed(new, "entity")
      /\ \A s \in Requests : s # r /\ Untouched(observations, s)
                               => Untouched(new, s)
  BY <1>1, ColumnsOfTables, RemoveKeeps DEF Tables, Keys
<1>3. Unique(new, {"id"})
  BY <1>1, <1>2, ColumnsOfTables DEF Keys
<1>4. References(entities, new, "entity")
  BY <1>1, ColumnsOfTables, RemoveRefers DEF Tables, ForeignKeys
<1>5. \A id : Known(observations, id) => Known(new, id)
  BY <1>1, ColumnsOfTables, KnownRemoves DEF Tables
<1>6. ASSUME NEW h \in history, h.action = "observation_deleted",
             NEW p \in new, p.id = h.obs
      PROVE  h.by # Nil /\ p.by = Nil /\ p.gone = h.by
  <2>1. PICK o \in observations : Removing(o, p, r, o \in V, K)
    BY <1>1, ColumnsOfTables, InRemove DEF Tables
  <2>2. o.id = p.id
    BY <2>1, ColumnsOfTables DEF Removing
  <2>3. h.by # Nil /\ o.by = Nil /\ o.gone = h.by
    BY <1>1, <1>6, <2>2 DEF Erased
  <2>4. o \notin V
    BY <2>3 DEF Removable
  <2> QED
    BY <2>1, <2>3, <2>4 DEF Removing
<1> QED
  BY <1>2, <1>3, <1>4, <1>5, <1>6

\* The relations after a removal.
LEMMA RemoveRelations ==
    ASSUME Inv, NEW r \in Requests, NEW V, Removable(relations, V, r)
    PROVE  LET new == Remove(relations, V, r)
           IN  /\ Rows(new, RelationColumns) /\ Numbered(new, nextID)
               /\ Unique(new, {"from", "to", "type"})
               /\ References(entities, new, "from")
               /\ References(entities, new, "to")
               /\ \A x \in new : \E y \in relations :
                     x.from = y.from /\ x.to = y.to
               /\ \A s \in Requests : s # r /\ Untouched(relations, s)
                                        => Untouched(new, s)
<1> DEFINE new == Remove(relations, V, r)
           K == RelationColumns
<1>1. Tables /\ Keys /\ ForeignKeys /\ Nil \notin Requests
  BY PlanAssumption DEF Inv
<1>2. /\ Rows(new, K)
      /\ \A D : D \subseteq K /\ Unique(relations, D) => Unique(new, D)
      /\ Numbered(new, nextID)
      /\ \A s \in Requests : s # r /\ Untouched(relations, s)
                               => Untouched(new, s)
  BY <1>1, ColumnsOfTables, RemoveKeeps DEF Tables, Keys
<1>3. Unique(new, {"from", "to", "type"})
  BY <1>1, <1>2, ColumnsOfTables DEF Keys
<1>4. References(entities, new, "from") /\ References(entities, new, "to")
  BY <1>1, ColumnsOfTables, RemoveRefers DEF Tables, ForeignKeys
<1>5. \A x \in new : \E y \in relations : x.from = y.from /\ x.to = y.to
  <2>1. \A x \in new : \E y \in relations : Removing(y, x, r, y \in V, K)
    BY <1>1, ColumnsOfTables, InRemove DEF Tables
  <2> QED
    BY <2>1, ColumnsOfTables DEF Removing
<1> QED
  BY <1>2, <1>3, <1>4, <1>5

LEMMA ClearObservationsStep ==
    ASSUME Inv, NEW r \in Requests, ClearObservations(r)
    PROVE  Inv'
<1> DEFINE X == WithID(observations, req[r].snap)
<1>1. /\ req[r].pc = "clear_obs" /\ Blockers(r) = {}
      /\ observations' = Remove(observations, Visible(X, r), r)
      /\ req' = [req EXCEPT ![r] = AfterItem([@ EXCEPT !.snap = {}])]
      /\ entities' = entities /\ relations' = relations /\ history' = history
      /\ nextID' = nextID
  BY DEF ClearObservations
<1>2. Tables /\ Keys /\ ForeignKeys /\ Apart /\ Erased /\ Nil \notin Requests
  BY PlanAssumption DEF Inv
<1>3. Removable(observations, Visible(X, r), r)
  <2>1. X \subseteq observations
    BY DEF WithID
  <2>2. Writers(X, r) = {}
    BY <1>1 DEF Blockers
  <2> QED
    BY <1>2, <2>1, <2>2, FreeToRemove DEF Tables
<1>4. /\ Rows(observations', ObservationColumns) /\ Numbered(observations', nextID)
      /\ Unique(observations', {"id"}) /\ Fixed(observations', "entity")
      /\ References(entities, observations', "entity")
      /\ \A id : Known(observations, id) => Known(observations', id)
      /\ \A h \in history : h.action = "observation_deleted" =>
            \A p \in observations' : p.id = h.obs =>
               h.by # Nil /\ p.by = Nil /\ p.gone = h.by
      /\ \A s \in Requests : s # r /\ Untouched(observations, s)
                               => Untouched(observations', s)
  BY <1>1, <1>3, RemoveObservations
<1>5. Tables' /\ Keys' /\ ForeignKeys' /\ Erased'
  BY <1>1, <1>2, <1>4 DEF Tables, Keys, ForeignKeys, Erased
<1>6. Apart'
  BY <1>1, <1>2, ApartStays
<1>7. Leaves /\ \A s \in Requests : s # r /\ Clean(s) => Clean(s)'
  <2>1. nextID \in Nat
    BY <1>2 DEF Tables
  <2> QED
    BY <1>1, <1>4, <2>1 DEF Leaves, Clean
<1>8. PICK q : q = [req[r] EXCEPT !.snap = {}]
  OBVIOUS
<1>9. PICK n : n = AfterItem(q)
  OBVIOUS
<1>10. /\ Shape(req[r]) /\ req[r].plan \in Seq(Calls) /\ req[r].plan # << >>
  BY <1>1, HasPlan
<1>11. Shape(q) /\ q.plan = req[r].plan
  BY <1>8, <1>10 DEF Shape, Fields
<1>12. /\ Shape(n) /\ n.plan = q.plan
       /\ n.pc \in {"insert_obs", "find_item", "find_from", "commit"}
  BY <1>9, <1>11, ItemFollows
<1>13. Local(n, r)'
  BY <1>10, <1>11, <1>12, OpenIsLocalNext DEF Open
<1>14. req' = [req EXCEPT ![r] = n]
  BY <1>1, <1>8, <1>9
<1>15. Requested'
  BY <1>7, <1>13, <1>14, OthersStay
<1> QED
  BY <1>5, <1>6, <1>15 DEF Inv

\* An open transaction that is not r's: it inserted its version of a row of X,
\* or it holds the version it replaced.
LEMMA InsertedOrHeld ==
    ASSUME NEW X, NEW v \in X, NEW t, v.by \notin {Nil, t},
           Inserters(Inserted(X), t) = {}, Writers(X, t) = {}
    PROVE  FALSE
BY DEF Inserted, Inserters, Writers

\* The rows the cascade has to take along are exactly those it sees: who
\* inserted one holds FOR KEY SHARE, who replaced one holds its old version.
LEMMA CascadeStep ==
    ASSUME Inv, NEW r \in Requests, Cascade(r)
    PROVE  Inv'
<1> DEFINE snap == req[r].snap
           X == WithID(entities, snap)
           victims == {e \in Visible(X, r) : e.name \in Call(r).names}
           ids == {e.id : e \in victims}
           O == Visible(ObsOf(ids), r)
           R == Visible(RelsOf(ids), r)
<1>1. /\ req[r].pc = "cascade" /\ Blockers(r) = {}
      /\ entities' = Remove(entities, victims, r)
      /\ observations' = Remove(observations, O, r)
      /\ relations' = Remove(relations, R, r)
      /\ req' = [req EXCEPT ![r].pc = "commit"]
      /\ history' = history /\ nextID' = nextID
  BY DEF Cascade, ReferencesTo
<1>2. Tables /\ Keys /\ ForeignKeys /\ Apart /\ Erased /\ Nil \notin Requests
      /\ Clean(r)
  BY <1>1, PlanAssumption DEF Inv, Requested, Local, Open
<1>3. /\ Writers(X, r) = {} /\ Writers(ObsOf(snap), r) = {}
      /\ Writers(RelsOf(snap), r) = {}
      /\ Inserters(Inserted(ObsOf(snap)), r) = {}
      /\ Inserters(Inserted(RelsOf(snap)), r) = {}
  BY <1>1 DEF Blockers, KeyShare
<1>4. ids \subseteq snap /\ victims \subseteq Visible(X, r) /\ X \subseteq entities
  BY DEF WithID, Visible
<1>5. \A e \in victims : e \in entities /\ e.id \in ids /\ e.by = Nil /\ e.gone = Nil
  <2>1. Removable(entities, Visible(X, r), r)
    BY <1>2, <1>3, <1>4, FreeToRemove DEF Tables
  <2>2. \A e \in victims : e \in entities /\ e.by \in {Nil, r} /\ e.gone = Nil
    BY <1>4, <2>1 DEF Removable
  <2> QED
    BY <1>2, <2>2 DEF Clean, Untouched
<1> HIDE DEF snap, victims, ids
\* Every row that refers to a victim goes along.
<1>6. \A o \in observations : o.entity \in ids => o.by = Nil /\ o \in O
  <2> SUFFICES ASSUME NEW o \in observations, o.entity \in ids
      PROVE  o.by = Nil /\ o \in O
    OBVIOUS
  <2>1. o \in ObsOf(snap) /\ o \in ObsOf(ids)
    BY <1>4 DEF ObsOf
  <2>2. o.by # r /\ o.gone # r
    BY <1>2 DEF Clean, Untouched
  <2>3. o.by = Nil
    BY <1>3, <2>1, <2>2, InsertedOrHeld
  <2> QED
    BY <2>1, <2>2, <2>3 DEF Visible
<1>7. \A x \in relations : x.from \in ids \/ x.to \in ids => x.by = Nil /\ x \in R
  <2> SUFFICES ASSUME NEW x \in relations, x.from \in ids \/ x.to \in ids
      PROVE  x.by = Nil /\ x \in R
    OBVIOUS
  <2>1. x \in RelsOf(snap) /\ x \in RelsOf(ids)
    BY <1>4 DEF RelsOf
  <2>2. x.by # r /\ x.gone # r
    BY <1>2 DEF Clean, Untouched
  <2>3. x.by = Nil
    BY <1>3, <2>1, <2>2, InsertedOrHeld
  <2> QED
    BY <2>1, <2>2, <2>3 DEF Visible
<1>8. Removable(observations, O, r)
  <2>1. ObsOf(ids) \subseteq observations
    BY DEF ObsOf
  <2>2. ObsOf(ids) \subseteq ObsOf(snap)
    BY <1>4 DEF ObsOf
  <2>3. Writers(ObsOf(ids), r) = {}
    BY <1>3, <2>2 DEF Writers
  <2> QED
    BY <1>2, <2>1, <2>3, FreeToRemove DEF Tables
<1>9. Removable(relations, R, r)
  <2>1. RelsOf(ids) \subseteq relations
    BY DEF RelsOf
  <2>2. RelsOf(ids) \subseteq RelsOf(snap)
    BY <1>4 DEF RelsOf
  <2>3. Writers(RelsOf(ids), r) = {}
    BY <1>3, <2>2 DEF Writers
  <2> QED
    BY <1>2, <2>1, <2>3, FreeToRemove DEF Tables
<1>10. Removable(entities, victims, r)
  BY <1>5 DEF Removable
<1> HIDE DEF O, R
<1>11. /\ Rows(observations', ObservationColumns) /\ Numbered(observations', nextID)
       /\ Unique(observations', {"id"}) /\ Fixed(observations', "entity")
       /\ \A id : Known(observations, id) => Known(observations', id)
       /\ \A h \in history : h.action = "observation_deleted" =>
             \A p \in observations' : p.id = h.obs =>
                h.by # Nil /\ p.by = Nil /\ p.gone = h.by
       /\ \A s \in Requests : s # r /\ Untouched(observations, s)
                                => Untouched(observations', s)
  BY <1>1, <1>8, RemoveObservations
<1>12. /\ Rows(relations', RelationColumns) /\ Numbered(relations', nextID)
       /\ Unique(relations', {"from", "to", "type"})
       /\ \A x \in relations' : \E y \in relations : x.from = y.from /\ x.to = y.to
       /\ \A s \in Requests : s # r /\ Untouched(relations, s)
                                => Untouched(relations', s)
  BY <1>1, <1>9, RemoveRelations
<1>13. /\ Rows(entities', EntityColumns) /\ Numbered(entities', nextID)
       /\ Unique(entities', {"id"}) /\ Unique(entities', {"project", "name"})
       /\ Fixed(entities', "project")
       /\ \A s \in Requests : s # r /\ Untouched(entities, s)
                                => Untouched(entities', s)
  <2>1. /\ Rows(entities', EntityColumns)
        /\ \A D : D \subseteq EntityColumns /\ Unique(entities, D)
                    => Unique(entities', D)
        /\ Numbered(entities', nextID) /\ Fixed(entities', "project")
        /\ \A s \in Requests : s # r /\ Untouched(entities, s)
                                 => Untouched(entities', s)
    BY <1>1, <1>2, <1>10, ColumnsOfTables, RemoveKeeps DEF Tables, Keys
  <2> QED
    BY <1>2, <2>1, ColumnsOfTables DEF Keys
<1>14. \A v \in entities' : \E d \in entities : v.id = d.id /\ v.project = d.project
  <2>1. \A v \in entities' : \E d \in entities :
           Removing(d, v, r, d \in victims, EntityColumns)
    BY <1>1, <1>2, <1>10, ColumnsOfTables, InRemove DEF Tables
  <2> QED
    BY <2>1, ColumnsOfTables DEF Removing
<1>15. References(entities', observations', "entity")
  <2>1. \A o \in observations : \A e \in victims :
           o["entity"] = e.id => o.by = Nil /\ o \in O
    BY <1>5, <1>6
  <2>2. victims \subseteq entities /\ \A e \in victims : e.by = Nil /\ e.gone = Nil
    BY <1>5
  <2> QED
    BY <1>1, <1>2, <1>8, <2>1, <2>2, ColumnsOfTables, CascadeRefers
    DEF Tables, Keys, ForeignKeys
<1>16. /\ References(entities', relations', "from")
       /\ References(entities', relations', "to")
  <2>1. \A x \in relations : \A e \in victims :
           /\ x["from"] = e.id => x.by = Nil /\ x \in R
           /\ x["to"] = e.id => x.by = Nil /\ x \in R
    BY <1>5, <1>7
  <2>2. victims \subseteq entities /\ \A e \in victims : e.by = Nil /\ e.gone = Nil
    BY <1>5
  <2>3. References(entities', relations', "from")
    BY <1>1, <1>2, <1>9, <2>1, <2>2, ColumnsOfTables, CascadeRefers
    DEF Tables, Keys, ForeignKeys
  <2>4. References(entities', relations', "to")
    BY <1>1, <1>2, <1>9, <2>1, <2>2, ColumnsOfTables, CascadeRefers
    DEF Tables, Keys, ForeignKeys
  <2> QED
    BY <2>3, <2>4
<1>17. Tables'
  BY <1>1, <1>2, <1>11, <1>12, <1>13 DEF Tables
<1>18. Keys' /\ ForeignKeys'
  BY <1>11, <1>12, <1>13, <1>15, <1>16 DEF Keys, ForeignKeys
<1>19. Apart'
  BY <1>2, <1>12, <1>14, ApartStays
<1>20. Erased'
  BY <1>1, <1>2, <1>11 DEF Erased
<1>21. Leaves
  <2>1. nextID \in Nat
    BY <1>2 DEF Tables
  <2> QED
    BY <1>1, <1>11, <1>14, <2>1 DEF Leaves
<1>22. \A s \in Requests : s # r /\ Clean(s) => Clean(s)'
  BY <1>1, <1>11, <1>12, <1>13 DEF Clean
<1>23. Requested'
  BY <1>1, <1>21, <1>22, CommitIsNext
<1> QED
  BY <1>17, <1>18, <1>19, <1>20, <1>23 DEF Inv

(* ---- Statements that only read ---------------------------------------- *)

LEMMA BeginStep ==
    ASSUME Inv, NEW r \in Requests, NEW plan \in Plans, Begin(r, plan)
    PROVE  Inv'
<1>1. /\ req[r].pc = "idle" /\ UNCHANGED tables
      /\ req' = [req EXCEPT ![r] = StartCall(plan, plan)]
  BY DEF Begin
<1>2. Clean(r)
  BY <1>1 DEF Inv, Requested, Local, Open
<1>3. plan \in Seq(Calls)
  BY PlanAssumption
<1>4. PICK q : q = StartCall(plan, plan)
  OBVIOUS
<1>5. Local(q, r)
  BY <1>2, <1>3, <1>4, StartIsLocal
<1> QED
  BY <1>1, <1>4, <1>5, QuietStep

\* A request that moves on without having written: to a pc that asks for
\* nothing.
LEMMA ReadStep ==
    ASSUME Inv, NEW r \in Requests, NEW q, UNCHANGED tables,
           req' = [req EXCEPT ![r] = q], Shape(q), q.plan = req[r].plan,
           req[r].pc \notin Open \cup {"idle", "done", "failed"},
           q.pc \in {"cascade", "read_graph_obs", "commit"}
    PROVE  Inv'
<1>1. /\ Clean(r) /\ q.plan \in Seq(Calls) /\ q.plan # << >>
  BY HasPlan DEF Inv, Requested, Local
<1>2. Local(q, r)
  BY <1>1 DEF Local
<1> QED
  BY <1>2, QuietStep

LEMMA SnapObservationsStep ==
    ASSUME Inv, NEW r \in Requests, SnapObservations(r)
    PROVE  Inv'
<1>1. PICK ids : req' = [req EXCEPT ![r].pc = "clear_obs", ![r].snap = ids]
  BY DEF SnapObservations
<1>2. /\ req[r].pc = "snap_obs" /\ UNCHANGED tables
  BY DEF SnapObservations
<1>3. /\ Shape(req[r]) /\ req[r].plan \in Seq(Calls) /\ req[r].plan # << >>
  BY <1>2, HasPlan
<1>4. PICK q : q = [req[r] EXCEPT !.pc = "clear_obs", !.snap = ids]
  OBVIOUS
<1>5. Shape(q) /\ q.plan = req[r].plan /\ q.pc = "clear_obs"
  BY <1>3, <1>4 DEF Shape, Fields
<1>6. Local(q, r)
  BY <1>3, <1>5, OpenIsLocal DEF Open
<1>7. req' = [req EXCEPT ![r] = q]
  BY <1>1, <1>4
<1> QED
  BY <1>2, <1>6, <1>7, QuietStep

LEMMA SnapEntitiesStep ==
    ASSUME Inv, NEW r \in Requests, SnapEntities(r)
    PROVE  Inv'
<1>1. PICK ids : req' = [req EXCEPT ![r].pc = "cascade", ![r].snap = ids]
  BY DEF SnapEntities
<1>2. /\ req[r].pc = "delete_entities" /\ UNCHANGED tables
  BY DEF SnapEntities
<1>3. Shape(req[r])
  BY <1>2, HasPlan
<1>4. PICK q : q = [req[r] EXCEPT !.pc = "cascade", !.snap = ids]
  OBVIOUS
<1>5. Shape(q) /\ q.plan = req[r].plan /\ q.pc = "cascade"
  BY <1>3, <1>4 DEF Shape, Fields
<1>6. req' = [req EXCEPT ![r] = q]
  BY <1>1, <1>4
<1> QED
  BY <1>2, <1>5, <1>6, ReadStep DEF Open

LEMMA ReadGraphEntitiesStep ==
    ASSUME Inv, NEW r \in Requests, ReadGraphEntities(r)
    PROVE  Inv'
<1>1. PICK id, cut :
         req' = [req EXCEPT ![r].pc = "read_graph_obs", ![r].id = id, ![r].cut = cut]
  BY DEF ReadGraphEntities
<1>2. /\ req[r].pc = "read_graph" /\ UNCHANGED tables
  BY DEF ReadGraphEntities
<1>3. Shape(req[r])
  BY <1>2, HasPlan
<1>4. PICK q : q = [req[r] EXCEPT !.pc = "read_graph_obs", !.id = id, !.cut = cut]
  OBVIOUS
<1>5. Shape(q) /\ q.plan = req[r].plan /\ q.pc = "read_graph_obs"
  BY <1>3, <1>4 DEF Shape, Fields
<1>6. req' = [req EXCEPT ![r] = q]
  BY <1>1, <1>4
<1> QED
  BY <1>2, <1>5, <1>6, ReadStep DEF Open

LEMMA ReadGraphObservationsStep ==
    ASSUME Inv, NEW r \in Requests, ReadGraphObservations(r)
    PROVE  Inv'
<1>1. PICK seen, cut :
         req' = [req EXCEPT ![r].pc = "commit", ![r].seen = seen, ![r].cut = cut]
  BY DEF ReadGraphObservations
<1>2. /\ req[r].pc = "read_graph_obs" /\ UNCHANGED tables
  BY DEF ReadGraphObservations
<1>3. Shape(req[r])
  BY <1>2, HasPlan
<1>4. PICK q : q = [req[r] EXCEPT !.pc = "commit", !.seen = seen, !.cut = cut]
  OBVIOUS
<1>5. Shape(q) /\ q.plan = req[r].plan /\ q.pc = "commit"
  BY <1>3, <1>4 DEF Shape, Fields
<1>6. req' = [req EXCEPT ![r] = q]
  BY <1>1, <1>4
<1> QED
  BY <1>2, <1>5, <1>6, ReadStep DEF Open

LEMMA LogLookupStep ==
    ASSUME Inv, NEW r \in Requests, LogLookup(r)
    PROVE  Inv'
<1>1. PICK id : req' = [req EXCEPT ![r].pc = "log_insert", ![r].id = id]
  BY DEF LogLookup
<1>2. /\ req[r].pc = "log" /\ UNCHANGED tables
  BY DEF LogLookup
<1>3. /\ Shape(req[r]) /\ req[r].plan \in Seq(Calls) /\ req[r].plan # << >>
  BY <1>2, HasPlan
<1>4. Clean(r) /\ Head(req[r].plan).do = "log"
  BY <1>2 DEF Inv, Requested, Local, Open
<1>5. PICK q : q = [req[r] EXCEPT !.pc = "log_insert", !.id = id]
  OBVIOUS
<1>6. Shape(q) /\ q.plan = req[r].plan /\ q.pc = "log_insert"
  BY <1>3, <1>5 DEF Shape, Fields
<1>7. Local(q, r)
  BY <1>3, <1>4, <1>6 DEF Local
<1>8. req' = [req EXCEPT ![r] = q]
  BY <1>1, <1>5
<1> QED
  BY <1>2, <1>7, <1>8, QuietStep

LEMMA ReadEntityStep ==
    ASSUME Inv, NEW r \in Requests, ReadEntity(r)
    PROVE  Inv'
<1> DEFINE E == Visible(Named(Call(r).project, Call(r).name), r)
<1>1. req[r].pc = "update_entity"
  BY DEF ReadEntity
<1>2. CASE Fail(r)
  BY <1>2, FailStep
<1>3. CASE ~Fail(r)
  <2>1. PICK e \in E, pc \in {"check_name", "rename"} :
           /\ req' = [req EXCEPT ![r].id = e.id, ![r].old = e.type, ![r].pc = pc]
           /\ UNCHANGED tables
    BY <1>3 DEF ReadEntity
  <2>2. /\ Shape(req[r]) /\ req[r].plan \in Seq(Calls) /\ req[r].plan # << >>
        /\ Call(r) = Head(req[r].plan)
    BY <1>1, HasPlan
  <2>3. Clean(r)
    BY <1>1 DEF Inv, Requested, Local, Open
  <2>4. PICK q : q = [req[r] EXCEPT !.id = e.id, !.old = e.type, !.pc = pc]
    OBVIOUS
  <2>5. Shape(q) /\ q.plan = req[r].plan /\ q.pc = pc /\ q.id = e.id
    BY <2>2, <2>4 DEF Shape, Fields
  <2>6. InProject(e.id, Call(r).project)
    <3>1. e \in entities /\ e.project = Call(r).project
      BY DEF Visible, Named
    <3>2. e.id \in 1 .. nextID - 1
      BY <3>1 DEF Inv, Tables, Numbered
    <3>3. \A d \in entities : d.id = e.id => d.project = e.project
      BY <3>1 DEF Inv, Keys, Fixed
    <3> QED
      BY <3>1, <3>2, <3>3 DEF InProject
  <2>7. Local(q, r)
    BY <2>2, <2>3, <2>5, <2>6 DEF Local
  <2>8. req' = [req EXCEPT ![r] = q]
    BY <2>1, <2>4
  <2> QED
    BY <2>1, <2>7, <2>8, QuietStep
<1> QED
  BY <1>2, <1>3

LEMMA CheckNameStep ==
    ASSUME Inv, NEW r \in Requests, CheckName(r)
    PROVE  Inv'
<1>1. req[r].pc = "check_name"
  BY DEF CheckName
<1>2. CASE Fail(r)
  BY <1>2, FailStep
<1>3. CASE ~Fail(r)
  <2>1. req' = [req EXCEPT ![r].pc = "rename"] /\ UNCHANGED tables
    BY <1>3 DEF CheckName
  <2>2. /\ Shape(req[r]) /\ req[r].plan \in Seq(Calls) /\ req[r].plan # << >>
    BY <1>1, HasPlan
  <2>3. Clean(r) /\ InProject(req[r].id, Head(req[r].plan).project)
    BY <1>1 DEF Inv, Requested, Local, Open
  <2>4. PICK q : q = [req[r] EXCEPT !.pc = "rename"]
    OBVIOUS
  <2>5. Shape(q) /\ q.plan = req[r].plan /\ q.pc = "rename" /\ q.id = req[r].id
    BY <2>2, <2>4, Moves
  <2>6. Local(q, r)
    BY <2>2, <2>3, <2>5 DEF Local
  <2>7. req' = [req EXCEPT ![r] = q]
    BY <2>1, <2>4
  <2> QED
    BY <2>1, <2>6, <2>7, QuietStep
<1> QED
  BY <1>2, <1>3

LEMMA FindObservationStep ==
    ASSUME Inv, NEW r \in Requests, FindObservation(r)
    PROVE  Inv'
<1>1. req[r].pc \in {"delete_obs", "update_obs", "delete_obs_by_content",
                     "update_obs_by_content"}
  BY DEF FindObservation
<1>2. CASE Fail(r)
  BY <1>2, FailStep
<1>3. CASE ~Fail(r)
  <2>1. PICK o \in Visible(observations, r), e \in Visible(entities, r) :
           /\ req' = [req EXCEPT ![r].pc = "write_obs", ![r].id = e.id,
                        ![r].obs = o.id, ![r].name = e.name, ![r].old = o.content]
           /\ UNCHANGED tables
    BY <1>3 DEF FindObservation
  <2>2. /\ Shape(req[r]) /\ req[r].plan \in Seq(Calls) /\ req[r].plan # << >>
    BY <1>1, HasPlan
  <2>3. Clean(r)
    BY <1>1 DEF Inv, Requested, Local, Open
  <2>4. PICK q : q = [req[r] EXCEPT !.pc = "write_obs", !.id = e.id,
                        !.obs = o.id, !.name = e.name, !.old = o.content]
    OBVIOUS
  <2>5. Shape(q) /\ q.plan = req[r].plan /\ q.pc = "write_obs" /\ q.obs = o.id
    BY <2>2, <2>4 DEF Shape, Fields
  <2>6. o \in observations /\ o.by = Nil
    BY <2>3 DEF Visible, Clean, Untouched
  <2>7. o.id \in 1 .. nextID - 1 /\ Known(observations, o.id)
    BY <2>6 DEF Inv, Tables, Numbered, Known
  <2>8. Local(q, r)
    BY <2>2, <2>3, <2>5, <2>7 DEF Local
  <2>9. req' = [req EXCEPT ![r] = q]
    BY <2>1, <2>4
  <2> QED
    BY <2>1, <2>8, <2>9, QuietStep
<1> QED
  BY <1>2, <1>3

(* ---- Statements that insert rows that refer to entities --------------- *)

\* An entity that r sees, and whose key nobody else is changing, lives.
LEMMA SeenLives ==
    ASSUME NEW r, NEW id, Visible(WithID(entities, {id}), r) # {},
           Writers(KeyChanged(id), r) = {}
    PROVE  Lives(entities, id, r)
<1>1. PICK e \in entities : e.id = id /\ e.by \in {Nil, r} /\ e.gone # r
  BY DEF Visible, WithID
<1>2. CASE e.gone = Nil
  BY <1>1, <1>2 DEF Lives
<1>3. CASE e.gone # Nil
  <2>1. e \notin KeyChanged(id)
    BY <1>1, <1>3 DEF Writers
  <2>2. \E f \in entities : f.id = id /\ f.by = e.gone
    BY <1>1, <2>1 DEF KeyChanged, WithID
  <2> QED
    BY <1>1, <2>2 DEF Lives
<1> QED
  BY <1>2, <1>3

\* The observations after an INSERT under an entity that lives.
LEMMA InsertObservationTables ==
    ASSUME Inv, NEW r \in Requests, NEW id, NEW content, NEW n,
           n = [by |-> r, gone |-> Nil, id |-> nextID, entity |-> id,
                content |-> content],
           Lives(entities, id, r), nextID' = nextID + 1,
           observations' = observations \cup {n}
    PROVE  /\ Rows(observations', ObservationColumns)
           /\ Numbered(observations', nextID')
           /\ Unique(observations', {"id"}) /\ Fixed(observations', "entity")
           /\ References(entities, observations', "entity")
           /\ \A i \in 1 .. nextID - 1 :
                 Known(observations, i) => Known(observations', i)
           /\ \A s \in Requests : s # r /\ Untouched(observations, s)
                                    => Untouched(observations', s)
<1>1. Tables /\ Keys /\ ForeignKeys /\ Nil \notin Requests
  BY PlanAssumption DEF Inv
<1>2. /\ nextID \in Nat /\ nextID' \in Nat \ {0} /\ nextID' >= nextID
      /\ nextID \in 1 .. nextID' - 1
      /\ nextID \notin 1 .. nextID - 1
  BY <1>1 DEF Tables
<1>3. /\ n = [c \in DOMAIN n |-> n[c]]
      /\ {"by", "gone"} \cup ObservationColumns \subseteq DOMAIN n
      /\ n.by = r /\ n.gone = Nil /\ n.id = nextID /\ n.entity = id
  BY DEF ObservationColumns
<1>4. \A o \in observations : o.id # nextID
  BY <1>1, <1>2 DEF Tables, Numbered
<1>5. \A o \in observations : SameOn({"id"}, o, n) => Alt(o, n)
  BY <1>3, <1>4 DEF SameOn
<1>6. Numbered(observations, nextID')
  BY <1>1, <1>2, Grows DEF Tables
<1>7. /\ Rows(observations', ObservationColumns)
      /\ Numbered(observations', nextID')
      /\ Unique(observations', {"id"})
      /\ \A s \in Requests : s # r /\ Untouched(observations, s)
                               => Untouched(observations', s)
  <2>1. Rows(observations, ObservationColumns) /\ Unique(observations, {"id"})
    BY <1>1 DEF Tables, Keys
  <2>2. PICK m : m = n
    OBVIOUS
  <2>3. /\ m = [c \in DOMAIN m |-> m[c]]
        /\ {"by", "gone"} \cup ObservationColumns \subseteq DOMAIN m
        /\ m.by \in Owners /\ m.gone = Nil /\ m.by = r
    BY <1>3, <2>2 DEF Owners
  <2>4. \A v \in observations : SameOn({"id"}, v, m) => Alt(v, m)
    BY <1>5, <2>2
  <2>5. m.id \in 1 .. nextID' - 1
    BY <1>2, <1>3, <2>2
  <2> HIDE DEF ObservationColumns
  <2>6. /\ Rows(observations \cup {m}, ObservationColumns)
        /\ \A D : /\ Unique(observations, D)
                  /\ \A v \in observations : SameOn(D, v, m) => Alt(v, m)
                  => Unique(observations \cup {m}, D)
        /\ \A k : Numbered(observations, k) /\ m.id \in 1 .. k - 1
                  => Numbered(observations \cup {m}, k)
        /\ \A s \in Requests : s # m.by /\ Nil \notin Requests
              /\ Untouched(observations, s) => Untouched(observations \cup {m}, s)
    BY <2>1, <2>3, AddKeeps
  <2>7. observations' = observations \cup {m}
    BY <2>2
  <2> QED
    BY <1>1, <1>6, <2>1, <2>3, <2>4, <2>5, <2>6, <2>7
<1>8. Fixed(observations', "entity")
  BY <1>1, <1>3, <1>4 DEF Keys, Fixed
<1>9. References(entities, observations', "entity")
  BY <1>1, <1>3 DEF ForeignKeys, References, Refers
<1>10. ASSUME NEW i \in 1 .. nextID - 1, Known(observations, i)
       PROVE  Known(observations', i)
  BY <1>2, <1>3, <1>10 DEF Known
<1> QED
  BY <1>7, <1>8, <1>9, <1>10

LEMMA InsertObservationStep ==
    ASSUME Inv, NEW r \in Requests, InsertObservation(r)
    PROVE  Inv'
<1>1. req[r].pc = "insert_obs" /\ Blockers(r) = {}
  BY DEF InsertObservation
<1>2. CASE Fail(r)
  BY <1>2, FailStep
<1>3. CASE ~Fail(r)
  <2> DEFINE q == req[r]
             content == Head(q.contents)
             row == [by |-> r, gone |-> Nil, id |-> nextID, entity |-> q.id,
                     content |-> content]
             entry == Record(r, q.id, Item(r).name, nextID,
                             "observation_created", Nil, content)
             N == IF Call(r).audited THEN {entry} ELSE {}
  <2>1. /\ Visible(WithID(entities, {q.id}), r) # {}
        /\ observations' = observations \cup {row}
        /\ history' = history \cup N
        /\ nextID' = nextID + 1
        /\ req' = [req EXCEPT ![r] = AfterItem([q EXCEPT !.contents = Tail(@)])]
        /\ entities' = entities /\ relations' = relations
    BY <1>3 DEF InsertObservation
  <2>2. Tables /\ Keys /\ ForeignKeys /\ Apart /\ Erased /\ Nil \notin Requests
    BY PlanAssumption DEF Inv
  <2>3. Lives(entities, q.id, r)
    <3>1. Writers(KeyChanged(q.id), r) = {}
      BY <1>1 DEF Blockers
    <3> QED
      BY <2>1, <3>1, SeenLives
  <2>4. /\ Shape(q) /\ q.plan \in Seq(Calls) /\ q.plan # << >>
    BY <1>1, HasPlan
  <2>5. PICK n, e, id, c : n = row /\ e = entry /\ id = q.id /\ c = content
    OBVIOUS
  <2>6. n = [by |-> r, gone |-> Nil, id |-> nextID, entity |-> id, content |-> c]
    BY <2>5
  <2>7. Entry(e) /\ e.by = r /\ e.id = nextID
    BY <2>5, RecordForm DEF Entry
  <2>8. N \subseteq {e} /\ observations' = observations \cup {n}
    BY <2>1, <2>5
  <2>9. PICK m : m = [q EXCEPT !.contents = Tail(@)]
    OBVIOUS
  <2>10. Shape(m) /\ m.plan = q.plan
    BY <2>4, <2>9 DEF Shape, Fields
  <2>11. PICK w : w = AfterItem(m)
    OBVIOUS
  <2>12. /\ Shape(w) /\ w.plan = m.plan
         /\ w.pc \in {"insert_obs", "find_item", "find_from", "commit"}
    BY <2>10, <2>11, ItemFollows
  <2>13. req' = [req EXCEPT ![r] = w]
    BY <2>1, <2>9, <2>11
  <2>14. Lives(entities, id, r)
    BY <2>3, <2>5
  <2>15. w.plan \in Seq(Calls) /\ w.plan # << >>
    BY <2>4, <2>10, <2>12
  <2> HIDE DEF q, row, entry, content, N
  <2>16. /\ nextID' \in Nat \ {0} /\ nextID' >= nextID
         /\ nextID \in 1 .. nextID' - 1
         /\ \A i \in 1 .. nextID - 1 : i \in 1 .. nextID' - 1
    BY <2>1, Taken
  <2>17. /\ Rows(observations', ObservationColumns)
         /\ Numbered(observations', nextID')
         /\ Unique(observations', {"id"}) /\ Fixed(observations', "entity")
         /\ References(entities, observations', "entity")
         /\ \A i \in 1 .. nextID - 1 :
               Known(observations, i) => Known(observations', i)
         /\ \A s \in Requests : s # r /\ Untouched(observations, s)
                                  => Untouched(observations', s)
    BY <2>1, <2>6, <2>8, <2>14, InsertObservationTables
  <2>18. /\ Rows(history', EntryColumns) /\ Numbered(history', nextID')
         /\ \A s \in Requests : s # r /\ Untouched(history, s)
                                  => Untouched(history', s)
    <3>1. \A g \in N : /\ g = [f \in DOMAIN g |-> g[f]]
                       /\ {"by", "gone"} \cup EntryColumns \subseteq DOMAIN g
                       /\ g.by = r /\ g.gone = Nil /\ g.id \in 1 .. nextID' - 1
      BY <2>7, <2>8, <2>16 DEF Entry
    <3> QED
      BY <2>1, <2>16, <3>1, AddEntries
  <2>19. Tables'
    BY <2>1, <2>2, <2>16, <2>17, <2>18, NumbersGrow DEF Tables
  <2>20. Keys' /\ ForeignKeys'
    BY <2>1, <2>2, <2>17 DEF Keys, ForeignKeys
  <2>21. Apart'
    BY <2>1, <2>2, ApartStays
  <2>22. Erased'
    <3>1. \A h \in history' : h \in history \/ h.action # "observation_deleted"
      BY <2>1, <2>7, <2>8 DEF Entry
    <3>2. nextID \in Nat /\ n.id = nextID
      BY <2>2, <2>6 DEF Tables
    <3>3. \A h \in history : h.action = "observation_deleted" =>
             h.obs \in 1 .. nextID - 1 /\ h.obs # n.id
      BY <2>2, <3>2 DEF Erased
    <3>4. \A o \in observations' : o \in observations \/ o = n
      BY <2>8
    <3> QED
      BY <2>2, <2>16, <3>1, <3>3, <3>4 DEF Erased
  <2>23. Leaves
    BY <2>1, <2>16, <2>17 DEF Leaves
  <2>24. \A s \in Requests : s # r /\ Clean(s) => Clean(s)'
    BY <2>1, <2>17, <2>18 DEF Clean
  <2>25. Local(w, r)'
    BY <2>12, <2>15, OpenIsLocalNext DEF Open
  <2>26. Requested'
    BY <2>13, <2>23, <2>24, <2>25, OthersStay
  <2> QED
    BY <2>19, <2>20, <2>21, <2>22, <2>26 DEF Inv
<1> QED
  BY <1>2, <1>3

\* The relations after an INSERT of a triple nobody else holds.
LEMMA InsertRelationTables ==
    ASSUME Inv, NEW r \in Requests, NEW from, NEW to, NEW type, NEW n,
           n = [by |-> r, gone |-> Nil, id |-> nextID, from |-> from,
                to |-> to, type |-> type],
           Lives(entities, from, r), Lives(entities, to, r),
           UniqueWait(SameTriple(from, to, type), r) = {},
           Visible(SameTriple(from, to, type), r) = {},
           nextID' = nextID + 1, relations' = relations \cup {n}
    PROVE  /\ Rows(relations', RelationColumns) /\ Numbered(relations', nextID')
           /\ Unique(relations', {"from", "to", "type"})
           /\ References(entities, relations', "from")
           /\ References(entities, relations', "to")
           /\ \A s \in Requests : s # r /\ Untouched(relations, s)
                                    => Untouched(relations', s)
<1>1. Tables /\ Keys /\ ForeignKeys /\ Nil \notin Requests
  BY PlanAssumption DEF Inv
<1>2. /\ nextID \in Nat /\ nextID' \in Nat \ {0} /\ nextID' >= nextID
      /\ nextID \in 1 .. nextID' - 1
  BY <1>1 DEF Tables
<1>3. /\ n = [c \in DOMAIN n |-> n[c]]
      /\ {"by", "gone"} \cup RelationColumns \subseteq DOMAIN n
      /\ n.by = r /\ n.gone = Nil /\ n.id = nextID
      /\ n.from = from /\ n.to = to /\ n.type = type
  BY DEF RelationColumns
<1>4. \A x \in relations : SameOn({"from", "to", "type"}, x, n) => Alt(x, n)
  <2> SUFFICES ASSUME NEW x \in relations, SameOn({"from", "to", "type"}, x, n)
      PROVE  Alt(x, n)
    OBVIOUS
  <2>1. x \in SameTriple(from, to, type)
    BY <1>3 DEF SameOn, SameTriple
  <2>2. SameTriple(from, to, type) \subseteq relations
    BY DEF SameTriple
  <2>3. x.by = Nil /\ x.gone = r
    BY <1>1, <2>1, <2>2, NobodyElse DEF Tables
  <2> QED
    BY <1>1, <1>3, <2>3 DEF Alt, Replaced
<1>5. Numbered(relations, nextID')
  BY <1>1, <1>2, Grows DEF Tables
<1>6. /\ Rows(relations', RelationColumns) /\ Numbered(relations', nextID')
      /\ Unique(relations', {"from", "to", "type"})
      /\ \A s \in Requests : s # r /\ Untouched(relations, s)
                               => Untouched(relations', s)
  <2>1. Rows(relations, RelationColumns) /\ Unique(relations, {"from", "to", "type"})
    BY <1>1 DEF Tables, Keys
  <2>2. PICK m : m = n
    OBVIOUS
  <2>3. /\ m = [c \in DOMAIN m |-> m[c]]
        /\ {"by", "gone"} \cup RelationColumns \subseteq DOMAIN m
        /\ m.by \in Owners /\ m.gone = Nil /\ m.by = r
    BY <1>3, <2>2 DEF Owners
  <2>4. \A v \in relations : SameOn({"from", "to", "type"}, v, m) => Alt(v, m)
    BY <1>4, <2>2
  <2>5. m.id \in 1 .. nextID' - 1
    BY <1>2, <1>3, <2>2
  <2> HIDE DEF RelationColumns
  <2>6. /\ Rows(relations \cup {m}, RelationColumns)
        /\ \A D : /\ Unique(relations, D)
                  /\ \A v \in relations : SameOn(D, v, m) => Alt(v, m)
                  => Unique(relations \cup {m}, D)
        /\ \A k : Numbered(relations, k) /\ m.id \in 1 .. k - 1
                  => Numbered(relations \cup {m}, k)
        /\ \A s \in Requests : s # m.by /\ Nil \notin Requests
              /\ Untouched(relations, s) => Untouched(relations \cup {m}, s)
    BY <2>1, <2>3, AddKeeps
  <2>7. relations' = relations \cup {m}
    BY <2>2
  <2> QED
    BY <1>1, <1>5, <2>1, <2>3, <2>4, <2>5, <2>6, <2>7
<1>7. References(entities, relations', "from") /\ References(entities, relations', "to")
  BY <1>1, <1>3 DEF ForeignKeys, References, Refers
<1> QED
  BY <1>6, <1>7

LEMMA InsertRelationStep ==
    ASSUME Inv, NEW r \in Requests, InsertRelation(r)
    PROVE  Inv'
<1>1. req[r].pc = "insert_rel" /\ Blockers(r) = {}
  BY DEF InsertRelation
<1>2. CASE Fail(r)
  BY <1>2, FailStep
<1>3. CASE ~Fail(r)
  <2> DEFINE q == req[r]
             type == Triple(r).type
             new == [by |-> r, gone |-> Nil, id |-> nextID, from |-> q.id,
                     to |-> q.id2, type |-> type]
             there(id) == Visible(WithID(entities, {id}), r) # {}
  <2>1. /\ there(q.id) /\ there(q.id2)
        /\ IF Existing(new.from, new.to, new.type, r) = {}
           THEN relations' = relations \cup {new} /\ nextID' = nextID + 1
           ELSE relations' = relations /\ nextID' = nextID
        /\ req' = [req EXCEPT ![r].triples = Tail(@),
                              ![r].pc = LoopPc(<< >>, Tail(q.triples))]
        /\ entities' = entities /\ observations' = observations
        /\ history' = history
    BY <1>3 DEF InsertRelation
  <2>2. Tables /\ Keys /\ ForeignKeys /\ Apart /\ Erased /\ Nil \notin Requests
    BY PlanAssumption DEF Inv
  <2>3. /\ Shape(q) /\ q.plan \in Seq(Calls) /\ q.plan # << >>
    BY <1>1, HasPlan
  <2>4. PICK from, to, n, k :
           /\ from = q.id /\ to = q.id2 /\ n = new /\ k = type
    OBVIOUS
  <2>5. PICK project : InProject(from, project) /\ InProject(to, project)
    BY <1>1, <2>4 DEF Inv, Requested, Local
  <2>6. /\ Writers(KeyChanged(from), r) = {} /\ Writers(KeyChanged(to), r) = {}
        /\ UniqueWait(SameTriple(from, to, k), r) = {}
    BY <1>1, <2>4 DEF Blockers, Writers
  <2>7. Lives(entities, from, r) /\ Lives(entities, to, r)
    BY <2>1, <2>4, <2>6, SeenLives
  <2>8. n = [by |-> r, gone |-> Nil, id |-> nextID, from |-> from, to |-> to,
             type |-> k]
    BY <2>4
  <2>9. PICK pc : pc = LoopPc(<< >>, Tail(q.triples))
    OBVIOUS
  <2>10. pc \in {"find_item", "find_from", "commit"}
    BY <2>9, LoopPcs
  <2>11. PICK w : w = [q EXCEPT !.triples = Tail(@), !.pc = pc]
    OBVIOUS
  <2>12. Shape(w) /\ w.plan = q.plan /\ w.pc = pc
    BY <2>3, <2>11 DEF Shape, Fields
  <2>13. req' = [req EXCEPT ![r] = w]
    BY <2>1, <2>9, <2>11
  <2>14. Local(w, r)'
    BY <2>3, <2>10, <2>12, OpenIsLocalNext DEF Open
  <2>15. \/ /\ Visible(SameTriple(from, to, k), r) = {}
            /\ relations' = relations \cup {n} /\ nextID' = nextID + 1
         \/ relations' = relations /\ nextID' = nextID
    <3>1. new.from = from /\ new.to = to /\ new.type = k
      BY <2>4
    <3> QED
      BY <2>1, <2>4, <3>1 DEF Existing
  <2> HIDE DEF q, type, new, there
  <2>16. CASE relations' = relations /\ nextID' = nextID
    <3>1. Tables' /\ Keys' /\ ForeignKeys' /\ Apart' /\ Erased'
      BY <2>1, <2>2, <2>16 DEF Tables, Keys, ForeignKeys, Apart, Erased
    <3>2. Leaves /\ \A s \in Requests : s # r /\ Clean(s) => Clean(s)'
      BY <2>1, <2>2, <2>16 DEF Leaves, Tables, Clean
    <3>3. Requested'
      BY <2>13, <2>14, <3>2, OthersStay
    <3> QED
      BY <3>1, <3>3 DEF Inv
  <2>17. CASE /\ Visible(SameTriple(from, to, k), r) = {}
              /\ relations' = relations \cup {n} /\ nextID' = nextID + 1
    <3>1. /\ Rows(relations', RelationColumns) /\ Numbered(relations', nextID')
          /\ Unique(relations', {"from", "to", "type"})
          /\ References(entities, relations', "from")
          /\ References(entities, relations', "to")
          /\ \A s \in Requests : s # r /\ Untouched(relations, s)
                                   => Untouched(relations', s)
      BY <2>6, <2>7, <2>8, <2>17, InsertRelationTables
    <3>2. /\ nextID' \in Nat \ {0} /\ nextID' >= nextID
          /\ \A i \in 1 .. nextID - 1 : i \in 1 .. nextID' - 1
      BY <2>17, Taken
    <3>3. Tables'
      BY <2>1, <2>2, <3>1, <3>2, NumbersGrow DEF Tables
    <3>4. Keys' /\ ForeignKeys'
      BY <2>1, <2>2, <3>1 DEF Keys, ForeignKeys
    <3>5. Apart'
      <4>1. n.from = from /\ n.to = to
        BY <2>8
      <4>2. \A d, e \in entities : d.id = from /\ e.id = to => d.project = e.project
        BY <2>5 DEF InProject
      <4> QED
        BY <2>1, <2>2, <2>17, <4>1, <4>2 DEF Apart
    <3>6. Erased'
      BY <2>1, <2>2, <3>2, ErasedStays
    <3>7. Leaves
      BY <2>1, <3>2 DEF Leaves
    <3>8. \A s \in Requests : s # r /\ Clean(s) => Clean(s)'
      BY <2>1, <3>1 DEF Clean
    <3>9. Requested'
      BY <2>13, <2>14, <3>7, <3>8, OthersStay
    <3> QED
      BY <3>3, <3>4, <3>5, <3>6, <3>9 DEF Inv
  <2> QED
    BY <2>15, <2>16, <2>17
<1> QED
  BY <1>2, <1>3

(* ---- The other statements that change one table ------------------------ *)

LEMMA EraseRelationStep ==
    ASSUME Inv, NEW r \in Requests, EraseRelation(r)
    PROVE  Inv'
<1> DEFINE X == Matches(r)
<1>1. /\ req[r].pc \in {"delete_rel", "delete_rel_by_triple"}
      /\ Blockers(r) = {}
  BY DEF EraseRelation
<1>2. CASE Fail(r)
  BY <1>2, FailStep
<1>3. CASE ~Fail(r)
  <2>1. /\ relations' = Remove(relations, Visible(X, r), r)
        /\ req' = [req EXCEPT ![r].pc = "commit"]
        /\ entities' = entities /\ observations' = observations
        /\ history' = history /\ nextID' = nextID
    BY <1>3 DEF EraseRelation
  <2>2. Tables /\ Keys /\ ForeignKeys /\ Apart /\ Erased /\ Nil \notin Requests
    BY PlanAssumption DEF Inv
  <2>3. X \subseteq relations
    BY DEF Matches
  <2>4. Writers(X, r) = {}
    BY <1>1 DEF Blockers
  <2> HIDE DEF X
  <2>5. Removable(relations, Visible(X, r), r)
    BY <2>2, <2>3, <2>4, FreeToRemove DEF Tables
  <2>6. /\ Rows(relations', RelationColumns) /\ Numbered(relations', nextID)
        /\ Unique(relations', {"from", "to", "type"})
        /\ References(entities, relations', "from")
        /\ References(entities, relations', "to")
        /\ \A x \in relations' : \E y \in relations : x.from = y.from /\ x.to = y.to
        /\ \A s \in Requests : s # r /\ Untouched(relations, s)
                                 => Untouched(relations', s)
    BY <2>1, <2>5, RemoveRelations
  <2>7. Tables' /\ Keys' /\ ForeignKeys' /\ Erased'
    BY <2>1, <2>2, <2>6 DEF Tables, Keys, ForeignKeys, Erased
  <2>8. Apart'
    BY <2>1, <2>2, <2>6, ApartStays
  <2>9. Leaves /\ \A s \in Requests : s # r /\ Clean(s) => Clean(s)'
    BY <2>1, <2>2, <2>6 DEF Leaves, Tables, Clean
  <2>10. Requested'
    BY <1>1, <2>1, <2>9, CommitIsNext
  <2> QED
    BY <2>7, <2>8, <2>10 DEF Inv
<1> QED
  BY <1>2, <1>3

LEMMA LogInsertStep ==
    ASSUME Inv, NEW r \in Requests, LogInsert(r)
    PROVE  Inv'
<1>1. PICK g : g = Record(r, req[r].id, Call(r).name, Nil, Call(r).action, Nil, Nil)
  OBVIOUS
<1>2. /\ req[r].pc = "log_insert"
      /\ history' = history \cup {g} /\ nextID' = nextID + 1
      /\ req' = [req EXCEPT ![r].pc = "commit"]
      /\ entities' = entities /\ observations' = observations
      /\ relations' = relations
  BY <1>1 DEF LogInsert
<1>3. Tables /\ Keys /\ ForeignKeys /\ Apart /\ Erased
  BY DEF Inv
<1>4. Entry(g) /\ g.by = r /\ g.id = nextID
  <2>1. Call(r) \in Calls /\ Call(r).do = "log"
    BY <1>2, HasPlan DEF Inv, Requested, Local
  <2>2. Call(r).action # "observation_deleted"
    BY <2>1, PlanAssumption
  <2> QED
    BY <1>1, <2>2, RecordForm DEF Entry
<1>5. /\ nextID' \in Nat \ {0} /\ nextID' >= nextID
      /\ nextID \in 1 .. nextID' - 1
      /\ \A i \in 1 .. nextID - 1 : i \in 1 .. nextID' - 1
  BY <1>2, Taken
<1>6. /\ Rows(history', EntryColumns) /\ Numbered(history', nextID')
      /\ \A s \in Requests : s # r /\ Untouched(history, s)
                               => Untouched(history', s)
  <2>1. PICK N : N = {g}
    OBVIOUS
  <2>2. \A h \in N : /\ h = [f \in DOMAIN h |-> h[f]]
                     /\ {"by", "gone"} \cup EntryColumns \subseteq DOMAIN h
                     /\ h.by = r /\ h.gone = Nil /\ h.id \in 1 .. nextID' - 1
    BY <1>4, <1>5, <2>1 DEF Entry
  <2>3. history' = history \cup N
    BY <1>2, <2>1
  <2> QED
    BY <1>5, <2>2, <2>3, AddEntries
<1>7. Tables'
  BY <1>2, <1>3, <1>5, <1>6, NumbersGrow DEF Tables
<1>8. Keys' /\ ForeignKeys'
  BY <1>2, <1>3 DEF Keys, ForeignKeys
<1>9. Apart'
  BY <1>2, <1>3, ApartStays
<1>10. Erased'
  <2>1. \A h \in history' : h \in history \/ h.action # "observation_deleted"
    BY <1>2, <1>4 DEF Entry
  <2> QED
    BY <1>2, <1>3, <1>5, <2>1, ErasedStays
<1>11. Leaves
  BY <1>2, <1>5 DEF Leaves
<1>12. \A s \in Requests : s # r /\ Clean(s) => Clean(s)'
  BY <1>2, <1>6 DEF Clean
<1>13. Requested'
  BY <1>2, <1>11, <1>12, CommitIsNext
<1> QED
  BY <1>7, <1>8, <1>9, <1>10, <1>13 DEF Inv

(* ---- Statements that write one observation ---------------------------- *)

\* What a request that has written nothing finds of an observation it has read
\* before, once nobody else holds it: one committed version, or nothing.
LEMMA HeldObservation ==
    ASSUME Inv, NEW r \in Requests, Clean(r), NEW id, Known(observations, id),
           Writers(WithID(observations, {id}), r) = {}
    PROVE  LET rows == Visible(WithID(observations, {id}), r)
           IN  \/ rows = {} /\ \A o \in observations : o.id # id
               \/ \E o \in observations :
                     /\ rows = {o} /\ o.id = id /\ o.by = Nil /\ o.gone = Nil
                     /\ \A v \in observations : v.id = id => v = o
<1> DEFINE X == WithID(observations, {id})
           rows == Visible(X, r)
<1>1. Rows(observations, ObservationColumns) /\ Unique(observations, {"id"})
      /\ Nil \notin Requests
  BY PlanAssumption DEF Inv, Tables, Keys
<1>2. CASE \A o \in observations : o.id # id
  BY <1>2 DEF WithID, Visible
<1>3. CASE \E o \in observations : o.id = id
  <2>1. PICK o \in observations : o.id = id /\ o.by = Nil
    BY <1>3 DEF Known
  <2>2. o.gone = Nil
    BY <2>1 DEF Clean, Untouched, Writers, WithID
  <2>3. \A v \in observations : v.id = id => v = o
    BY <1>1, <2>1, <2>2 DEF Unique, SameOn, Alt, Replaced
  <2>4. o \in rows
    BY <1>1, <2>1, <2>2 DEF Visible, WithID
  <2>5. rows \subseteq observations /\ \A v \in rows : v.id = id
    BY DEF Visible, WithID
  <2>6. rows = {o}
    BY <2>3, <2>4, <2>5
  <2> QED
    BY <2>1, <2>2, <2>3, <2>6
<1> QED
  BY <1>2, <1>3

\* A deletion enters the trail with the lock on the last version.
LEMMA EraseObservationStep ==
    ASSUME Inv, NEW r \in Requests, EraseObservation(r)
    PROVE  Inv'
<1>1. PICK id, g, V :
         /\ id = req[r].obs /\ V = Visible(WithID(observations, {id}), r)
         /\ g = Record(r, req[r].id, req[r].name, id, "observation_deleted",
                       req[r].old, Nil)
  OBVIOUS
<1>2. /\ req[r].pc = "write_obs" /\ Blockers(r) = {}
      /\ observations' = Remove(observations, V, r)
      /\ history' = history \cup {g} /\ nextID' = nextID + 1
      /\ req' = [req EXCEPT ![r].pc = "commit"]
      /\ entities' = entities /\ relations' = relations
  BY <1>1 DEF EraseObservation
<1>3. Tables /\ Keys /\ ForeignKeys /\ Apart /\ Erased /\ Nil \notin Requests
  BY PlanAssumption DEF Inv
<1>4. Clean(r) /\ id \in 1 .. nextID - 1 /\ Known(observations, id)
  BY <1>1, <1>2 DEF Inv, Requested, Local, Open
<1>5. Writers(WithID(observations, {id}), r) = {}
  BY <1>1, <1>2 DEF Blockers
<1>6. \/ V = {} /\ \A o \in observations : o.id # id
      \/ \E o \in observations :
            /\ V = {o} /\ o.id = id /\ o.by = Nil /\ o.gone = Nil
            /\ \A v \in observations : v.id = id => v = o
  BY <1>1, <1>4, <1>5, HeldObservation
<1>7. Removable(observations, V, r)
  BY <1>6 DEF Removable
<1>8. /\ Rows(observations', ObservationColumns) /\ Numbered(observations', nextID)
      /\ Unique(observations', {"id"}) /\ Fixed(observations', "entity")
      /\ References(entities, observations', "entity")
      /\ \A i : Known(observations, i) => Known(observations', i)
      /\ \A h \in history : h.action = "observation_deleted" =>
            \A p \in observations' : p.id = h.obs =>
               h.by # Nil /\ p.by = Nil /\ p.gone = h.by
      /\ \A s \in Requests : s # r /\ Untouched(observations, s)
                               => Untouched(observations', s)
  BY <1>2, <1>7, RemoveObservations
\* All that is left of the observation is the version r holds.
<1>9. ASSUME NEW p \in observations', p.id = id
      PROVE  p.by = Nil /\ p.gone = r
  <2>1. PICK o \in observations : Removing(o, p, r, o \in V, ObservationColumns)
    BY <1>2, <1>3, <1>7, ColumnsOfTables, InRemove DEF Tables
  <2>2. o.id = id
    BY <1>9, <2>1, ColumnsOfTables DEF Removing
  <2>3. o \in V
    BY <1>6, <2>2
  <2> QED
    BY <2>1, <2>3 DEF Removing
<1>10. /\ g.by = r /\ g.obs = id /\ g.gone = Nil /\ g.id = nextID
       /\ g = [f \in DOMAIN g |-> g[f]]
       /\ {"by", "gone"} \cup EntryColumns \subseteq DOMAIN g
  BY <1>1, RecordForm
<1>11. /\ nextID' \in Nat \ {0} /\ nextID' >= nextID
       /\ nextID \in 1 .. nextID' - 1
       /\ \A i \in 1 .. nextID - 1 : i \in 1 .. nextID' - 1
  BY <1>2, Taken
<1>12. /\ Rows(history', EntryColumns) /\ Numbered(history', nextID')
       /\ \A s \in Requests : s # r /\ Untouched(history, s)
                                => Untouched(history', s)
  <2>1. PICK N : N = {g}
    OBVIOUS
  <2>2. \A h \in N : /\ h = [f \in DOMAIN h |-> h[f]]
                     /\ {"by", "gone"} \cup EntryColumns \subseteq DOMAIN h
                     /\ h.by = r /\ h.gone = Nil /\ h.id \in 1 .. nextID' - 1
    BY <1>10, <1>11, <2>1
  <2>3. history' = history \cup N
    BY <1>2, <2>1
  <2> QED
    BY <1>11, <2>2, <2>3, AddEntries
<1>13. Tables'
  <2>1. Numbered(observations', nextID')
    BY <1>8, <1>11 DEF Numbered
  <2> QED
    BY <1>2, <1>3, <1>8, <1>11, <1>12, <2>1, NumbersGrow DEF Tables
<1>14. Keys' /\ ForeignKeys'
  BY <1>2, <1>3, <1>8 DEF Keys, ForeignKeys
<1>15. Apart'
  BY <1>2, <1>3, ApartStays
<1>16. Erased'
  <2> SUFFICES ASSUME NEW h \in history', h.action = "observation_deleted"
      PROVE  /\ h.obs \in 1 .. nextID' - 1
             /\ \A p \in observations' : p.id = h.obs =>
                   h.by # Nil /\ p.by = Nil /\ p.gone = h.by
    BY DEF Erased
  <2>1. CASE h \in history
    BY <1>3, <1>8, <1>11, <2>1 DEF Erased
  <2>2. CASE h = g
    BY <1>3, <1>4, <1>9, <1>10, <1>11, <2>2
  <2> QED
    BY <1>2, <2>1, <2>2
<1>17. Leaves
  BY <1>2, <1>8, <1>11 DEF Leaves
<1>18. \A s \in Requests : s # r /\ Clean(s) => Clean(s)'
  BY <1>2, <1>8, <1>12 DEF Clean
<1>19. Requested'
  BY <1>2, <1>17, <1>18, CommitIsNext
<1> QED
  BY <1>13, <1>14, <1>15, <1>16, <1>19 DEF Inv

\* An observation o of the table is replaced by n under the lock of r.
LEMMA ReplaceObservation ==
    ASSUME Inv, NEW r \in Requests, NEW o \in observations,
           o.by = Nil, o.gone = Nil,
           \A v \in observations : v.id = o.id => v = o,
           NEW n, Formed(n), DOMAIN n = DOMAIN o,
           n.by = r, n.gone = Nil, n.id = o.id, n.entity = o.entity,
           observations' = Remove(observations, {o}, r) \cup {n}
    PROVE  /\ Rows(observations', ObservationColumns)
           /\ Numbered(observations', nextID)
           /\ Unique(observations', {"id"}) /\ Fixed(observations', "entity")
           /\ References(entities, observations', "entity")
           /\ \A i : Known(observations, i) => Known(observations', i)
           /\ \A h \in history : h.action = "observation_deleted" =>
                 \A p \in observations' : p.id = h.obs =>
                    h.by # Nil /\ p.by = Nil /\ p.gone = h.by
           /\ \A s \in Requests : s # r /\ Untouched(observations, s)
                                    => Untouched(observations', s)
<1> DEFINE mid == Remove(observations, {o}, r)
           K == ObservationColumns
<1>1. Tables /\ Keys /\ ForeignKeys /\ Erased /\ Nil \notin Requests
  BY PlanAssumption DEF Inv
<1>2. Removable(observations, {o}, r)
  BY DEF Removable
<1>3. /\ Rows(mid, K) /\ Numbered(mid, nextID)
      /\ Unique(mid, {"id"}) /\ Fixed(mid, "entity")
      /\ References(entities, mid, "entity")
      /\ \A i : Known(observations, i) => Known(mid, i)
      /\ \A h \in history : h.action = "observation_deleted" =>
            \A p \in mid : p.id = h.obs =>
               h.by # Nil /\ p.by = Nil /\ p.gone = h.by
      /\ \A s \in Requests : s # r /\ Untouched(observations, s)
                               => Untouched(mid, s)
  BY <1>2, RemoveObservations
<1>4. \A v \in mid : v.id = n.id => v.by = Nil /\ v.gone = r /\ v.entity = n.entity
  <2> SUFFICES ASSUME NEW v \in mid, v.id = n.id
      PROVE  v.by = Nil /\ v.gone = r /\ v.entity = n.entity
    OBVIOUS
  <2>1. PICK d \in observations : Removing(d, v, r, d \in {o}, K)
    BY <1>1, <1>2, ColumnsOfTables, InRemove DEF Tables
  <2>2. d.id = v.id /\ d.entity = v.entity
    BY <2>1, ColumnsOfTables DEF Removing
  <2>3. d = o
    BY <2>2
  <2> QED
    BY <2>1, <2>2, <2>3 DEF Removing
<1>5. \E v \in mid : v.id = n.id /\ v.by = Nil
  <2>1. o \in {o} => o.by # r
    BY <1>1
  <2>2. PICK v \in mid : Removing(o, v, r, o \in {o}, K)
    BY <1>1, <1>2, <2>1, ColumnsOfTables, OfRemove DEF Tables
  <2> QED
    BY <2>2, ColumnsOfTables DEF Removing
<1>6. observations' = mid \cup {n}
  OBVIOUS
<1> HIDE DEF mid
<1>7. \A v \in mid : SameOn({"id"}, v, n) => Alt(v, n)
  BY <1>1, <1>4 DEF SameOn, Alt, Replaced
<1>8. /\ n.by \in Owners /\ {"by", "gone"} \cup K \subseteq DOMAIN n
      /\ n.id \in 1 .. nextID - 1 /\ n = [c \in DOMAIN n |-> n[c]]
  BY <1>1 DEF Owners, Rows, Tables, Numbered, Formed
<1>9. /\ Rows(observations', K) /\ Unique(observations', {"id"})
      /\ Numbered(observations', nextID)
      /\ \A s \in Requests : s # r /\ Untouched(observations, s)
                               => Untouched(observations', s)
  <2>1. /\ Rows(mid \cup {n}, K)
        /\ \A D : /\ Unique(mid, D)
                  /\ \A v \in mid : SameOn(D, v, n) => Alt(v, n)
                  => Unique(mid \cup {n}, D)
        /\ \A m : Numbered(mid, m) /\ n.id \in 1 .. m - 1
                  => Numbered(mid \cup {n}, m)
        /\ \A s \in Requests : s # n.by /\ Nil \notin Requests
              /\ Untouched(mid, s) => Untouched(mid \cup {n}, s)
    <3> HIDE DEF K
    <3> QED
      BY <1>3, <1>8, AddKeeps
  <2> HIDE DEF K
  <2> QED
    BY <1>1, <1>3, <1>6, <1>7, <1>8, <2>1
<1>10. Fixed(observations', "entity")
  BY <1>3, <1>4, <1>6 DEF Fixed
<1>11. References(entities, observations', "entity")
  <2>1. Refers(entities, o, "entity")
    BY <1>1 DEF ForeignKeys, References
  <2>2. Lives(entities, o.entity, Nil)
    BY <2>1 DEF Refers, Going
  <2>3. Lives(entities, n.entity, r)
    BY <2>2 DEF Lives
  <2>4. Refers(entities, n, "entity")
    BY <2>3 DEF Refers
  <2> QED
    BY <1>3, <1>6, <2>4 DEF References
<1>12. ASSUME NEW i, Known(observations, i)
       PROVE  Known(observations', i)
  <2>1. Known(mid, i)
    BY <1>3, <1>12
  <2>2. CASE i = n.id
    BY <1>5, <1>6, <2>2 DEF Known
  <2>3. CASE i # n.id
    BY <1>6, <2>1, <2>3 DEF Known
  <2> QED
    BY <2>2, <2>3
<1>13. ASSUME NEW h \in history, h.action = "observation_deleted",
              NEW p \in observations', p.id = h.obs
       PROVE  h.by # Nil /\ p.by = Nil /\ p.gone = h.by
  <2>1. CASE p \in mid
    BY <1>3, <1>13, <2>1
  <2>2. CASE p = n
    <3>1. h.by # Nil /\ o.gone = h.by
      BY <1>1, <1>13, <2>2 DEF Erased
    <3> QED
      BY <3>1
  <2> QED
    BY <1>6, <2>1, <2>2
<1> QED
  BY <1>9, <1>10, <1>11, <1>12, <1>13

LEMMA WriteObservationStep ==
    ASSUME Inv, NEW r \in Requests, WriteObservation(r)
    PROVE  Inv'
<1>1. req[r].pc = "write_obs" /\ Blockers(r) = {}
  BY DEF WriteObservation
<1>2. CASE Fail(r)
  BY <1>2, FailStep
<1>3. CASE ~Fail(r)
  <2>1. PICK id, V, N, g :
           /\ id = req[r].obs /\ V = Visible(WithID(observations, {id}), r)
           /\ N = UpdateEntry(r)
           /\ g = Record(r, req[r].id, req[r].name, id, "observation_updated",
                         req[r].old, Call(r).new)
    OBVIOUS
  <2>2. /\ observations' = Remove(observations, V, r) \cup
              {[o EXCEPT !.by = r, !.content = Call(r).new] : o \in V}
        /\ history' = history \cup N
        /\ nextID' = nextID + 1
        /\ req' = [req EXCEPT ![r].pc = "commit"]
        /\ entities' = entities /\ relations' = relations
    BY <1>3, <2>1 DEF WriteObservation, Current
  <2>3. Tables /\ Keys /\ ForeignKeys /\ Apart /\ Erased /\ Nil \notin Requests
    BY PlanAssumption DEF Inv
  <2>4. Clean(r) /\ id \in 1 .. nextID - 1 /\ Known(observations, id)
    BY <1>1, <2>1 DEF Inv, Requested, Local, Open
  <2>5. Writers(WithID(observations, {id}), r) = {}
    BY <1>1, <2>1 DEF Blockers
  <2>6. \/ V = {} /\ \A o \in observations : o.id # id
        \/ \E o \in observations :
              /\ V = {o} /\ o.id = id /\ o.by = Nil /\ o.gone = Nil
              /\ \A v \in observations : v.id = id => v = o
    BY <2>1, <2>4, <2>5, HeldObservation
  <2>7. N \subseteq {g} /\ Entry(g) /\ g.by = r /\ g.id = nextID
    <3>1. N \subseteq {g}
      BY <2>1 DEF UpdateEntry
    <3>2. Entry(g) /\ g.by = r /\ g.id = nextID
      BY <2>1, RecordForm DEF Entry
    <3> QED
      BY <3>1, <3>2
  <2>8. /\ nextID' \in Nat \ {0} /\ nextID' >= nextID
        /\ nextID \in 1 .. nextID' - 1
        /\ \A i \in 1 .. nextID - 1 : i \in 1 .. nextID' - 1
    BY <2>2, Taken
  <2>9. /\ Rows(history', EntryColumns) /\ Numbered(history', nextID')
        /\ \A s \in Requests : s # r /\ Untouched(history, s)
                                 => Untouched(history', s)
    <3>1. \A h \in N : /\ h = [f \in DOMAIN h |-> h[f]]
                       /\ {"by", "gone"} \cup EntryColumns \subseteq DOMAIN h
                       /\ h.by = r /\ h.gone = Nil /\ h.id \in 1 .. nextID' - 1
      BY <2>7, <2>8 DEF Entry
    <3> QED
      BY <2>2, <2>8, <3>1, AddEntries
  <2>10. /\ Rows(observations', ObservationColumns)
         /\ Numbered(observations', nextID)
         /\ Unique(observations', {"id"}) /\ Fixed(observations', "entity")
         /\ References(entities, observations', "entity")
         /\ \A i : Known(observations, i) => Known(observations', i)
         /\ \A h \in history : h.action = "observation_deleted" =>
               \A p \in observations' : p.id = h.obs =>
                  h.by # Nil /\ p.by = Nil /\ p.gone = h.by
         /\ \A s \in Requests : s # r /\ Untouched(observations, s)
                                  => Untouched(observations', s)
    <3>1. CASE V = {}
      <4>1. observations' = observations
        BY <2>2, <3>1 DEF Remove
      <4> QED
        BY <2>3, <4>1 DEF Tables, Keys, ForeignKeys, Erased
    <3>2. CASE V # {}
      <4>1. PICK o \in observations :
               /\ V = {o} /\ o.id = id /\ o.by = Nil /\ o.gone = Nil
               /\ \A v \in observations : v.id = o.id => v = o
        BY <2>6, <3>2
      <4>2. PICK n : n = [o EXCEPT !.by = r, !.content = Call(r).new]
        OBVIOUS
      <4>3. /\ o = [f \in DOMAIN o |-> o[f]]
            /\ {"by", "gone"} \cup ObservationColumns \subseteq DOMAIN o
        BY <2>3, <4>1 DEF Tables, Rows
      <4>4. /\ Formed(n) /\ DOMAIN n = DOMAIN o /\ n.by = r /\ n.gone = Nil
            /\ n.id = o.id /\ n.entity = o.entity
        BY <4>1, <4>2, <4>3 DEF ObservationColumns, Formed
      <4>5. observations' = Remove(observations, {o}, r) \cup {n}
        BY <2>2, <4>1, <4>2
      <4> QED
        BY <4>1, <4>4, <4>5, ReplaceObservation
    <3> QED
      BY <3>1, <3>2
  <2>11. Tables'
    <3>1. Numbered(observations', nextID')
      BY <2>8, <2>10 DEF Numbered
    <3> QED
      BY <2>2, <2>3, <2>8, <2>9, <2>10, <3>1, NumbersGrow DEF Tables
  <2>12. Keys' /\ ForeignKeys'
    BY <2>2, <2>3, <2>10 DEF Keys, ForeignKeys
  <2>13. Apart'
    BY <2>2, <2>3, ApartStays
  <2>14. Erased'
    <3>1. \A h \in history' : h \in history \/ h.action # "observation_deleted"
      BY <2>2, <2>7 DEF Entry
    <3> QED
      BY <2>3, <2>8, <2>10, <3>1 DEF Erased
  <2>15. Leaves
    BY <2>2, <2>8, <2>10 DEF Leaves
  <2>16. \A s \in Requests : s # r /\ Clean(s) => Clean(s)'
    BY <2>2, <2>9, <2>10 DEF Clean
  <2>17. Requested'
    BY <1>1, <2>2, <2>15, <2>16, CommitIsNext
  <2> QED
    BY <2>11, <2>12, <2>13, <2>14, <2>17 DEF Inv
<1> QED
  BY <1>2, <1>3

(* ---- The specification ------------------------------------------------- *)

\* The seed rows satisfy the invariant.
LEMMA InitInv == Init => Inv
<1> SUFFICES ASSUME Init
    PROVE  Inv
  OBVIOUS
<1>0. Nil \notin Requests
  BY PlanAssumption
<1>1. SeedRows \in Nat /\ nextID = 1 + SeedRows /\ nextID - 1 = SeedRows
  <2>1. /\ Cardinality(SeedEntities) \in Nat /\ Cardinality(SeedObservations) \in Nat
        /\ Cardinality(SeedRelations) \in Nat
    BY SeedAssumption, FS_CardinalityType
  <2> QED
    BY <2>1 DEF SeedRows, Init
<1>2. \A v \in entities : \E e \in SeedEntities :
         /\ v = [by |-> Nil, gone |-> Nil, id |-> e.id, name |-> e.name,
                 project |-> e.project, type |-> e.type]
         /\ v.by = Nil /\ v.gone = Nil /\ v.id = e.id /\ v.name = e.name
         /\ v.project = e.project
  BY DEF Init
<1>3. \A v \in observations : \E o \in SeedObservations :
         /\ v = [by |-> Nil, gone |-> Nil, id |-> o.id, entity |-> o.entity,
                 content |-> o.content]
         /\ v.by = Nil /\ v.gone = Nil /\ v.id = o.id /\ v.entity = o.entity
  BY DEF Init
<1>4. \A v \in relations : \E x \in SeedRelations :
         /\ v = [by |-> Nil, gone |-> Nil, id |-> x.id, from |-> x.from,
                 to |-> x.to, type |-> x.type]
         /\ v.by = Nil /\ v.gone = Nil /\ v.id = x.id /\ v.from = x.from
         /\ v.to = x.to /\ v.type = x.type
  BY DEF Init
<1>5. \A e \in SeedEntities : \E v \in entities :
         v.id = e.id /\ v.project = e.project /\ v.by = Nil /\ v.gone = Nil
  <2> SUFFICES ASSUME NEW e \in SeedEntities
      PROVE  \E v \in entities : /\ v.id = e.id /\ v.project = e.project
                                 /\ v.by = Nil /\ v.gone = Nil
    OBVIOUS
  <2> DEFINE v == [by |-> Nil, gone |-> Nil, id |-> e.id, name |-> e.name,
                   project |-> e.project, type |-> e.type]
  <2>1. v \in entities
    BY DEF Init
  <2> QED
    BY <2>1
<1>6. history = {}
  BY DEF Init
<1>7. Rows(entities, EntityColumns)
  <2> SUFFICES ASSUME NEW v \in entities
      PROVE  /\ v = [c \in DOMAIN v |-> v[c]]
             /\ {"by", "gone"} \cup EntityColumns \subseteq DOMAIN v
             /\ v.by \in Owners /\ v.gone \in Owners
             /\ v.by # Nil => v.gone = Nil
    BY DEF Rows
  <2>1. PICK e \in SeedEntities :
           v = [by |-> Nil, gone |-> Nil, id |-> e.id, name |-> e.name,
                project |-> e.project, type |-> e.type]
    BY <1>2
  <2> QED
    BY <2>1 DEF EntityColumns, Owners
<1>8. Rows(observations, ObservationColumns)
  <2> SUFFICES ASSUME NEW v \in observations
      PROVE  /\ v = [c \in DOMAIN v |-> v[c]]
             /\ {"by", "gone"} \cup ObservationColumns \subseteq DOMAIN v
             /\ v.by \in Owners /\ v.gone \in Owners
             /\ v.by # Nil => v.gone = Nil
    BY DEF Rows
  <2>1. PICK o \in SeedObservations :
           v = [by |-> Nil, gone |-> Nil, id |-> o.id, entity |-> o.entity,
                content |-> o.content]
    BY <1>3
  <2> QED
    BY <2>1 DEF ObservationColumns, Owners
<1>9. Rows(relations, RelationColumns)
  <2> SUFFICES ASSUME NEW v \in relations
      PROVE  /\ v = [c \in DOMAIN v |-> v[c]]
             /\ {"by", "gone"} \cup RelationColumns \subseteq DOMAIN v
             /\ v.by \in Owners /\ v.gone \in Owners
             /\ v.by # Nil => v.gone = Nil
    BY DEF Rows
  <2>1. PICK x \in SeedRelations :
           v = [by |-> Nil, gone |-> Nil, id |-> x.id, from |-> x.from,
                to |-> x.to, type |-> x.type]
    BY <1>4
  <2> QED
    BY <2>1 DEF RelationColumns, Owners
<1>10. Tables
  <2>1. \A v \in entities \cup observations \cup relations : v.id \in 1 .. nextID - 1
    BY <1>1, <1>2, <1>3, <1>4, SeedAssumption
  <2>2. Rows(history, EntryColumns) /\ Numbered(history, nextID)
    BY <1>6 DEF Rows, Numbered
  <2> QED
    BY <1>1, <1>7, <1>8, <1>9, <2>1, <2>2 DEF Tables, Numbered
<1>11. \A v, w \in entities :
          v.id = w.id \/ (v.project = w.project /\ v.name = w.name) => v = w
  <2> SUFFICES ASSUME NEW v \in entities, NEW w \in entities,
                      v.id = w.id \/ (v.project = w.project /\ v.name = w.name)
      PROVE  v = w
    OBVIOUS
  <2>1. PICK e \in SeedEntities :
           /\ v = [by |-> Nil, gone |-> Nil, id |-> e.id, name |-> e.name,
                   project |-> e.project, type |-> e.type]
           /\ v.id = e.id /\ v.name = e.name /\ v.project = e.project
    BY <1>2
  <2>2. PICK f \in SeedEntities :
           /\ w = [by |-> Nil, gone |-> Nil, id |-> f.id, name |-> f.name,
                   project |-> f.project, type |-> f.type]
           /\ w.id = f.id /\ w.name = f.name /\ w.project = f.project
    BY <1>2
  <2>3. e = f
    BY <2>1, <2>2, SeedAssumption
  <2> QED
    BY <2>1, <2>2, <2>3
<1>12. \A v, w \in observations : v.id = w.id => v = w
  <2> SUFFICES ASSUME NEW v \in observations, NEW w \in observations, v.id = w.id
      PROVE  v = w
    OBVIOUS
  <2>1. PICK o \in SeedObservations :
           /\ v = [by |-> Nil, gone |-> Nil, id |-> o.id, entity |-> o.entity,
                   content |-> o.content]
           /\ v.id = o.id
    BY <1>3
  <2>2. PICK p \in SeedObservations :
           /\ w = [by |-> Nil, gone |-> Nil, id |-> p.id, entity |-> p.entity,
                   content |-> p.content]
           /\ w.id = p.id
    BY <1>3
  <2>3. o = p
    BY <2>1, <2>2, SeedAssumption
  <2> QED
    BY <2>1, <2>2, <2>3
<1>13. \A v, w \in relations :
          v.from = w.from /\ v.to = w.to /\ v.type = w.type => v = w
  <2> SUFFICES ASSUME NEW v \in relations, NEW w \in relations,
                      v.from = w.from, v.to = w.to, v.type = w.type
      PROVE  v = w
    OBVIOUS
  <2>1. PICK x \in SeedRelations :
           /\ v = [by |-> Nil, gone |-> Nil, id |-> x.id, from |-> x.from,
                   to |-> x.to, type |-> x.type]
           /\ v.from = x.from /\ v.to = x.to /\ v.type = x.type
    BY <1>4
  <2>2. PICK y \in SeedRelations :
           /\ w = [by |-> Nil, gone |-> Nil, id |-> y.id, from |-> y.from,
                   to |-> y.to, type |-> y.type]
           /\ w.from = y.from /\ w.to = y.to /\ w.type = y.type
    BY <1>4
  <2>3. x = y
    BY <2>1, <2>2, SeedAssumption
  <2> QED
    BY <2>1, <2>2, <2>3
<1>14. Keys
  <2>1. Unique(entities, {"id"}) /\ Unique(entities, {"project", "name"})
        /\ Fixed(entities, "project")
    BY <1>11 DEF Unique, SameOn, Alt, Fixed
  <2>2. Unique(observations, {"id"}) /\ Fixed(observations, "entity")
    BY <1>12 DEF Unique, SameOn, Alt, Fixed
  <2>3. Unique(relations, {"from", "to", "type"})
    BY <1>13 DEF Unique, SameOn, Alt
  <2> QED
    BY <2>1, <2>2, <2>3 DEF Keys
<1>15. ForeignKeys
  <2>1. \A e \in SeedEntities : Lives(entities, e.id, Nil)
    BY <1>5 DEF Lives
  <2>2. ASSUME NEW v \in observations
        PROVE  Refers(entities, v, "entity")
    <3>1. PICK o \in SeedObservations : v.by = Nil /\ v.entity = o.entity
      BY <1>3
    <3>2. PICK e \in SeedEntities : e.id = o.entity
      BY SeedAssumption
    <3> QED
      BY <2>1, <3>1, <3>2 DEF Refers
  <2>3. ASSUME NEW v \in relations
        PROVE  Refers(entities, v, "from") /\ Refers(entities, v, "to")
    <3>1. PICK x \in SeedRelations : v.by = Nil /\ v.from = x.from /\ v.to = x.to
      BY <1>4
    <3>2. PICK e \in SeedEntities, f \in SeedEntities : e.id = x.from /\ f.id = x.to
      BY SeedAssumption
    <3> QED
      BY <2>1, <3>1, <3>2 DEF Refers
  <2> QED
    BY <2>2, <2>3 DEF ForeignKeys, References
<1>16. Apart
  <2> SUFFICES ASSUME NEW v \in relations, NEW c \in entities, NEW d \in entities,
                      c.id = v.from, d.id = v.to
      PROVE  c.project = d.project
    BY DEF Apart
  <2>1. PICK x \in SeedRelations : v.from = x.from /\ v.to = x.to
    BY <1>4
  <2>2. PICK e \in SeedEntities, f \in SeedEntities :
           e.id = x.from /\ f.id = x.to /\ e.project = f.project
    BY SeedAssumption
  <2>3. PICK e0 \in entities : e0.id = e.id /\ e0.project = e.project
    BY <1>5
  <2>4. PICK f0 \in entities : f0.id = f.id /\ f0.project = f.project
    BY <1>5
  <2>5. c = e0 /\ d = f0
    BY <1>11, <2>1, <2>2, <2>3, <2>4
  <2> QED
    BY <2>2, <2>3, <2>4, <2>5
<1>17. Erased
  BY <1>6 DEF Erased
<1>18. Requested
  <2>1. \A r \in Requests : Clean(r)
    BY <1>0, <1>2, <1>3, <1>4, <1>6 DEF Clean, Untouched
  <2>2. Shape(Fresh) /\ Fresh.pc = "idle" /\ Fresh.plan = << >>
    BY DEF Shape, Fresh, Fields
  <2>3. Fresh.plan \in Seq(Calls)
    BY <2>2
  <2>4. \A r \in Requests : Local(Fresh, r)
    BY <2>1, <2>2, <2>3 DEF Local
  <2>5. req = [r \in Requests |-> Fresh]
    BY DEF Init
  <2> HIDE DEF Fresh
  <2> QED
    BY <2>4, <2>5 DEF Requested
<1> QED
  BY <1>10, <1>14, <1>15, <1>16, <1>17, <1>18 DEF Inv

\* Every statement of every request keeps it.
LEMMA NextInv == Inv /\ [Next]_vars => Inv'
<1> SUFFICES ASSUME Inv, [Next]_vars
    PROVE  Inv'
  OBVIOUS
<1>1. ASSUME NEW r \in Requests, Step(r)
      PROVE  Inv'
  <2>1. CASE FindEntity(r) \/ InsertEntity(r) \/ SnapObservations(r)
    BY <2>1, FindEntityStep, InsertEntityStep, SnapObservationsStep
  <2>2. CASE ClearObservations(r) \/ InsertObservation(r) \/ InsertRelation(r)
    BY <2>2, ClearObservationsStep, InsertObservationStep, InsertRelationStep
  <2>3. CASE SnapEntities(r) \/ Cascade(r) \/ EraseRelation(r)
    BY <2>3, SnapEntitiesStep, CascadeStep, EraseRelationStep
  <2>4. CASE ReadEntity(r) \/ CheckName(r) \/ Rename(r)
    BY <2>4, ReadEntityStep, CheckNameStep, RenameStep
  <2>5. CASE FindObservation(r) \/ EraseObservation(r) \/ WriteObservation(r)
    BY <2>5, FindObservationStep, EraseObservationStep, WriteObservationStep
  <2>6. CASE LogLookup(r) \/ LogInsert(r)
    BY <2>6, LogLookupStep, LogInsertStep
  <2>7. CASE ReadGraphEntities(r) \/ ReadGraphObservations(r)
    BY <2>7, ReadGraphEntitiesStep, ReadGraphObservationsStep
  <2>8. CASE CommitTx(r)
    BY <2>8, CommitStep
  <2>9. CASE Deadlock(r)
    BY <2>9, FailStep DEF Deadlock
  <2> QED
    BY <1>1, <2>1, <2>2, <2>3, <2>4, <2>5, <2>6, <2>7, <2>8, <2>9 DEF Step
<1>2. ASSUME NEW r \in Requests, Abort(r)
      PROVE  Inv'
  BY <1>2, FailStep DEF Abort
<1>3. ASSUME NEW r \in Requests, NEW plan \in Plans, Begin(r, plan)
      PROVE  Inv'
  BY <1>3, BeginStep
<1>4. CASE UNCHANGED vars
  <2>1. /\ entities' = entities /\ observations' = observations
        /\ relations' = relations /\ history' = history
        /\ nextID' = nextID /\ req' = req
    BY <1>4 DEF vars
  <2> QED
    BY <2>1 DEF Inv, Tables, Keys, ForeignKeys, Apart, Erased, Requested, Local,
                InProject, Clean
<1> QED
  BY <1>1, <1>2, <1>3, <1>4 DEF Next

\* Every reachable state satisfies the invariant.
THEOREM Invariant == Spec => []Inv
BY InitInv, NextInv, PTL DEF Spec

\* Two committed versions that agree on a key are one.
LEMMA CommittedIsUnique ==
    ASSUME NEW rows, NEW D, Unique(rows, D),
           NEW v \in Committed(rows), NEW w \in Committed(rows), SameOn(D, v, w)
    PROVE  v = w
BY DEF Unique, Committed, Alt, Replaced

\* What a committed row refers to is committed.
LEMMA CommittedRefers ==
    ASSUME NEW ents, NEW rows, NEW c, References(ents, rows, c),
           NEW v \in Committed(rows)
    PROVE  \E e \in Committed(ents) : e.id = v[c]
BY DEF References, Refers, Lives, Going, Committed

LEMMA InvTypes == Inv => TypeOK
<1> SUFFICES ASSUME Inv
    PROVE  TypeOK
  OBVIOUS
<1>1. ASSUME NEW v \in entities \cup observations \cup relations \cup history
      PROVE  /\ {v.by, v.gone} \subseteq Requests \cup {Nil}
             /\ v.id \in 1 .. nextID - 1
             /\ v.by # Nil => v.gone = Nil
  BY <1>1 DEF Inv, Tables, Rows, Numbered, Owners
<1>2. ASSUME NEW r \in Requests, ~Running(r),
             NEW v \in entities \cup observations \cup relations \cup history
      PROVE  r \notin {v.by, v.gone}
  <2>1. Clean(r)
    BY <1>2 DEF Inv, Requested, Local, Running, Open
  <2> QED
    BY <1>2, <2>1 DEF Clean, Untouched
<1> QED
  BY <1>1, <1>2 DEF TypeOK

LEMMA InvGraph == Inv => GraphWellFormed
<1> SUFFICES ASSUME Inv
    PROVE  GraphWellFormed
  OBVIOUS
<1>1. Keys /\ ForeignKeys
  BY DEF Inv
<1>2. \A e, f \in Ents :
         e.id = f.id \/ (e.project = f.project /\ e.name = f.name) => e = f
  <2> SUFFICES ASSUME NEW e \in Ents, NEW f \in Ents,
                      e.id = f.id \/ (e.project = f.project /\ e.name = f.name)
      PROVE  e = f
    OBVIOUS
  <2>1. SameOn({"id"}, e, f) \/ SameOn({"project", "name"}, e, f)
    BY DEF SameOn
  <2> QED
    BY <1>1, <2>1, CommittedIsUnique DEF Keys, Ents
<1>3. \A o, p \in Obs : o.id = p.id => o = p
  BY <1>1, CommittedIsUnique DEF Keys, Obs, SameOn
<1>4. \A o \in Obs : \E e \in Ents : e.id = o.entity
  BY <1>1, CommittedRefers DEF ForeignKeys, Obs, Ents
<1>5. \A x \in Rels : \A end \in {x.from, x.to} : \E e \in Ents : e.id = end
  BY <1>1, CommittedRefers DEF ForeignKeys, Rels, Ents
<1>6. \A x, y \in Rels :
         x.from = y.from /\ x.to = y.to /\ x.type = y.type => x = y
  <2> SUFFICES ASSUME NEW x \in Rels, NEW y \in Rels,
                      x.from = y.from, x.to = y.to, x.type = y.type
      PROVE  x = y
    OBVIOUS
  <2>1. SameOn({"from", "to", "type"}, x, y)
    BY DEF SameOn
  <2> QED
    BY <1>1, <2>1, CommittedIsUnique DEF Keys, Rels
<1> QED
  BY <1>2, <1>3, <1>4, <1>5, <1>6 DEF GraphWellFormed

(* ---- Theorems ---------------------------------------------------------- *)

\* Locks and versions belong to requests that run: one that returned, or failed
\* at any statement, holds no row and leaves no uncommitted version behind
\* (the deferred Rollback and the Commit of every method of the repository).
THEOREM StateIsTyped == Spec => []TypeOK
BY Invariant, InvTypes, PTL

\* The graph a reader sees is well formed whatever transactions are in flight:
\* unique ids, names and triples, no observation or relation without its
\* entities (schema.sql, with the statements of memory.go).
THEOREM GraphIsWellFormed == Spec => []GraphWellFormed
BY Invariant, InvGraph, PTL

\* A relation never joins entities of two projects, although its table has no
\* project column (the lookups of CreateRelations and Import).
THEOREM ProjectsAreSeparate == Spec => []RelationsWithinProject
<1>1. Inv => RelationsWithinProject
  BY DEF Inv, Apart, RelationsWithinProject, Rels, Ents, Committed
<1> QED
  BY <1>1, Invariant, PTL

\* An observation whose deletion is in the audit trail never comes back, also
\* when an edit of it was under way (observations.go).
THEOREM DeletionsStand == Spec => []DeletedStaysDeleted
<1>1. Inv => DeletedStaysDeleted
  BY DEF Inv, Erased, DeletedStaysDeleted, Trail, Obs, Committed
<1> QED
  BY <1>1, Invariant, PTL
=============================================================================
