---------------------------- MODULE SearchProofs ----------------------------
(***************************************************************************)
(* What holds of Search for any tables, requests, searchers and bounds.    *)
(* Two facts carry the proofs: only a commit changes the tables, because   *)
(* no observation is found in project "", which is how the backfill looks  *)
(* them up; and a search under way notes all that was stored since it      *)
(* began.                                                                  *)
(***************************************************************************)
EXTENDS Search, FiniteSetTheorems, TLAPS

Rows ==
    /\ entities \subseteq EntityRows /\ observations \subseteq ObservationRows
    /\ Keys(entities, observations)
    /\ nextID \in Nat /\ \A row \in entities \cup observations : row.id < nextID

WriteStates == [pc : {"idle", "embedding", "commit"},
                op : WriteRequests \cup {Nil}, vec : Vectors]
Typed(x) == x.pc # "idle" => /\ x.op \in WriteRequests
                             /\ x.vec \in {NoVector, x.op.content}
WritesTyped == /\ write \in [Writers -> WriteStates]
               /\ \A w \in Writers : Typed(write[w])

WInv == Rows /\ WritesTyped /\ VectorsAreFresh

-----------------------------------------------------------------------------
(* The tables                                                              *)

\* Nothing is found in project "".
LEMMA NothingInNoProject ==
    ASSUME Rows, NEW id PROVE Found("", id) = {}
BY SearchAssumption DEF Rows, Found, EntityRows

LEMMA AddKeeps ==
    ASSUME Rows, VectorsAreFresh, NEW op \in WriteRequests,
           NEW vec \in {NoVector, op.content}, Add(op, vec)
    PROVE  Rows' /\ VectorsAreFresh'
<1> DEFINE owner == Owner(op)
           id == IF owner = nextID THEN nextID + 1 ELSE nextID
           e == [id |-> owner, project |-> op.project, name |-> op.name]
           o == [id |-> id, entity |-> owner, content |-> op.content, vec |-> vec]
<1>1. /\ entities' = entities \cup {e} /\ observations' = observations \cup {o}
      /\ nextID' = id + 1 /\ unembedded' = unembedded
  BY DEF Add, Change
<1>2. /\ op.project \in Projects /\ op.name \in Words
      /\ op.content \in SUBSET Words /\ vec \in Vectors
  BY DEF WriteRequests, Vectors
<1>3. \/ /\ owner = nextID /\ id = nextID + 1
         /\ \A f \in entities : ~(f.project = op.project /\ f.name = op.name)
      \/ /\ owner \in Nat /\ owner < nextID /\ id = nextID /\ e \in entities
  <2>1. CASE Named(op.project, op.name) = {}
    BY <2>1 DEF Owner, Named
  <2>2. CASE Named(op.project, op.name) # {}
    <3>1. PICK f \in Named(op.project, op.name) :
                 f = CHOOSE g \in Named(op.project, op.name) : TRUE
      BY <2>2
    <3>2. /\ f \in entities /\ f.project = op.project /\ f.name = op.name
          /\ f.id \in Nat /\ f.id < nextID /\ f \in EntityRows /\ nextID \in Nat
      BY <3>1 DEF Named, Rows, EntityRows
    <3>3. owner = f.id
      BY <2>2, <3>1 DEF Owner
    <3>4. f = e
      BY <3>2, <3>3 DEF EntityRows
    <3> QED
      BY <3>2, <3>3, <3>4
  <2> QED
    BY <2>1, <2>2
<1>4. /\ owner \in Nat /\ id \in Nat /\ owner < id /\ nextID <= id
      /\ e \in EntityRows /\ o \in ObservationRows
  BY <1>2, <1>3 DEF Rows, EntityRows, ObservationRows
<1> HIDE DEF owner, id
<1>5. Keys(entities', observations')
  <2>1. /\ \A f \in entities : f.id \in Nat /\ f.id < nextID
        /\ \A p \in observations : p.id \in Nat /\ p.id < nextID
        /\ nextID \in Nat
    BY DEF Rows, EntityRows, ObservationRows
  <2>2. /\ e.id = owner /\ e.project = op.project /\ e.name = op.name
        /\ o.id = id /\ o.entity = owner
    OBVIOUS
  <2> HIDE DEF e, o
  <2>3. \A f, g \in entities' :
           f.id = g.id \/ (f.project = g.project /\ f.name = g.name) => f = g
    BY <1>1, <1>3, <2>1, <2>2 DEF Rows, Keys
  <2>4. \A p, q \in observations' : p.id = q.id => p = q
    BY <1>1, <1>4, <2>1, <2>2 DEF Rows, Keys
  <2>5. \A p \in observations' : \E f \in entities' : f.id = p.entity
    BY <1>1, <2>2 DEF Rows, Keys
  <2> QED
    BY <2>3, <2>4, <2>5 DEF Keys
<1>6. Rows'
  <2>1. e.id = owner /\ o.id = id
    OBVIOUS
  <2> HIDE DEF e, o
  <2>2. entities' \subseteq EntityRows /\ observations' \subseteq ObservationRows
    BY <1>1, <1>4 DEF Rows
  <2>3. \A row \in entities \cup observations : row.id \in Nat /\ row.id < nextID
    BY DEF Rows, EntityRows, ObservationRows
  <2>4. nextID \in Nat /\ nextID' \in Nat /\ nextID' = id + 1 /\ nextID <= id
    BY <1>1, <1>4 DEF Rows
  <2>5. \A row \in entities' \cup observations' : row.id < nextID'
    BY <1>1, <1>4, <2>1, <2>3, <2>4
  <2> QED
    BY <1>5, <2>2, <2>4, <2>5 DEF Rows
<1>7. VectorsAreFresh'
  <2>1. o.vec \in {NoVector, o.content}
    OBVIOUS
  <2> HIDE DEF o
  <2> QED
    BY <1>1, <2>1 DEF VectorsAreFresh
<1> QED
  BY <1>6, <1>7

LEMMA UpdateKeeps ==
    ASSUME Rows, VectorsAreFresh, NEW o \in observations,
           NEW content \in SUBSET Words, NEW vec \in {NoVector, content},
           Update(o, content, vec)
    PROVE  Rows' /\ VectorsAreFresh'
<1> DEFINE n == Edited(o, content, vec)
<1>1. /\ entities' = entities /\ nextID' = nextID
      /\ observations' = (observations \ {o}) \cup {n}
      /\ unembedded' = IF vec = NoVector THEN unembedded \cup {o.id}
                                         ELSE unembedded \ {o.id}
  BY DEF Update, Change
<1>2. o \in ObservationRows /\ vec \in Vectors
  BY DEF Rows, Vectors
<1>3. /\ n \in ObservationRows /\ n.id = o.id /\ n.entity = o.entity
      /\ n.content = content
      /\ vec # NoVector => n.vec = content
  BY <1>2 DEF Edited, ObservationRows
<1> HIDE DEF n
<1>4. Rows'
  <2>1. \A p, q \in observations' : p.id = q.id => p = q
    BY <1>1, <1>3 DEF Rows, Keys
  <2>2. \A p \in observations' : \E e \in entities : e.id = p.entity
    BY <1>1, <1>3 DEF Rows, Keys
  <2>3. \A p \in observations' : p \in ObservationRows /\ p.id < nextID
    BY <1>1, <1>3 DEF Rows
  <2> QED
    BY <1>1, <2>1, <2>2, <2>3 DEF Rows, Keys
<1>5. VectorsAreFresh'
  <2>1. \A p \in observations \ {o} : p.id # o.id
    BY DEF Rows, Keys
  <2>2. \A p \in observations \ {o} :
           p.vec \in {NoVector, p.content} \/ p.id \in unembedded'
    BY <1>1, <2>1 DEF VectorsAreFresh
  <2>3. n.vec \in {NoVector, n.content} \/ n.id \in unembedded'
    BY <1>1, <1>3
  <2> QED
    BY <1>1, <2>2, <2>3 DEF VectorsAreFresh
<1> QED
  BY <1>4, <1>5

\* Removals and renames.
LEMMA RestKeeps ==
    ASSUME Rows, VectorsAreFresh, NEW op \in WriteRequests, NEW vec,
           op.do \notin Embedding \cup {"import"}, Apply(op, vec)
    PROVE  Rows' /\ VectorsAreFresh' /\ observations' \subseteq observations
<1> DEFINE Forget == \E o \in Targets(op) : Change(entities, observations \ {o})
           Delete == \E e \in Named(op.project, op.name) :
                        Change(entities \ {e}, observations \ Said(e.id))
           Rename == /\ Named(op.project, op.newName) = {}
                     /\ \E e \in Named(op.project, op.name) :
                          Change((entities \ {e}) \cup {[e EXCEPT !.name = op.newName]},
                                 observations)
<1>1. (Forget \/ Delete \/ Rename) /\ UNCHANGED <<nextID, unembedded>>
  BY DEF Apply, Embedding
<1>2. CASE Forget
  <2>1. PICK o : entities' = entities /\ observations' = observations \ {o}
    BY <1>2 DEF Change
  <2> QED
    BY <1>1, <2>1 DEF Rows, Keys, VectorsAreFresh
<1>3. CASE Delete
  <2>1. PICK e \in entities : /\ entities' = entities \ {e}
                              /\ observations' = observations \ Said(e.id)
    BY <1>3 DEF Change, Named
  <2>2. \A p \in observations' : \E f \in entities' : f.id = p.entity
    BY <2>1 DEF Rows, Keys, Said
  <2> QED
    BY <1>1, <2>1, <2>2 DEF Rows, Keys, VectorsAreFresh
<1>4. CASE Rename
  <2>1. PICK e \in Named(op.project, op.name) :
               /\ entities' = (entities \ {e}) \cup {[e EXCEPT !.name = op.newName]}
               /\ observations' = observations
    BY <1>4 DEF Change
  <2> DEFINE n == [e EXCEPT !.name = op.newName]
  <2>2. e \in entities /\ e \in EntityRows /\ op.newName \in Words
    BY <2>1 DEF Named, Rows, WriteRequests
  <2>3. /\ n \in EntityRows /\ n.id = e.id
        /\ n.project = e.project /\ n.name = op.newName
    BY <2>2 DEF EntityRows
  <2>4. \A f \in entities : ~(f.project = n.project /\ f.name = n.name)
    BY <1>4, <2>1, <2>3 DEF Named
  <2>5. entities' = (entities \ {e}) \cup {n}
    BY <2>1
  <2> HIDE DEF n
  <2>6. Keys(entities', observations')
    <3>1. \A f, g \in entities' :
             f.id = g.id \/ (f.project = g.project /\ f.name = g.name) => f = g
      BY <2>2, <2>3, <2>4, <2>5 DEF Rows, Keys
    <3>2. \A p \in observations : \E f \in entities' : f.id = p.entity
      BY <2>3, <2>5 DEF Rows, Keys
    <3> QED
      BY <2>1, <3>1, <3>2 DEF Rows, Keys
  <2> QED
    BY <1>1, <2>1, <2>2, <2>3, <2>5, <2>6 DEF Rows, VectorsAreFresh
<1> QED
  BY <1>1, <1>2, <1>3, <1>4

\* A commit keeps the tables in order, and changes the content of an
\* observation only to what an edit asks for.
LEMMA ApplyKeeps ==
    ASSUME Rows, VectorsAreFresh, NEW op \in WriteRequests,
           NEW vec \in {NoVector, op.content}, Apply(op, vec)
    PROVE  /\ Rows' /\ VectorsAreFresh'
           /\ \A o \in observations, n \in observations' :
                 o.id = n.id /\ o.content # n.content =>
                    op.do \in {"edit", "edit_by_content"} /\ n.content = op.content
<1>1. CASE op.do \in {"add", "import"}
  <2>1. Add(op, vec)
    BY <1>1 DEF Apply
  <2>2. PICK n : observations' = observations \cup {n} /\ n.id >= nextID
    <3> DEFINE id == IF Owner(op) = nextID THEN nextID + 1 ELSE nextID
               n == [id |-> id, entity |-> Owner(op),
                     content |-> op.content, vec |-> vec]
    <3>1. observations' = observations \cup {n} /\ n.id = id
      BY <2>1 DEF Add, Change
    <3>2. id >= nextID
      BY DEF Rows
    <3> HIDE DEF n
    <3> QED
      BY <3>1, <3>2
  <2>3. Rows' /\ VectorsAreFresh'
    BY <2>1, AddKeeps
  <2>4. \A o \in observations : o.id < nextID /\ o.id \in Nat /\ nextID \in Nat
    BY DEF Rows, ObservationRows
  <2> QED
    BY <2>2, <2>3, <2>4 DEF Rows, Keys
<1>2. CASE op.do \in {"edit", "edit_by_content"}
  <2>1. PICK o \in Targets(op) : Update(o, op.content, vec)
    BY <1>2 DEF Apply
  <2>2. o \in observations /\ op.content \in SUBSET Words
    BY <2>1 DEF Targets, Found, WriteRequests
  <2>3. Rows' /\ VectorsAreFresh'
    BY <2>1, <2>2, UpdateKeeps
  <2>4. /\ observations' = (observations \ {o}) \cup {Edited(o, op.content, vec)}
        /\ Edited(o, op.content, vec).content = op.content
    BY <2>1, <2>2 DEF Update, Change, Edited, Rows, ObservationRows
  <2> QED
    BY <1>2, <2>3, <2>4 DEF Rows, Keys
<1>3. CASE op.do \notin Embedding \cup {"import"}
  BY <1>3, RestKeeps DEF Rows, Keys
<1> QED
  BY <1>1, <1>2, <1>3 DEF Embedding

-----------------------------------------------------------------------------
(* The writers and the backfill                                            *)

\* A step that moves neither the tables nor the writers.
LEMMA QuietKeeps ==
    ASSUME WInv, UNCHANGED <<entities, observations, nextID, write, unembedded>>
    PROVE  WInv'
BY DEF WInv, Rows, WritesTyped, VectorsAreFresh

LEMMA IdleTyped == IdleWrite \in WriteStates /\ Typed(IdleWrite)
BY DEF IdleWrite, WriteStates, Typed, Vectors

LEMMA WriterFrame ==
    ASSUME WritesTyped, NEW w \in Writers, NEW x \in WriteStates, Typed(x),
           write' = [write EXCEPT ![w] = x]
    PROVE  WritesTyped'
BY DEF WritesTyped

LEMMA CommitKeeps ==
    ASSUME WInv, NEW w \in Writers, CommitWrite(w)
    PROVE  /\ WInv'
           /\ \A o \in observations, n \in observations' :
                 o.id = n.id /\ o.content # n.content =>
                    /\ write[w].pc = "commit"
                    /\ write[w].op.do \in {"edit", "edit_by_content"}
                    /\ write[w].op.content = n.content
<1>1. /\ write[w].pc = "commit" /\ write[w].op \in WriteRequests
      /\ write[w].vec \in {NoVector, write[w].op.content}
      /\ Apply(write[w].op, write[w].vec)
      /\ write' = [write EXCEPT ![w] = IdleWrite]
  BY DEF CommitWrite, WInv, WritesTyped, Typed
<1>2. /\ Rows' /\ VectorsAreFresh'
      /\ \A o \in observations, n \in observations' :
            o.id = n.id /\ o.content # n.content =>
               /\ write[w].op.do \in {"edit", "edit_by_content"}
               /\ n.content = write[w].op.content
  BY <1>1, ApplyKeeps DEF WInv
<1>3. WritesTyped'
  BY <1>1, IdleTyped, WriterFrame DEF WInv
<1> QED
  BY <1>1, <1>2, <1>3 DEF WInv

LEMMA WriterKeeps ==
    ASSUME WInv, NEW w \in Writers,
           \/ WriteEmbeds(w) \/ WriteGoesWithout(w) \/ WriteFails(w)
           \/ \E op \in Writes : BeginWrite(w, op)
    PROVE  WInv' /\ UNCHANGED <<entities, observations, nextID, unembedded, search>>
<1>1. UNCHANGED <<entities, observations, nextID, unembedded, search>>
  BY DEF WriteEmbeds, WriteGoesWithout, WriteFails, BeginWrite
<1>2. Rows' /\ VectorsAreFresh'
  BY <1>1 DEF WInv, Rows, VectorsAreFresh
<1>3. write[w] \in WriteStates /\ Typed(write[w])
  BY DEF WInv, WritesTyped
<1>4. WritesTyped'
  <2>1. CASE WriteEmbeds(w)
    <3> DEFINE x == [write[w] EXCEPT !.pc = "commit", !.vec = write[w].op.content]
    <3>1. write[w].op \in WriteRequests /\ write[w].op.content \in SUBSET Words
      BY <1>3, <2>1 DEF WriteEmbeds, Typed, WriteRequests
    <3>2. x \in WriteStates /\ Typed(x)
      BY <1>3, <3>1 DEF WriteStates, Typed, Vectors
    <3>3. write' = [write EXCEPT ![w] = x]
      BY <1>3, <2>1 DEF WriteEmbeds, WInv, WritesTyped
    <3> QED
      BY <3>2, <3>3, WriterFrame DEF WInv
  <2>2. CASE WriteGoesWithout(w)
    <3> DEFINE x == [write[w] EXCEPT !.pc = "commit"]
    <3>1. x \in WriteStates /\ Typed(x)
      BY <1>3, <2>2 DEF WriteStates, Typed, WriteGoesWithout
    <3>2. write' = [write EXCEPT ![w] = x]
      BY <1>3, <2>2 DEF WriteGoesWithout, WInv, WritesTyped
    <3> QED
      BY <3>1, <3>2, WriterFrame DEF WInv
  <2>3. CASE WriteFails(w)
    BY <2>3, IdleTyped, WriterFrame DEF WriteFails, WInv
  <2>4. CASE \E op \in Writes : BeginWrite(w, op)
    <3>1. PICK op \in Writes : BeginWrite(w, op)
      BY <2>4
    <3> DEFINE x == [IdleWrite EXCEPT !.op = op,
                    !.pc = IF op.do \in Embedding THEN "embedding" ELSE "commit"]
    <3>2. op \in WriteRequests
      BY SearchAssumption
    <3>3. x \in WriteStates /\ Typed(x)
      BY <3>2 DEF IdleWrite, WriteStates, Typed, Vectors
    <3>4. write' = [write EXCEPT ![w] = x]
      BY <3>1 DEF BeginWrite
    <3> QED
      BY <3>3, <3>4, WriterFrame DEF WInv
  <2> QED
    BY <2>1, <2>2, <2>3, <2>4
<1> QED
  BY <1>1, <1>2, <1>4 DEF WInv

\* The backfill finds nothing to update.
LEMMA FillKeeps ==
    ASSUME Rows, FillNext \/ FillDies
    PROVE  UNCHANGED <<entities, observations, nextID, write, search, unembedded>>
BY NothingInNoProject
   DEF FillNext, FillDies, FillQuery, FillEmbeds, FillUpdates

LEMMA SearcherKeeps ==
    ASSUME NEW s \in Searchers,
           \/ SearchNext(s) \/ SearchEmbeds(s)
           \/ \E q \in Queries : BeginSearch(s, q)
    PROVE  UNCHANGED <<entities, observations, nextID, write, unembedded>>
BY DEF SearchNext, SearchEmbeds, BeginSearch, SearchGoesWithout, Rank, Fetch,
       Answer, SearchFails

LEMMA InitWInv == Init => WInv
<1> SUFFICES ASSUME Init PROVE WInv
  OBVIOUS
<1>1. SeedRows \in Nat
  BY SeedAssumption, FS_CardinalityType DEF SeedRows
<1>2. Rows
  BY <1>1, SeedAssumption DEF Init, Rows, EntityRows, ObservationRows
<1>3. VectorsAreFresh
  BY SeedAssumption DEF Init, VectorsAreFresh
<1>4. WritesTyped
  BY IdleTyped DEF Init, WritesTyped
<1> QED
  BY <1>2, <1>3, <1>4 DEF WInv

LEMMA StepWInv ==
    WInv /\ [Next]_vars =>
        /\ WInv'
        /\ \A o \in observations, n \in observations' :
              o.id = n.id /\ o.content # n.content =>
                 \E w \in Writers :
                    /\ write[w].pc = "commit"
                    /\ write[w].op.do \in {"edit", "edit_by_content"}
                    /\ write[w].op.content = n.content
<1> SUFFICES ASSUME WInv, [Next]_vars
             PROVE  /\ WInv'
                    /\ \A o \in observations, n \in observations' :
                          o.id = n.id /\ o.content # n.content =>
                             \E w \in Writers :
                                /\ write[w].pc = "commit"
                                /\ write[w].op.do \in {"edit", "edit_by_content"}
                                /\ write[w].op.content = n.content
  OBVIOUS
<1>1. CASE \E w \in Writers : CommitWrite(w)
  BY <1>1, CommitKeeps
<1>2. CASE WInv' /\ observations' = observations
  BY <1>2 DEF WInv, Rows, Keys
<1>3. ASSUME NEW w \in Writers,
             \/ WriteEmbeds(w) \/ WriteGoesWithout(w) \/ WriteFails(w)
             \/ \E op \in Writes : BeginWrite(w, op)
      PROVE  WInv' /\ observations' = observations
  BY <1>3, WriterKeeps
<1>4. ASSUME NEW s \in Searchers,
             \/ SearchNext(s) \/ SearchEmbeds(s)
             \/ \E q \in Queries : BeginSearch(s, q)
      PROVE  WInv' /\ observations' = observations
  <2>1. UNCHANGED <<entities, observations, nextID, write, unembedded>>
    BY <1>4, SearcherKeeps
  <2> QED
    BY <2>1, QuietKeeps
<1>5. ASSUME FillNext \/ FillDies
      PROVE  WInv' /\ observations' = observations
  <2>1. Rows
    BY DEF WInv
  <2>2. UNCHANGED <<entities, observations, nextID, write, unembedded>>
    BY <1>5, <2>1, FillKeeps
  <2> QED
    BY <2>2, QuietKeeps
<1>6. ASSUME UNCHANGED vars
      PROVE  WInv' /\ observations' = observations
  <2>1. UNCHANGED <<entities, observations, nextID, write, unembedded>>
    BY <1>6 DEF vars
  <2> QED
    BY <2>1, QuietKeeps
<1> QED
  BY <1>1, <1>2, <1>3, <1>4, <1>5, <1>6 DEF Next, WriteNext

LEMMA WInvariance == Spec => []WInv
BY InitWInv, StepWInv, PTL DEF Spec

\* A vector is that of the content next to it unless the last edit got none
\* (observations.go UpdateObservation).
THEOREM VectorsStayFresh == Spec => []VectorsAreFresh
<1>1. WInv => VectorsAreFresh
  BY DEF WInv
<1> QED
  BY <1>1, WInvariance, PTL

\* Only an edit changes a content, and to what was asked (observations.go
\* UpdateObservation, main.go runBackfill).
THEOREM EditsAreKept == Spec => EditsStand
<1>1. WInv /\ [Next]_vars =>
        [\A o \in observations, n \in observations' :
          o.id = n.id /\ o.content # n.content =>
             \E w \in Writers : /\ write[w].pc = "commit"
                                /\ write[w].op.do \in {"edit", "edit_by_content"}
                                /\ write[w].op.content = n.content]_vars
  BY StepWInv
<1> QED
  BY <1>1, WInvariance, PTL DEF Spec, EditsStand

\* The backfill never stores a vector, whatever is stored: no project is named
\* "" (main.go runBackfill, usecase/normalize.go).
THEOREM BackfillStoresNothing ==
    Spec => [][FillNext \/ FillDies => UNCHANGED <<entities, observations>>]_vars
<1>1. WInv /\ [Next]_vars =>
        [FillNext \/ FillDies => UNCHANGED <<entities, observations>>]_vars
  BY FillKeeps DEF WInv
<1> QED
  BY <1>1, WInvariance, PTL DEF Spec

-----------------------------------------------------------------------------
(* The searches                                                            *)

Answers == [row : EntityRows, shown : SUBSET (SUBSET Words), cut : BOOLEAN]
SearchStates ==
    [pc : {"idle", "embedding", "rank", "fetch", "answered"},
     project : Projects \cup {Nil}, words : SUBSET Words, vec : Vectors,
     found : SUBSET EntityRows,
     answer : SUBSET Answers, cut : BOOLEAN,
     calm : SUBSET Nat, had : SUBSET (Nat \X (SUBSET Words))]

\* All that is stored is noted, and what was found or shown was noted.
Noted(q) ==
    /\ q.pc \in {"idle", "answered"} \/ Had \subseteq q.had
    /\ \A row \in q.found :
          InScope(q.project, row) /\ <<row.id, {row.name}>> \in q.had
    /\ \A a \in q.answer :
          /\ InScope(q.project, a.row)
          /\ {<<a.row.id, c>> : c \in a.shown \cup {{a.row.name}}} \subseteq q.had

Contents(e) == {o.content : o \in Said(e.id)}
About(q, e) == {a \in q.answer : a.row = e}

\* An answer says all of what an entity holds, or part of it when it was cut off.
Tells(a, holds) == a.shown \subseteq holds /\ (a.shown = holds \/ a.cut)

\* An entity that has not changed is found, or listed with what it holds, only
\* if it matches, and if it matches word for word unless the results are as
\* many as they may be or the ranking was cut off.
Exact(q) ==
    /\ q.pc # "fetch" => q.found = {}
    /\ q.pc \in {"idle", "embedding", "rank"} => q.answer = {}
    /\ IsFiniteSet(q.found) /\ IsFiniteSet(q.answer)
    /\ \A a \in q.answer : a.row \notin q.found
    /\ \A a, b \in q.answer : a.row = b.row => a = b
    /\ \A id \in q.calm : \E e \in entities : e.id = id
    /\ \A e \in entities : e.id \in q.calm =>
          /\ e \in q.found \/ About(q, e) # {} => Matches(q, e)
          /\ \A a \in About(q, e) : Tells(a, Contents(e))
          /\ q.pc \in {"fetch", "answered"} /\ InScope(q.project, e)
                /\ Lexical(q.words, e)
               => \/ e \in q.found \/ About(q, e) # {} \/ q.cut
                  \/ Cardinality(q.found) + Cardinality(q.answer) = Limit

SInv == /\ IsFiniteSet(entities)
        /\ search \in [Searchers -> SearchStates]
        /\ \A s \in Searchers : Noted(search[s]) /\ Exact(search[s])

LEMMA ApplyChanges ==
    ASSUME NEW op, NEW vec, Apply(op, vec), IsFiniteSet(entities)
    PROVE  \E E, O : Change(E, O) /\ IsFiniteSet(E)
<1>1. CASE Add(op, vec)
  <2>1. PICK e, O : Change(entities \cup {e}, O)
    BY <1>1 DEF Add
  <2> QED
    BY <2>1, FS_AddElement
<1>2. CASE \E o \in Targets(op) : Update(o, op.content, vec)
  BY <1>2 DEF Update
<1>3. CASE \E o \in Targets(op) : Change(entities, observations \ {o})
  BY <1>3
<1>4. CASE \E e \in Named(op.project, op.name) :
              Change(entities \ {e}, observations \ Said(e.id))
  BY <1>4, FS_RemoveElement
<1>5. CASE \E e \in Named(op.project, op.name) :
              Change((entities \ {e}) \cup {[e EXCEPT !.name = op.newName]},
                     observations)
  <2>1. PICK e, f : Change((entities \ {e}) \cup {f}, observations)
    BY <1>5
  <2>2. IsFiniteSet((entities \ {e}) \cup {f})
    BY FS_RemoveElement, FS_AddElement
  <2> QED
    BY <2>1, <2>2
<1> QED
  BY <1>1, <1>2, <1>3, <1>4, <1>5 DEF Apply

LEMMA HadTyped == ASSUME Rows PROVE Had \in SUBSET (Nat \X (SUBSET Words))
BY DEF Rows, Had, EntityRows, ObservationRows

\* What Change does to what a search has noted.
StillCalm(calm, E, O) == {id \in calm :
                            /\ \A e \in entities : e.id = id => e \in E
                            /\ Said(id) = {o \in O : o.entity = id}}
NowHad(q) == IF q.pc \in {"idle", "answered"} THEN q.had ELSE q.had \cup Had'

\* A change of the tables, for one search: it takes note of what is stored
\* now, and what stays calm stays as it was.
LEMMA ChangeKeepsOne ==
    ASSUME Rows, Rows', NEW E, NEW O, entities' = E, observations' = O,
           NEW q \in SearchStates, Noted(q), Exact(q),
           NEW r, r = [q EXCEPT !.calm = StillCalm(@, E, O), !.had = NowHad(q)]
    PROVE  r \in SearchStates /\ Noted(r)' /\ Exact(r)'
<1> DEFINE calm == StillCalm(q.calm, E, O)
           had == NowHad(q)
<1>1. calm \in SUBSET q.calm /\ q.had \subseteq had
  BY DEF StillCalm, NowHad
<1>2. had \in SUBSET (Nat \X (SUBSET Words)) /\ calm \in SUBSET Nat
  <2>1. Had' \in SUBSET (Nat \X (SUBSET Words))
    BY DEF Rows, Had, EntityRows, ObservationRows
  <2> QED
    BY <1>1, <2>1 DEF SearchStates, NowHad
<1> HIDE DEF calm, had
<1>3. /\ r \in SearchStates
      /\ r.pc = q.pc /\ r.project = q.project /\ r.words = q.words
      /\ r.vec = q.vec /\ r.found = q.found /\ r.answer = q.answer
      /\ r.cut = q.cut /\ r.calm = calm /\ r.had = had
  BY <1>2 DEF SearchStates, calm, had
<1>4. Noted(r)'
  <2>1. q.pc \in {"idle", "answered"} \/ Had' \subseteq had
    BY DEF had, NowHad
  <2> QED
    BY <1>1, <1>3, <2>1 DEF Noted, InScope
<1>5. ASSUME NEW e \in E, e.id \in calm
      PROVE  /\ e \in entities /\ e.id \in q.calm /\ Said(e.id)' = Said(e.id)
  <2>1. PICK f \in entities : f.id = e.id
    BY <1>1, <1>5 DEF Exact
  <2>2. f \in E
    BY <1>5, <2>1 DEF calm, StillCalm
  <2>3. f = e
    BY <2>1, <2>2 DEF Rows, Keys
  <2> QED
    BY <1>1, <1>5, <2>1, <2>3 DEF Said, calm, StillCalm
<1>6. ASSUME NEW e \in E, e.id \in calm
      PROVE  /\ e \in r.found \/ About(r, e) # {} => Matches(r, e)'
             /\ \A a \in About(r, e) : Tells(a, Contents(e)')
             /\ r.pc \in {"fetch", "answered"} /\ InScope(r.project, e)
                   /\ Lexical(r.words, e)'
                  => \/ e \in r.found \/ About(r, e) # {} \/ r.cut
                     \/ Cardinality(r.found) + Cardinality(r.answer) = Limit
  <2>1. /\ e \in entities /\ e.id \in q.calm /\ Said(e.id)' = Said(e.id)
    BY <1>5, <1>6
  <2>2. /\ e \in q.found \/ About(q, e) # {} => Matches(q, e)
        /\ \A a \in About(q, e) : Tells(a, Contents(e))
        /\ q.pc \in {"fetch", "answered"} /\ InScope(q.project, e)
              /\ Lexical(q.words, e)
             => \/ e \in q.found \/ About(q, e) # {} \/ q.cut
                \/ Cardinality(q.found) + Cardinality(q.answer) = Limit
    BY <2>1 DEF Exact
  <2>3. About(r, e) = About(q, e) /\ Contents(e)' = Contents(e)
    BY <1>3, <2>1 DEF About, Contents
  <2>4. Lexical(r.words, e)' <=> Lexical(q.words, e)
    BY <1>3, <2>1 DEF Lexical
  <2>5. Semantic(r.vec, e)' <=> Semantic(q.vec, e)
    BY <1>3, <2>1 DEF Semantic
  <2>6. Matches(r, e)' <=> Matches(q, e)
    BY <1>3, <2>4, <2>5 DEF Matches
  <2> QED
    BY <1>3, <2>2, <2>3, <2>4, <2>6
<1>7. \A id \in r.calm : \E e \in E : e.id = id
  <2>1. \A id \in calm : \E e \in entities : e.id = id /\ e \in E
    BY <1>1 DEF Exact, calm, StillCalm
  <2> QED
    BY <1>3, <2>1
<1>8. /\ r.pc # "fetch" => r.found = {}
      /\ r.pc \in {"idle", "embedding", "rank"} => r.answer = {}
      /\ IsFiniteSet(r.found) /\ IsFiniteSet(r.answer)
      /\ \A a \in r.answer : a.row \notin r.found
      /\ \A a, b \in r.answer : a.row = b.row => a = b
  BY <1>3 DEF Exact
<1>9. Exact(r)'
  BY <1>3, <1>6, <1>7, <1>8 DEF Exact, About, InScope, Tells
<1> QED
  BY <1>3, <1>4, <1>9

LEMMA ChangeKeeps ==
    ASSUME Rows, Rows', SInv, NEW E, NEW O, Change(E, O), IsFiniteSet(E)
    PROVE  SInv'
<1>1. /\ entities' = E /\ observations' = O
      /\ search' = [s \in Searchers |-> search'[s]]
  BY DEF Change
<1>2. ASSUME NEW s \in Searchers
      PROVE  search'[s] \in SearchStates /\ Noted(search[s])' /\ Exact(search[s])'
  <2>1. PICK q : q = search[s]
    OBVIOUS
  <2>2. PICK r : r = search'[s]
    OBVIOUS
  <2>3. r = [q EXCEPT !.calm = StillCalm(@, E, O), !.had = NowHad(q)]
    BY <2>1, <2>2 DEF Change, StillCalm, NowHad
  <2>4. q \in SearchStates /\ Noted(q) /\ Exact(q)
    BY <2>1 DEF SInv
  <2>5. r \in SearchStates /\ Noted(r)' /\ Exact(r)'
    BY <1>1, <2>3, <2>4, ChangeKeepsOne
  <2> QED
    BY <2>2, <2>5
<1> QED
  BY <1>1, <1>2 DEF SInv

LEMMA SearchFrame ==
    ASSUME SInv, UNCHANGED <<entities, observations>>, NEW s \in Searchers,
           NEW x \in SearchStates, Noted(x), Exact(x),
           search' = [search EXCEPT ![s] = x]
    PROVE  SInv'
<1>1. \A y : (Noted(y) => Noted(y)') /\ (Exact(y) => Exact(y)')
  <2> TAKE y
  <2>1. Had' = Had /\ (\A id : Said(id)' = Said(id))
    BY DEF Had, Said
  <2>2. \A e : Contents(e)' = Contents(e) /\ Matches(y, e)' = Matches(y, e)
    BY <2>1 DEF Contents, Matches, Lexical, Semantic
  <2>3. \A e : Lexical(y.words, e)' = Lexical(y.words, e)
    BY <2>1 DEF Lexical
  <2>4. Noted(y) => Noted(y)'
    BY <2>1 DEF Noted
  <2>5. Exact(y) => Exact(y)'
    BY <2>2, <2>3 DEF Exact
  <2> QED
    BY <2>4, <2>5
<1>2. ASSUME NEW t \in Searchers
      PROVE  search'[t] \in SearchStates /\ Noted(search[t])' /\ Exact(search[t])'
  <2>1. PICK y : y = search'[t]
    OBVIOUS
  <2>2. y \in SearchStates /\ Noted(y) /\ Exact(y)
    BY <2>1 DEF SInv
  <2> QED
    BY <1>1, <2>1, <2>2
<1> QED
  BY <1>2 DEF SInv

\* A search that has found nothing and lists nothing.
LEMMA EmptyIsExact ==
    ASSUME NEW x \in SearchStates, x.found = {}, x.answer = {},
           x.pc \in {"idle", "embedding", "rank"},
           \A id \in x.calm : \E e \in entities : e.id = id,
           x.pc = "idle" \/ Had \subseteq x.had
    PROVE  Noted(x) /\ Exact(x)
<1>1. \A e : About(x, e) = {}
  BY DEF About
<1> QED
  BY <1>1, FS_EmptySet DEF Noted, Exact

LEMMA IdleSearchTyped ==
    IdleSearch \in SearchStates /\ Noted(IdleSearch) /\ Exact(IdleSearch)
<1>1. /\ IdleSearch \in SearchStates
      /\ IdleSearch.pc = "idle" /\ IdleSearch.found = {} /\ IdleSearch.answer = {}
      /\ IdleSearch.calm = {}
  BY DEF IdleSearch, SearchStates, Vectors
<1> QED
  BY <1>1, EmptyIsExact

LEMMA RankKeeps == ASSUME SInv, Rows, NEW s \in Searchers, Rank(s) PROVE SInv'
<1> DEFINE q == search[s]
           matching == {e \in entities : Matches(q, e)}
<1>1. q \in SearchStates /\ Noted(q) /\ Exact(q) /\ q.pc = "rank"
  BY DEF SInv, Rank
<1>2. PICK best \in SUBSET matching, got \in SUBSET EntityRows :
         /\ best = matching \/ Cardinality(best) = Limit
         /\ got \subseteq best
         /\ search' = [search EXCEPT ![s].pc = "fetch", ![s].found = got,
                                    ![s].cut = got # best]
  BY DEF Rank, Rows
<1>3. IsFiniteSet(best) /\ IsFiniteSet(got)
  BY <1>2, FS_Subset DEF SInv
<1> DEFINE cut == got # best
           x == [q EXCEPT !.pc = "fetch", !.found = got, !.cut = cut]
<1>4. search' = [search EXCEPT ![s] = x]
  BY <1>1, <1>2 DEF SInv
<1> HIDE DEF cut
<1>5. /\ x \in SearchStates /\ x.pc = "fetch" /\ x.found = got
      /\ x.project = q.project /\ x.words = q.words /\ x.vec = q.vec
      /\ x.calm = q.calm /\ x.had = q.had /\ x.answer = {} /\ x.cut = cut
  <2>1. cut \in BOOLEAN
    BY DEF cut
  <2> QED
    BY <1>1, <2>1 DEF SearchStates, Exact
<1> HIDE DEF x
<1>6. \A e : About(x, e) = {} /\ (Matches(x, e) <=> Matches(q, e))
  BY <1>5 DEF About, Matches
<1>7. Noted(x)
  <2>1. Had \subseteq x.had
    BY <1>1, <1>5 DEF Noted
  <2>2. \A row \in got : <<row.id, {row.name}>> \in Had /\ InScope(x.project, row)
    BY <1>2, <1>5 DEF Had, Matches
  <2> QED
    BY <1>5, <2>1, <2>2 DEF Noted
<1>8. Exact(x)
  <2>1. IsFiniteSet({}) /\ Cardinality({}) = 0 /\ Cardinality(got) \in Nat
    BY <1>3, FS_EmptySet, FS_CardinalityType
  <2>2. \A e \in got : Matches(x, e)
    BY <1>2, <1>6
  <2>3. ASSUME NEW e \in entities, InScope(x.project, e), Lexical(x.words, e)
        PROVE  e \in got \/ x.cut \/ Cardinality(got) + Cardinality({}) = Limit
    <3>1. e \in matching
      BY <1>5, <2>3 DEF Matches
    <3>2. x.cut \/ got = best
      BY <1>5 DEF cut
    <3> QED
      BY <1>2, <2>1, <3>1, <3>2
  <2>4. \A id \in x.calm : \E e \in entities : e.id = id
    BY <1>1, <1>5 DEF Exact
  <2> QED
    BY <1>3, <1>5, <1>6, <2>1, <2>2, <2>3, <2>4 DEF Exact
<1> QED
  BY <1>4, <1>5, <1>7, <1>8, SearchFrame DEF Rank

LEMMA FetchKeeps == ASSUME SInv, Rows, NEW s \in Searchers, Fetch(s) PROVE SInv'
<1> DEFINE q == search[s]
<1>1. q \in SearchStates /\ Noted(q) /\ Exact(q) /\ q.pc = "fetch"
  BY DEF SInv, Fetch
<1>0. PICK row \in q.found : \E got \in SUBSET Shown(row) :
         search' = [search EXCEPT ![s].found = @ \ {row},
                       ![s].answer = @ \cup {[row |-> row, shown |-> got,
                                              cut |-> got # Shown(row)]}]
  BY DEF Fetch
<1>2. PICK got \in SUBSET Shown(row) :
         search' = [search EXCEPT ![s].found = @ \ {row},
                       ![s].answer = @ \cup {[row |-> row, shown |-> got,
                                              cut |-> got # Shown(row)]}]
  BY <1>0
<1> DEFINE cut == got # Shown(row)
           new == [row |-> row, shown |-> got, cut |-> cut]
           x == [q EXCEPT !.found = @ \ {row}, !.answer = @ \cup {new}]
<1>3. row \in EntityRows /\ Shown(row) \in SUBSET (SUBSET Words) /\ cut \in BOOLEAN
  BY <1>1 DEF SearchStates, Shown, Said, Rows, ObservationRows
<1>4. search' = [search EXCEPT ![s] = x]
  BY <1>1, <1>2 DEF SInv
<1> HIDE DEF cut
<1>5. /\ x \in SearchStates /\ x.pc = "fetch"
      /\ x.found = q.found \ {row} /\ x.answer = q.answer \cup {new}
      /\ x.project = q.project /\ x.words = q.words /\ x.vec = q.vec
      /\ x.calm = q.calm /\ x.had = q.had /\ x.cut = q.cut
  <2>1. new \in Answers
    BY <1>2, <1>3 DEF Answers
  <2> HIDE DEF new
  <2> QED
    BY <1>1, <2>1 DEF SearchStates
<1>6. new.row = row /\ new.shown = got /\ Tells(new, Contents(row))
  <2>1. Shown(row) = Contents(row)
    BY DEF Shown, Contents
  <2>2. new.shown = got /\ new.cut = cut
    OBVIOUS
  <2> QED
    BY <1>2, <2>1, <2>2 DEF Tells, cut
<1> HIDE DEF x, new
<1>7. Noted(x)
  <2>1. Had \subseteq x.had /\ <<row.id, {row.name}>> \in x.had
    BY <1>1, <1>5 DEF Noted
  <2>2. \A c \in Shown(row) : <<row.id, c>> \in Had
    BY DEF Shown, Said, Had
  <2>3. {<<row.id, c>> : c \in new.shown \cup {{row.name}}} \subseteq x.had
    BY <1>2, <1>6, <2>1, <2>2
  <2>4. InScope(x.project, row)
    BY <1>1, <1>5 DEF Noted
  <2> QED
    BY <1>1, <1>5, <1>6, <2>1, <2>3, <2>4 DEF Noted
<1>8. Exact(x)
  <2>1. /\ IsFiniteSet(x.found) /\ Cardinality(x.found) = Cardinality(q.found) - 1
        /\ IsFiniteSet(x.answer) /\ Cardinality(x.answer) = Cardinality(q.answer) + 1
    <3>1. new \notin q.answer
      BY <1>1, <1>6 DEF Exact
    <3>2. row \in q.found /\ IsFiniteSet(q.found) /\ IsFiniteSet(q.answer)
      BY <1>1 DEF Exact
    <3>3. /\ IsFiniteSet(q.found \ {row})
          /\ Cardinality(q.found \ {row}) = Cardinality(q.found) - 1
      BY <3>2, FS_RemoveElement
    <3>4. /\ IsFiniteSet(q.answer \cup {new})
          /\ Cardinality(q.answer \cup {new}) = Cardinality(q.answer) + 1
      BY <3>1, <3>2, FS_AddElement
    <3> QED
      BY <1>5, <3>3, <3>4
  <2>2. Cardinality(q.found) \in Nat /\ Cardinality(q.answer) \in Nat
    BY <1>1, FS_CardinalityType DEF Exact
  <2>3. /\ \A a \in x.answer : a.row \notin x.found
        /\ \A a, b \in x.answer : a.row = b.row => a = b
        /\ \A id \in x.calm : \E e \in entities : e.id = id
    BY <1>1, <1>5, <1>6 DEF Exact
  <2>4. ASSUME NEW e \in entities, e.id \in x.calm
        PROVE  /\ e \in x.found \/ About(x, e) # {} => Matches(x, e)
               /\ \A a \in About(x, e) : Tells(a, Contents(e))
               /\ x.pc \in {"fetch", "answered"} /\ InScope(x.project, e)
                     /\ Lexical(x.words, e)
                    => \/ e \in x.found \/ About(x, e) # {} \/ x.cut
                       \/ Cardinality(x.found) + Cardinality(x.answer) = Limit
    <3>1. /\ e \in q.found \/ About(q, e) # {} => Matches(q, e)
          /\ \A a \in About(q, e) : Tells(a, Contents(e))
          /\ InScope(q.project, e) /\ Lexical(q.words, e)
              => \/ e \in q.found \/ About(q, e) # {} \/ q.cut
                 \/ Cardinality(q.found) + Cardinality(q.answer) = Limit
      BY <1>1, <1>5, <2>4 DEF Exact
    <3>2. Matches(x, e) <=> Matches(q, e)
      BY <1>5 DEF Matches
    <3>3. About(x, e) = About(q, e) \cup {a \in {new} : e = row}
      BY <1>5, <1>6 DEF About
    <3>4. e \in x.found \/ About(x, e) # {} <=> e \in q.found \/ About(q, e) # {}
      BY <1>5, <3>3
    <3>5. Cardinality(x.found) + Cardinality(x.answer)
            = Cardinality(q.found) + Cardinality(q.answer)
      BY <2>1, <2>2
    <3>6. \A a \in About(x, e) : Tells(a, Contents(e))
      BY <1>6, <3>1, <3>3
    <3> QED
      BY <1>5, <3>1, <3>2, <3>4, <3>5, <3>6
  <2> QED
    BY <1>5, <2>1, <2>3, <2>4 DEF Exact
<1> QED
  BY <1>4, <1>5, <1>7, <1>8, SearchFrame DEF Fetch

LEMMA SearchKeeps ==
    ASSUME SInv, Rows, NEW s \in Searchers,
           \/ SearchNext(s) \/ SearchEmbeds(s)
           \/ \E q \in Queries : BeginSearch(s, q)
    PROVE  SInv'
<1> DEFINE q == search[s]
<1>1. q \in SearchStates /\ Noted(q) /\ Exact(q)
  BY DEF SInv
<1>2. CASE SearchEmbeds(s) \/ SearchGoesWithout(s)
  <2> DEFINE vec == IF SearchEmbeds(s) THEN q.words ELSE q.vec
             x == [q EXCEPT !.pc = "rank", !.vec = vec]
  <2>1. q.pc = "embedding" /\ q.words \in Vectors /\ vec \in Vectors
    BY <1>1, <1>2 DEF SearchEmbeds, SearchGoesWithout, SearchStates, Vectors
  <2>2. /\ search' = [search EXCEPT ![s] = x]
        /\ UNCHANGED <<entities, observations>>
    BY <1>1, <1>2 DEF SearchEmbeds, SearchGoesWithout, SInv, SearchStates
  <2> HIDE DEF vec
  <2>3. /\ x \in SearchStates /\ x.pc = "rank" /\ x.found = q.found
        /\ x.answer = q.answer /\ x.calm = q.calm /\ x.had = q.had
    BY <1>1, <2>1 DEF SearchStates
  <2> HIDE DEF x
  <2>4. Noted(x) /\ Exact(x)
    BY <1>1, <2>1, <2>3, EmptyIsExact DEF Noted, Exact
  <2> QED
    BY <2>2, <2>3, <2>4, SearchFrame
<1>3. CASE Rank(s)
  BY <1>3, RankKeeps
<1>4. CASE Fetch(s)
  BY <1>4, FetchKeeps
<1>5. CASE Answer(s)
  <2> DEFINE x == [q EXCEPT !.pc = "answered"]
  <2>1. /\ q.pc = "fetch" /\ search' = [search EXCEPT ![s] = x]
        /\ UNCHANGED <<entities, observations>>
    BY <1>1, <1>5 DEF Answer, SInv, SearchStates
  <2>2. /\ x \in SearchStates /\ x.pc = "answered" /\ x.found = q.found
        /\ x.answer = q.answer /\ x.project = q.project /\ x.words = q.words
        /\ x.cut = q.cut /\ x.vec = q.vec /\ x.calm = q.calm /\ x.had = q.had /\ x.found = {}
    BY <1>1, <1>5 DEF SearchStates, Answer
  <2> HIDE DEF x
  <2>3. \A e : /\ Matches(x, e) <=> Matches(q, e)
               /\ About(x, e) = About(q, e)
    BY <2>2 DEF Matches, About
  <2>4. Noted(x) /\ Exact(x)
    BY <1>1, <2>1, <2>2, <2>3 DEF Noted, Exact
  <2> QED
    BY <2>1, <2>2, <2>4, SearchFrame
<1>6. CASE SearchFails(s)
  BY <1>6, IdleSearchTyped, SearchFrame DEF SearchFails
<1>7. ASSUME NEW p \in Queries, BeginSearch(s, p) PROVE SInv'
  <2> DEFINE calm == {e.id : e \in entities}
             x == [IdleSearch EXCEPT !.pc = "embedding", !.project = p.project,
                     !.words = p.words, !.had = Had, !.calm = calm]
  <2>1. p.project \in Projects \cup {Nil} /\ p.words \in SUBSET Words
    BY SearchAssumption
  <2>2. calm \in SUBSET Nat
    BY DEF Rows, EntityRows
  <2>3. Had \in SUBSET (Nat \X (SUBSET Words))
    BY HadTyped
  <2>4. /\ search' = [search EXCEPT ![s] = x]
        /\ UNCHANGED <<entities, observations>>
    BY <1>7 DEF BeginSearch
  <2>5. \A id \in calm : \E e \in entities : e.id = id
    OBVIOUS
  <2> HIDE DEF calm
  <2>6. /\ x \in SearchStates /\ x.pc = "embedding" /\ x.found = {}
        /\ x.answer = {} /\ x.calm = calm /\ x.had = Had
    BY <2>1, <2>2, <2>3 DEF IdleSearch, SearchStates, Vectors
  <2> HIDE DEF x
  <2>7. Noted(x) /\ Exact(x)
    BY <2>5, <2>6, EmptyIsExact
  <2> QED
    BY <2>4, <2>6, <2>7, SearchFrame
<1> QED
  BY <1>2, <1>3, <1>4, <1>5, <1>6, <1>7 DEF SearchNext

\* The phases of the backfill.
FillTyped == /\ fill = [pc |-> fill.pc, batch |-> fill.batch]
             /\ fill.pc \in {"query", "embed", "update", "complete", "dead"}

LEMMA InitAllInv == Init => WInv /\ SInv /\ FillTyped
<1> SUFFICES ASSUME Init PROVE WInv /\ SInv /\ FillTyped
  OBVIOUS
<1>1. SInv
  BY IdleSearchTyped, SeedAssumption DEF Init, SInv
<1>2. FillTyped
  BY DEF Init, FillTyped
<1> QED
  BY <1>1, <1>2, InitWInv

LEMMA StepSInv == WInv /\ SInv /\ [Next]_vars => SInv'
<1> SUFFICES ASSUME WInv, SInv, [Next]_vars PROVE SInv'
  OBVIOUS
<1>1. Rows /\ Rows'
  BY StepWInv DEF WInv
<1>2. ASSUME UNCHANGED <<entities, observations, search>> PROVE SInv'
  BY <1>2 DEF SInv, Noted, Exact, Had, Contents, Matches, Lexical, Semantic,
              Said, About, InScope
<1>3. ASSUME NEW w \in Writers, CommitWrite(w) PROVE SInv'
  <2>1. PICK E, O : Change(E, O) /\ IsFiniteSet(E)
    BY <1>3, ApplyChanges DEF CommitWrite, SInv
  <2> QED
    BY <1>1, <2>1, ChangeKeeps
<1>4. ASSUME NEW w \in Writers,
             \/ WriteEmbeds(w) \/ WriteGoesWithout(w) \/ WriteFails(w)
             \/ \E op \in Writes : BeginWrite(w, op)
      PROVE  SInv'
  BY <1>2, <1>4, WriterKeeps
<1>5. ASSUME NEW s \in Searchers,
             \/ SearchNext(s) \/ SearchEmbeds(s)
             \/ \E q \in Queries : BeginSearch(s, q)
      PROVE  SInv'
  BY <1>1, <1>5, SearchKeeps
<1>6. CASE FillNext \/ FillDies
  BY <1>1, <1>2, <1>6, FillKeeps
<1>7. CASE UNCHANGED vars
  BY <1>2, <1>7 DEF vars
<1> QED
  BY <1>3, <1>4, <1>5, <1>6, <1>7 DEF Next, WriteNext

LEMMA StepFillTyped == FillTyped /\ [Next]_vars => FillTyped'
<1> SUFFICES ASSUME FillTyped, [Next]_vars PROVE FillTyped'
  OBVIOUS
<1>1. CASE FillQuery \/ FillUpdates \/ FillDies
  <2>1. PICK pc, batch : /\ fill' = [pc |-> pc, batch |-> batch]
                         /\ pc \in {"query", "embed", "update", "complete", "dead"}
    BY <1>1 DEF FillQuery, FillUpdates, FillDies
  <2> QED
    BY <2>1 DEF FillTyped
<1>2. CASE FillEmbeds
  <2>1. fill' = [pc |-> "update", batch |-> fill.batch]
    BY <1>2 DEF FillEmbeds, FillTyped
  <2> QED
    BY <2>1 DEF FillTyped
<1>3. CASE UNCHANGED fill
  BY <1>3 DEF FillTyped
<1>4. ASSUME NEW w \in Writers,
             WriteNext(w) \/ WriteEmbeds(w) \/ \E op \in Writes : BeginWrite(w, op)
      PROVE  UNCHANGED fill
  BY <1>4 DEF WriteNext, WriteEmbeds, WriteGoesWithout, WriteFails, BeginWrite,
              CommitWrite
<1>5. ASSUME NEW s \in Searchers,
             SearchNext(s) \/ SearchEmbeds(s) \/ \E q \in Queries : BeginSearch(s, q)
      PROVE  UNCHANGED fill
  BY <1>5 DEF SearchNext, SearchEmbeds, BeginSearch, SearchGoesWithout, Rank,
              Fetch, Answer, SearchFails
<1> QED
  BY <1>1, <1>3, <1>4, <1>5, <1>2 DEF Next, FillNext, vars

LEMMA SInvariance == Spec => [](WInv /\ SInv /\ FillTyped)
BY InitAllInv, StepWInv, StepSInv, StepFillTyped, PTL DEF Spec

\* Rows keep their types, unique keys and references, and requests what they
\* hold (schema.sql, usecase/crud.go, usecase/search.go).
THEOREM SearchTypeCorrect == Spec => []TypeOK
<1>1. WInv /\ SInv /\ FillTyped => TypeOK
  <2> SUFFICES ASSUME WInv, SInv, FillTyped PROVE TypeOK
    OBVIOUS
  <2>1. \A w \in Writers : /\ write[w].pc \in {"idle", "embedding", "commit"}
                           /\ write[w].pc # "idle" => write[w].op \in WriteRequests
    BY DEF WInv, WritesTyped, WriteStates, Typed
  <2>2. \A s \in Searchers :
          /\ search[s].pc \in {"idle", "embedding", "rank", "fetch", "answered"}
          /\ search[s].words \subseteq Words /\ search[s].vec \in Vectors
    BY DEF SInv, SearchStates
  <2> QED
    BY <2>1, <2>2 DEF TypeOK, WInv, Rows, FillTyped
<1> QED
  BY <1>1, SInvariance, PTL

\* What is shown under an entity was said of it while the search ran
\* (search.go fetchResults).
THEOREM ResultsAreTrue == Spec => []ResultsAreOfTheEntity
<1>1. SInv => ResultsAreOfTheEntity
  BY DEF SInv, Noted, ResultsAreOfTheEntity
<1> QED
  BY <1>1, SInvariance, PTL

\* What an answer says of an unchanged entity is exact, but for what is missing
\* because a result was cut off (search.go searchLexical, searchHybrid,
\* fetchResults).
THEOREM AnswersAreExact == Spec => []SearchIsExact
<1>1. SInv => SearchIsExact
  <2> SUFFICES ASSUME SInv, NEW s \in Searchers, search[s].pc = "answered",
                      NEW e \in entities, e.id \in search[s].calm
               PROVE  LET q == search[s] IN
                      /\ InScope(q.project, e) /\ Lexical(q.words, e)
                           => About(q, e) # {} \/ Cardinality(q.answer) = Limit \/ q.cut
                      /\ \A a \in About(q, e) :
                           /\ Matches(q, e) /\ About(q, e) = {a}
                           /\ Tells(a, {o.content : o \in Said(e.id)})
    BY DEF SearchIsExact, About, Tells
  <2> DEFINE q == search[s]
  <2>1. q \in SearchStates /\ Exact(q)
    BY DEF SInv
  <2>2. q.found = {} /\ Cardinality(q.found) = 0 /\ Cardinality(q.answer) \in Nat
    BY <2>1, FS_EmptySet, FS_CardinalityType DEF Exact
  <2>3. /\ About(q, e) # {} => Matches(q, e)
        /\ \A a \in About(q, e) : Tells(a, Contents(e))
        /\ InScope(q.project, e) /\ Lexical(q.words, e)
             => \/ e \in q.found \/ About(q, e) # {} \/ q.cut
                \/ Cardinality(q.found) + Cardinality(q.answer) = Limit
    BY <2>1 DEF Exact
  <2>4. \A a \in About(q, e) : About(q, e) = {a}
    BY <2>1 DEF Exact, About
  <2> QED
    BY <2>2, <2>3, <2>4 DEF Contents
<1> QED
  BY <1>1, SInvariance, PTL
=============================================================================
