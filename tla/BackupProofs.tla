---------------------------- MODULE BackupProofs ----------------------------
(***************************************************************************)
(* What holds of Backup for any number of overlapping runs, any retention  *)
(* and any bounds.  Exports are proved from what each phase has read of    *)
(* the rows that stay (Exported); pruning and what it leaves from one fact *)
(* that no later step takes back: Retention files newer than n are on disk *)
(* (Newer).                                                                *)
(***************************************************************************)
EXTENDS Backup, FiniteSetTheorems, WellFoundedInduction, TLAPS

Row == Nat \X Kinds \X Nat
File == [whole : BOOLEAN, rows : SUBSET Row]
RunStates == [pc : {"idle", "observations", "relations", "open", "write",
                    "list", "prune"},
              payload : SUBSET Row, stable : SUBSET Row, cut : BOOLEAN,
              file : {0} \cup Times, doomed : SUBSET Times]

RunTyped(q) == /\ q \in RunStates
               /\ q.pc \in {"open", "write"} => q.file \in Times
               /\ q.pc \in {"idle", "list", "prune"} => q.stable = {}
               /\ q.pc = "prune" <=> q.doomed # {}

Tables == /\ rows \in SUBSET Row /\ IsGraph(rows) /\ nextID \in Nat
          /\ safe \subseteq rows
Disk == /\ now \in {0} \cup Times /\ saved \in {0} \cup Times
        /\ DOMAIN dir \in SUBSET Times
        /\ \A n \in DOMAIN dir : dir[n] \in File
        /\ cuts \in Nat /\ failed \in Nat
RunsTyped == DOMAIN run = Runs /\ run = [r \in Runs |-> run[r]]
             /\ \A r \in Runs : RunTyped(run[r])

Typed == Tables /\ Disk /\ RunsTyped

-----------------------------------------------------------------------------
(* Sets of numbers and of files                                            *)

LEMMA TimesAreNumbers == Times \subseteq Nat /\ \A n \in Times : n > 0
BY BackupAssumption DEF Times

LEMMA HasLeast ==
    ASSUME NEW S \in SUBSET Nat, S # {}
    PROVE  \E x \in S : \A y \in S : x <= y
<1>1. PICK x \in S : \A y \in S : ~(<<y, x>> \in OpToRel(<, Nat))
  BY NatLessThanWellFounded, WFMin
<1>2. \A y \in S : ~(y < x)
  BY <1>1 DEF OpToRel
<1> QED
  BY <1>2

LEMMA MaxIsIn ==
    ASSUME NEW n \in Nat, NEW S \in SUBSET (1 .. n), S # {}
    PROVE  Max(S) \in S
<1> DEFINE T == {n - x : x \in S}
<1>1. T \in SUBSET Nat
  <2> SUFFICES ASSUME NEW x \in S PROVE n - x \in Nat
    OBVIOUS
  <2>1. x \in 1 .. n
    OBVIOUS
  <2> QED
    BY <2>1
<1>2. T # {}
  OBVIOUS
<1> HIDE DEF T
<1>3. PICK t \in T : \A u \in T : t <= u
  BY <1>1, <1>2, HasLeast
<1>4. PICK x \in S : t = n - x
  BY <1>3 DEF T
<1>5. \A y \in S : x >= y
  <2> TAKE y \in S
  <2>1. n - y \in T
    BY DEF T
  <2>2. n - x <= n - y
    BY <1>3, <1>4, <2>1
  <2>3. x \in 1 .. n /\ y \in 1 .. n
    OBVIOUS
  <2> QED
    BY <2>2, <2>3
<1> QED
  BY <1>4, <1>5 DEF Max

LEMMA TimesFinite ==
    ASSUME NEW S \in SUBSET Times
    PROVE  IsFiniteSet(S) /\ Cardinality(S) \in Nat
<1>1. MaxTime \in Nat
  BY BackupAssumption
<1>2. IsFiniteSet(Times)
  BY <1>1, FS_Interval DEF Times
<1> QED
  BY <1>2, FS_Subset, FS_CardinalityType

\* No more than `keep` files are not beyond the newest `keep`.
LEMMA FewAreKept ==
    ASSUME NEW files \in SUBSET Times, NEW keep \in Nat \ {0}
    PROVE  Cardinality(files \ Beyond(files, keep)) <= keep
<1> DEFINE kept == files \ Beyond(files, keep)
<1>1. kept \in SUBSET Times /\ kept \in SUBSET Nat
  BY TimesAreNumbers
<1>2. CASE kept = {}
  BY <1>2, FS_EmptySet
<1>3. CASE kept # {}
  <2>1. PICK k \in kept : \A m \in kept : k <= m
    BY <1>1, <1>3, HasLeast
  <2> DEFINE newer == {m \in files : m > k}
  <2>2. newer \in SUBSET Times
    OBVIOUS
  <2>3. IsFiniteSet(newer) /\ Cardinality(newer) \in Nat /\ Cardinality(newer) < keep
    <3>1. k \in files /\ ~(Cardinality(newer) >= keep)
      BY <2>1 DEF Beyond
    <3> QED
      BY <2>2, <3>1, TimesFinite
  <2>4. kept \subseteq newer \cup {k}
    BY <1>1, <2>1
  <2>5. /\ IsFiniteSet(newer \cup {k})
        /\ Cardinality(newer \cup {k}) <= Cardinality(newer) + 1
    <3>1. \/ Cardinality(newer \cup {k}) = Cardinality(newer)
          \/ Cardinality(newer \cup {k}) = Cardinality(newer) + 1
      BY <2>3, FS_AddElement
    <3>2. IsFiniteSet(newer \cup {k})
      BY <2>3, FS_AddElement
    <3> HIDE DEF newer
    <3> QED
      BY <2>3, <3>1, <3>2
  <2>6. Cardinality(kept) <= Cardinality(newer \cup {k})
    BY <2>4, <2>5, FS_Subset
  <2>7. Cardinality(kept) \in Nat /\ Cardinality(newer \cup {k}) \in Nat
    BY <1>1, <2>5, TimesFinite, FS_CardinalityType
  <2> QED
    BY <2>3, <2>5, <2>6, <2>7
<1> QED
  BY <1>2, <1>3

-----------------------------------------------------------------------------
(* Changes of the graph                                                    *)

LEMMA RowOf ==
    ASSUME NEW a \in Nat, NEW b \in Nat
    PROVE  /\ Entity(a) \in Row /\ Observation(a) \in Row /\ Relation(a, b) \in Row
           /\ Entity(a)[1] = a /\ Entity(a)[2] = "entity" /\ Entity(a)[3] = a
           /\ Observation(a)[1] = a /\ Observation(a)[2] = "observation"
           /\ Observation(a)[3] = a
           /\ Relation(a, b)[1] = a /\ Relation(a, b)[2] = "relation"
           /\ Relation(a, b)[3] = b
BY DEF Row, Kinds, Entity, Observation, Relation

\* Requests keep the graph one, and any part of it that was one.
LEMMA RequestKeeps ==
    ASSUME Tables, Requested
    PROVE  \E new \in SUBSET Row :
              /\ Change(new) /\ IsGraph(new) /\ nextID' \in Nat
              /\ \A part \in SUBSET rows : IsGraph(part) => IsGraph(part \cap new)
<1>1. CASE Create
  <2>1. PICK some \in SUBSET {Observation(nextID)} :
               Change(rows \cup {Entity(nextID)} \cup some)
    BY <1>1 DEF Create
  <2> DEFINE new == rows \cup {Entity(nextID)} \cup some
  <2>2. nextID \in Nat /\ nextID' \in Nat
    BY <1>1 DEF Create, Tables
  <2>3. new \in SUBSET Row
    BY <2>2, RowOf DEF Tables
  <2>4. IsGraph(new)
    <3>1. \A row \in rows : /\ row[2] \in Kinds
                            /\ Entity(row[1]) \in rows /\ Entity(row[3]) \in rows
      BY DEF Tables, IsGraph
    <3>2. \A row \in {Entity(nextID), Observation(nextID)} :
             row[1] = nextID /\ row[2] \in Kinds /\ row[3] = nextID
      BY <2>2, RowOf DEF Kinds
    <3>3. \A row \in new : /\ row[2] \in Kinds
                           /\ Entity(row[1]) \in new /\ Entity(row[3]) \in new
      BY <3>1, <3>2
    <3> QED
      BY <3>3 DEF IsGraph
  <2>5. \A part \in SUBSET rows : part \cap new = part
    OBVIOUS
  <2> QED
    BY <2>1, <2>2, <2>3, <2>4, <2>5
<1>2. ASSUME NEW a \in 1 .. nextID, NEW b \in 1 .. nextID, Relate(a, b)
      PROVE  \E new \in SUBSET Row :
              /\ Change(new) /\ IsGraph(new) /\ nextID' \in Nat
              /\ \A part \in SUBSET rows : IsGraph(part) => IsGraph(part \cap new)
  <2> DEFINE new == rows \cup {Relation(a, b)}
  <2>1. /\ Change(new) /\ nextID' \in Nat /\ a \in Nat /\ b \in Nat
        /\ Entity(a) \in rows /\ Entity(b) \in rows
    BY <1>2 DEF Relate, Stored, Tables
  <2>2. new \in SUBSET Row
    BY <2>1, RowOf DEF Tables
  <2>3. IsGraph(new)
    <3>1. \A row \in rows : /\ row[2] \in Kinds
                            /\ Entity(row[1]) \in rows /\ Entity(row[3]) \in rows
      BY DEF Tables, IsGraph
    <3>2. /\ Relation(a, b)[1] = a /\ Relation(a, b)[2] \in Kinds
          /\ Relation(a, b)[3] = b
      BY <2>1, RowOf DEF Kinds
    <3>3. \A row \in new : /\ row[2] \in Kinds
                           /\ Entity(row[1]) \in new /\ Entity(row[3]) \in new
      BY <2>1, <3>1, <3>2
    <3> QED
      BY <3>3 DEF IsGraph
  <2>4. \A part \in SUBSET rows : part \cap new = part
    OBVIOUS
  <2> QED
    BY <2>1, <2>2, <2>3, <2>4
<1>3. ASSUME NEW e \in 1 .. nextID, Delete(e)
      PROVE  \E new \in SUBSET Row :
              /\ Change(new) /\ IsGraph(new) /\ nextID' \in Nat
              /\ \A part \in SUBSET rows : IsGraph(part) => IsGraph(part \cap new)
  <2> DEFINE new == {row \in rows : e \notin {row[1], row[3]}}
  <2>1. Change(new) /\ nextID' \in Nat /\ new \in SUBSET Row
    BY <1>3 DEF Delete, Tables
  <2>2. ASSUME NEW part \in SUBSET rows, IsGraph(part)
        PROVE  IsGraph(part \cap new)
    <3> SUFFICES ASSUME NEW row \in part \cap new
                 PROVE  /\ row[2] \in Kinds
                        /\ Entity(row[1]) \in part \cap new
                        /\ Entity(row[3]) \in part \cap new
      BY DEF IsGraph
    <3>1. row \in Row /\ row[1] \in Nat /\ row[3] \in Nat
      BY DEF Tables, Row
    <3>2. /\ row[2] \in Kinds /\ Entity(row[1]) \in part /\ Entity(row[3]) \in part
          /\ row[1] # e /\ row[3] # e
      BY <2>2 DEF IsGraph
    <3>3. /\ Entity(row[1])[1] = row[1] /\ Entity(row[1])[3] = row[1]
          /\ Entity(row[3])[1] = row[3] /\ Entity(row[3])[3] = row[3]
      BY <3>1, RowOf
    <3> QED
      BY <3>2, <3>3
  <2>3. IsGraph(rows \cap new) /\ rows \cap new = new
    BY <2>2 DEF Tables
  <2> QED
    BY <2>1, <2>2, <2>3
<1> QED
  BY <1>1, <1>2, <1>3 DEF Requested

-----------------------------------------------------------------------------
(* Exports                                                                 *)

\* What a run has in its payload of the rows that stay, unless it was cut off.
Exported(q) ==
    /\ q.stable \subseteq rows /\ IsGraph(q.stable)
    /\ q.pc = "observations" =>
          q.cut \/ {row \in q.stable : row[2] = "entity"} \subseteq q.payload
    /\ q.pc = "relations" =>
          q.cut \/ {row \in q.stable : row[2] # "relation"} \subseteq q.payload
    /\ q.pc \in {"open", "write"} => q.cut \/ q.stable \subseteq q.payload

\* Of two exports the later one has all the rows that stay of the other.
Nests(S, T) == S \subseteq T \/ T \subseteq S
Nested == \A r, t \in Runs : /\ Nests(run[r].stable, run[t].stable)
                             /\ Nests(safe, run[r].stable)

EInv == Typed /\ (\A r \in Runs : Exported(run[r])) /\ Nested

LEMMA IdleKeeps ==
    /\ RunTyped(Idle) /\ Exported(Idle) /\ Idle.stable = {}
    /\ \A x : x = [Idle EXCEPT !.pc = "list"] =>
          RunTyped(x) /\ Exported(x) /\ x.stable = {}
    /\ \A files \in SUBSET Times : LET x == Pruning(files) IN
          RunTyped(x) /\ Exported(x) /\ x.stable = {}
<1>1. RunTyped(Idle) /\ Exported(Idle) /\ Idle.stable = {}
  BY DEF RunTyped, Exported, Idle, RunStates, IsGraph
<1>2. \A x : x = [Idle EXCEPT !.pc = "list"] =>
         RunTyped(x) /\ Exported(x) /\ x.stable = {}
  BY DEF RunTyped, Exported, Idle, RunStates, IsGraph
<1>3. ASSUME NEW files \in SUBSET Times, files # {},
             NEW x, x = [Idle EXCEPT !.pc = "prune", !.doomed = files]
      PROVE  RunTyped(x) /\ Exported(x) /\ x.stable = {}
  BY <1>3 DEF RunTyped, Exported, Idle, RunStates, IsGraph
<1> QED
  BY <1>1, <1>2, <1>3 DEF Pruning

\* One query is read.
LEMMA ReadsKeep ==
    ASSUME Disk, NEW S, NEW got, Reads(S, got), UNCHANGED <<dir, failed, saved>>,
           now' \in {0} \cup Times
    PROVE  Disk'
<1>1. cuts' \in Nat
  BY DEF Disk, Reads
<1> QED
  BY <1>1 DEF Disk

\* One run moves, and the graph does not.
LEMMA RunFrame ==
    ASSUME EInv, NEW r \in Runs, NEW x, RunTyped(x), Exported(x),
           x.stable \in {{}, rows, run[r].stable},
           run' = [run EXCEPT ![r] = x],
           UNCHANGED <<rows, nextID, safe>>, Disk'
    PROVE  EInv'
<1>1. RunsTyped' /\ (\A t \in Runs : run'[t] = IF t = r THEN x ELSE run[t])
  BY DEF EInv, Typed, RunsTyped
<1>2. Tables'
  BY DEF EInv, Typed, Tables, IsGraph
<1>3. \A t \in Runs : Exported(run[t])'
  <2> TAKE t \in Runs
  <2>1. Exported(run'[t])
    BY <1>1 DEF EInv
  <2> QED
    BY <2>1 DEF Exported, IsGraph
<1>4. \A t \in Runs : run[t].stable \subseteq rows /\ safe \subseteq rows
  BY DEF EInv, Exported, Typed, Tables
<1>5. Nested'
  BY <1>1, <1>4 DEF EInv, Nested, Nests
<1> QED
  BY <1>1, <1>2, <1>3, <1>5 DEF EInv, Typed

LEMMA ChangeKeeps ==
    ASSUME EInv, Requested
    PROVE  EInv' /\ UNCHANGED <<now, dir, cuts, failed, shared, saved>>
<1>1. PICK new \in SUBSET Row :
         /\ Change(new) /\ IsGraph(new) /\ nextID' \in Nat
         /\ \A part \in SUBSET rows : IsGraph(part) => IsGraph(part \cap new)
  BY RequestKeeps DEF EInv, Typed
<1>2. /\ rows' = new /\ safe' = safe \cap new
      /\ run' = [r \in Runs |-> [run[r] EXCEPT !.stable = @ \cap new]]
      /\ UNCHANGED <<now, dir, cuts, failed, shared, saved>>
  BY <1>1 DEF Change
<1>3. Tables' /\ Disk'
  BY <1>1, <1>2 DEF EInv, Typed, Tables, Disk, IsGraph
<1>4. ASSUME NEW r \in Runs
      PROVE  /\ run'[r] = [run[r] EXCEPT !.stable = run[r].stable \cap new]
             /\ run'[r] \in RunStates
             /\ run'[r].pc = run[r].pc /\ run'[r].payload = run[r].payload
             /\ run'[r].cut = run[r].cut /\ run'[r].file = run[r].file
             /\ run'[r].doomed = run[r].doomed
             /\ run'[r].stable = run[r].stable \cap new
  <2>1. run[r] \in RunStates
    BY DEF EInv, Typed, RunsTyped, RunTyped
  <2>2. run'[r] = [run[r] EXCEPT !.stable = run[r].stable \cap new]
    BY <1>2
  <2> QED
    BY <2>1, <2>2 DEF RunStates
<1>5. RunsTyped'
  <2>1. DOMAIN run' = Runs /\ run' = [r \in Runs |-> run'[r]]
    BY <1>2
  <2>2. \A r \in Runs : RunTyped(run[r])
    BY DEF EInv, Typed, RunsTyped
  <2>3. \A r \in Runs : RunTyped(run'[r])
    BY <1>4, <2>2 DEF RunTyped
  <2> QED
    BY <2>1, <2>3 DEF RunsTyped
<1>6. \A r \in Runs : Exported(run[r])'
  <2> TAKE r \in Runs
  <2>1. Exported(run[r]) /\ IsGraph(run[r].stable \cap new)
    BY <1>1 DEF EInv, Exported
  <2>2. run'[r].stable \subseteq rows' /\ IsGraph(run'[r].stable)
    BY <1>2, <1>4, <2>1 DEF Exported
  <2>3. /\ run'[r].pc = run[r].pc /\ run'[r].payload = run[r].payload
        /\ run'[r].cut = run[r].cut /\ run'[r].stable \subseteq run[r].stable
    BY <1>4
  <2> QED
    BY <2>1, <2>2, <2>3 DEF Exported, IsGraph
<1>7. Nested'
  BY <1>2, <1>4 DEF EInv, Nested, Nests
<1> QED
  BY <1>2, <1>3, <1>5, <1>6, <1>7 DEF EInv, Typed

LEMMA ExportKeeps ==
    ASSUME EInv, NEW r \in Runs,
           \/ ExportEntities(r) \/ ExportObservations(r) \/ ExportRelations(r)
           \/ ExportFails(r)
    PROVE  EInv'
<1> DEFINE q == run[r]
<1>1. /\ q \in RunStates /\ RunTyped(q) /\ Exported(q)
      /\ run = [t \in Runs |-> run[t]] /\ DOMAIN run = Runs
  BY DEF EInv, Typed, RunsTyped, RunTyped
<1>2. rows \in SUBSET Row /\ IsGraph(rows) /\ cuts \in Nat /\ Disk
  BY DEF EInv, Typed, Tables, Disk
<1>3. \A kind, got : got \in SUBSET OfKind(kind) => got \in SUBSET Row
  BY <1>2 DEF OfKind
<1>4. CASE ExportEntities(r)
  <2>1. PICK got \in SUBSET OfKind("entity") :
          /\ Reads(OfKind("entity"), got)
          /\ run' = [run EXCEPT ![r] = [Idle EXCEPT !.pc = "observations",
                        !.payload = got, !.stable = rows,
                        !.cut = got # OfKind("entity")]]
    BY <1>4 DEF ExportEntities
  <2> DEFINE cut == got # OfKind("entity")
             x == [Idle EXCEPT !.pc = "observations", !.payload = got,
                               !.stable = rows, !.cut = cut]
  <2>2. cut \in BOOLEAN /\ (cut \/ got = OfKind("entity"))
    OBVIOUS
  <2>3. run' = [run EXCEPT ![r] = x]
    BY <2>1
  <2> HIDE DEF cut
  <2>4. /\ x \in RunStates /\ x.pc = "observations" /\ x.payload = got
        /\ x.stable = rows /\ x.cut = cut /\ x.doomed = {}
    BY <1>2, <1>3, <2>2 DEF Idle, RunStates
  <2> HIDE DEF x
  <2>5. RunTyped(x) /\ Exported(x)
    BY <1>2, <2>2, <2>4 DEF RunTyped, Exported, OfKind
  <2>6. Disk' /\ UNCHANGED <<rows, nextID, safe>>
    <3>1. UNCHANGED <<now, dir, failed, saved, rows, nextID, safe>>
      BY <1>4 DEF ExportEntities
    <3>2. now' \in {0} \cup Times
      BY <1>2, <3>1 DEF Disk
    <3> QED
      BY <1>2, <2>1, <3>1, <3>2, ReadsKeep
  <2> QED
    BY <2>3, <2>4, <2>5, <2>6, RunFrame
<1>5. CASE ExportObservations(r)
  <2>1. PICK got \in SUBSET OfKind("observation") :
          /\ Reads(OfKind("observation"), got)
          /\ run' = [run EXCEPT ![r].pc = "relations",
                                ![r].payload = Attached(@, got),
                                ![r].cut = @ \/ got # OfKind("observation")]
    BY <1>5 DEF ExportObservations
  <2> DEFINE cut == q.cut \/ got # OfKind("observation")
             payload == Attached(q.payload, got)
             x == [q EXCEPT !.pc = "relations", !.payload = payload, !.cut = cut]
  <2>2. /\ cut \in BOOLEAN
        /\ cut \/ (~q.cut /\ got = OfKind("observation"))
        /\ payload \in SUBSET Row
    BY <1>1, <1>3 DEF RunStates, Attached
  <2>3. run' = [run EXCEPT ![r] = x]
    BY <1>1, <2>1
  <2>4. q.pc = "observations" /\ q.doomed = {}
    BY <1>1, <1>5 DEF ExportObservations, RunTyped
  <2>5. cut \/ {row \in q.stable : row[2] # "relation"} \subseteq payload
    <3> SUFFICES ASSUME ~cut, NEW row \in q.stable, row[2] # "relation"
                 PROVE  row \in payload
      OBVIOUS
    <3>1. /\ row \in rows /\ row[2] \in Kinds /\ Entity(row[1]) \in q.stable
          /\ row[1] \in Nat
      BY <1>1, <1>2 DEF Exported, IsGraph, Row
    <3>2. \A e \in q.stable : e[2] = "entity" => e \in q.payload
      BY <1>1, <2>2, <2>4 DEF Exported
    <3>3. Entity(row[1])[2] = "entity"
      BY <3>1, RowOf
    <3>4. Entity(row[1]) \in q.payload
      BY <3>1, <3>2, <3>3
    <3> QED
      BY <2>2, <3>1, <3>2, <3>4 DEF Attached, OfKind, Kinds
  <2> HIDE DEF cut, payload
  <2>6. /\ x \in RunStates /\ x.pc = "relations" /\ x.payload = payload
        /\ x.stable = q.stable /\ x.cut = cut /\ x.doomed = {}
    BY <1>1, <2>2, <2>4 DEF RunStates
  <2> HIDE DEF x
  <2>7. RunTyped(x) /\ Exported(x)
    BY <1>1, <2>5, <2>6 DEF RunTyped, Exported
  <2>8. Disk' /\ UNCHANGED <<rows, nextID, safe>>
    <3>1. UNCHANGED <<now, dir, failed, saved, rows, nextID, safe>>
      BY <1>5 DEF ExportObservations
    <3>2. now' \in {0} \cup Times
      BY <1>2, <3>1 DEF Disk
    <3> QED
      BY <1>2, <2>1, <3>1, <3>2, ReadsKeep
  <2> QED
    BY <2>3, <2>6, <2>7, <2>8, RunFrame
<1>6. CASE ExportRelations(r)
  <2>1. PICK got \in SUBSET OfKind("relation") :
          /\ Reads(OfKind("relation"), got)
          /\ run' = [run EXCEPT ![r].pc = "open", ![r].file = now',
                                ![r].payload = @ \cup got,
                                ![r].cut = @ \/ got # OfKind("relation")]
    BY <1>6 DEF ExportRelations
  <2> DEFINE cut == q.cut \/ got # OfKind("relation")
             payload == q.payload \cup got
             x == [q EXCEPT !.pc = "open", !.file = now', !.payload = payload,
                            !.cut = cut]
  <2>2. /\ cut \in BOOLEAN
        /\ cut \/ (~q.cut /\ got = OfKind("relation"))
        /\ payload \in SUBSET Row
    BY <1>1, <1>3 DEF RunStates
  <2>3. run' = [run EXCEPT ![r] = x]
    BY <1>1, <2>1
  <2>4. q.pc = "relations" /\ q.doomed = {} /\ now' \in Times
    BY <1>1, <1>6 DEF ExportRelations, RunTyped
  <2>5. cut \/ q.stable \subseteq payload
    <3> SUFFICES ASSUME ~cut, NEW row \in q.stable PROVE row \in payload
      OBVIOUS
    <3>1. row \in rows
      BY <1>1 DEF Exported
    <3>2. row[2] # "relation" => row \in q.payload
      BY <1>1, <2>2, <2>4 DEF Exported
    <3> QED
      BY <2>2, <3>1, <3>2 DEF OfKind
  <2> HIDE DEF cut, payload
  <2>6. /\ x \in RunStates /\ x.pc = "open" /\ x.payload = payload
        /\ x.stable = q.stable /\ x.cut = cut /\ x.doomed = {} /\ x.file \in Times
    BY <1>1, <2>2, <2>4 DEF RunStates
  <2> HIDE DEF x
  <2>7. RunTyped(x) /\ Exported(x)
    BY <1>1, <2>5, <2>6 DEF RunTyped, Exported
  <2>8. Disk' /\ UNCHANGED <<rows, nextID, safe>>
    <3>1. UNCHANGED <<dir, failed, saved, rows, nextID, safe>>
      BY <1>6 DEF ExportRelations
    <3> QED
      BY <1>2, <2>1, <2>4, <3>1, ReadsKeep
  <2> QED
    BY <2>3, <2>6, <2>7, <2>8, RunFrame
<1>7. CASE ExportFails(r)
  <2>1. /\ run' = [run EXCEPT ![r] = Idle]
        /\ Disk' /\ UNCHANGED <<rows, nextID, safe>>
    BY <1>2, <1>7 DEF ExportFails, Disk
  <2> QED
    BY <2>1, IdleKeeps, RunFrame
<1> QED
  BY <1>4, <1>5, <1>6, <1>7

LEMMA PartialTyped == Partial \in File /\ ~Partial.whole /\ Partial.rows = {}
BY DEF Partial, File

LEMMA OpenKeeps == ASSUME EInv, NEW r \in Runs, Open(r) PROVE EInv'
<1> DEFINE q == run[r]
           x == [q EXCEPT !.pc = "write"]
<1>1. /\ q \in RunStates /\ RunTyped(q) /\ Exported(q) /\ q.pc = "open"
      /\ run' = [run EXCEPT ![r] = x]
  BY DEF EInv, Typed, RunsTyped, RunTyped, Open
<1>2. /\ x \in RunStates /\ x.pc = "write" /\ x.payload = q.payload
      /\ x.stable = q.stable /\ x.cut = q.cut /\ x.doomed = q.doomed
      /\ x.file = q.file
  BY <1>1 DEF RunStates
<1> HIDE DEF x
<1>3. RunTyped(x) /\ Exported(x)
  BY <1>1, <1>2 DEF RunTyped, Exported
<1>4. UNCHANGED <<rows, nextID, safe>>
  BY DEF Open
<1>5. Disk'
  <2>1. q.file \in Times /\ UNCHANGED <<now, cuts, failed, saved>>
    BY <1>1 DEF RunTyped, Open
  <2>2. dir' = [m \in DOMAIN dir \cup {q.file} |->
                  IF m = q.file THEN Partial ELSE dir[m]]
    BY DEF Open
  <2>3. DOMAIN dir \in SUBSET Times /\ \A n \in DOMAIN dir : dir[n] \in File
    BY DEF EInv, Typed, Disk
  <2>4. DOMAIN dir' \in SUBSET Times /\ \A n \in DOMAIN dir' : dir'[n] \in File
    BY <2>1, <2>2, <2>3, PartialTyped
  <2> QED
    BY <2>1, <2>4 DEF EInv, Typed, Disk
<1> QED
  BY <1>1, <1>2, <1>3, <1>4, <1>5, RunFrame

\* The rows that a run saves nest with what is safe, so that one of the two is
\* all of them.
LEMMA WriteKeeps == ASSUME EInv, NEW r \in Runs, Write(r) PROVE EInv'
<1> DEFINE q == run[r]
           x == [Idle EXCEPT !.pc = "list"]
<1>1. /\ q \in RunStates /\ RunTyped(q) /\ Exported(q) /\ q.pc = "write"
      /\ run' = [run EXCEPT ![r] = x]
      /\ UNCHANGED <<rows, nextID, now, cuts, failed>>
  BY DEF EInv, Typed, RunsTyped, RunTyped, Write
<1>2. RunTyped(x) /\ Exported(x) /\ x.stable = {}
  BY IdleKeeps
<1> HIDE DEF x
<1>3. safe' \in {safe, safe \cup q.stable}
  BY DEF Write
<1>4. Nests(safe, q.stable)
  BY DEF EInv, Nested
<1>5. safe' \in {safe, q.stable}
  BY <1>3, <1>4 DEF Nests
<1>6. Tables'
  BY <1>1, <1>5 DEF EInv, Typed, Tables, Exported, IsGraph
<1>7. Disk'
  <2>1. saved' \in {0} \cup Times
    BY <1>1 DEF Write, RunTyped, EInv, Typed, Disk
  <2>2. PICK f \in File : dir' = [m \in DOMAIN dir |->
                                    IF m = q.file THEN f ELSE dir[m]]
    <3>1. [whole |-> TRUE, rows |-> q.payload] \in File
      BY <1>1 DEF RunStates, File
    <3> QED
      BY <3>1 DEF Write
  <2> QED
    BY <1>1, <2>1, <2>2 DEF EInv, Typed, Disk
<1>8. RunsTyped' /\ \A t \in Runs : run'[t] = IF t = r THEN x ELSE run[t]
  BY <1>1, <1>2 DEF EInv, Typed, RunsTyped
<1>9. \A t \in Runs : Exported(run[t])'
  BY <1>1, <1>2, <1>8 DEF EInv, Exported, IsGraph
<1>10. Nested'
  BY <1>2, <1>5, <1>8 DEF EInv, Nested, Nests
<1> QED
  BY <1>6, <1>7, <1>8, <1>9, <1>10 DEF EInv, Typed

\* A run lists, removes, fails or returns.
LEMMA PruneKeeps ==
    ASSUME EInv, NEW r \in Runs,
           \/ WriteFails(r) \/ ListFails(r) \/ List(r)
           \/ RemoveFile(r) \/ RemoveFails(r)
    PROVE  EInv'
<1>1. run[r].doomed \in SUBSET Times /\ Disk
  BY DEF EInv, Typed, RunsTyped, RunTyped, RunStates
<1>2. PICK x : /\ RunTyped(x) /\ Exported(x) /\ x.stable = {}
               /\ run' = [run EXCEPT ![r] = x]
  <2>1. CASE WriteFails(r) \/ ListFails(r)
    BY <2>1, IdleKeeps DEF WriteFails, ListFails
  <2>2. CASE List(r)
    <3>1. Doomed(DOMAIN dir) \in SUBSET Times
      BY <1>1 DEF Disk, Doomed, Beyond
    <3> QED
      BY <2>2, <3>1, IdleKeeps DEF List
  <2>3. CASE RemoveFile(r) \/ RemoveFails(r)
    <3>1. run' = [run EXCEPT ![r] = Pruning(run[r].doomed \ {Max(run[r].doomed)})]
      BY <2>3 DEF RemoveFile, RemoveFails
    <3>2. run[r].doomed \ {Max(run[r].doomed)} \in SUBSET Times
      BY <1>1
    <3> QED
      BY <3>1, <3>2, IdleKeeps
  <2> QED
    BY <2>1, <2>2, <2>3
<1>3. UNCHANGED <<rows, nextID, safe, now, cuts, saved>>
  BY DEF WriteFails, ListFails, List, RemoveFile, RemoveFails
<1>4. failed' \in Nat
  BY <1>1 DEF WriteFails, ListFails, List, RemoveFile, RemoveFails, Disk
<1>5. DOMAIN dir' \subseteq DOMAIN dir /\ \A n \in DOMAIN dir' : dir'[n] = dir[n]
  BY DEF WriteFails, ListFails, List, RemoveFile, RemoveFails
<1>6. Disk'
  BY <1>1, <1>3, <1>4, <1>5 DEF Disk
<1> QED
  BY <1>2, <1>3, <1>6, RunFrame

LEMMA RestartKeeps == ASSUME EInv, Restart PROVE EInv'
<1>1. /\ run' = [r \in Runs |-> Idle]
      /\ UNCHANGED <<now, rows, nextID, writes, dir, cuts, shared, safe, saved>>
  BY DEF Restart
<1>2. failed' \in Nat
  <2> DEFINE died == {r \in Runs : run[r].pc \in {"write", "list", "prune"}}
  <2>1. Cardinality(died) \in Nat
    BY BackupAssumption, FS_Subset, FS_CardinalityType
  <2> QED
    BY <2>1 DEF Restart, EInv, Typed, Disk
<1>3. Tables' /\ Disk'
  BY <1>1, <1>2 DEF EInv, Typed, Tables, Disk, IsGraph
<1>4. RunsTyped' /\ Nested' /\ \A r \in Runs : Exported(run[r])'
  BY <1>1, IdleKeeps DEF RunsTyped, Nested, Nests, Exported, IsGraph
<1> QED
  BY <1>3, <1>4 DEF EInv, Typed

LEMMA InitEInv == Init => EInv
<1> SUFFICES ASSUME Init PROVE EInv
  OBVIOUS
<1>1. Seed \subseteq Nat /\ Cardinality(Seed) \in Nat
  BY BackupAssumption, FS_CardinalityType
<1>2. rows \in SUBSET Row /\ IsGraph(rows)
  <2>1. \A e \in Seed : /\ Entity(e) \in Row /\ Entity(e)[1] = e
                        /\ Entity(e)[2] \in Kinds /\ Entity(e)[3] = e
    BY <1>1, RowOf DEF Kinds
  <2> QED
    BY <2>1 DEF Init, IsGraph
<1>3. Tables /\ Disk
  BY <1>1, <1>2 DEF Init, Tables, Disk
<1>4. RunsTyped /\ Nested /\ \A r \in Runs : Exported(run[r])
  BY IdleKeeps DEF Init, RunsTyped, Nested, Nests
<1> QED
  BY <1>3, <1>4 DEF EInv, Typed

LEMMA StepEInv == EInv /\ [Next]_vars => EInv'
<1> SUFFICES ASSUME EInv, [Next]_vars PROVE EInv'
  OBVIOUS
<1>1. CASE Requested
  BY <1>1, ChangeKeeps
<1>2. CASE \E r \in Runs : RunOnce(r)
  BY <1>2, ExportKeeps, OpenKeeps, WriteKeeps, PruneKeeps DEF RunOnce
<1>3. CASE Restart
  BY <1>3, RestartKeeps
<1>4. CASE UNCHANGED vars
  <2>1. Typed'
    BY <1>4 DEF vars, EInv, Typed, Tables, Disk, RunsTyped, IsGraph
  <2>2. \A r \in Runs : Exported(run[r])'
    BY <1>4 DEF vars, EInv, Exported, IsGraph
  <2>3. Nested'
    BY <1>4 DEF vars, EInv, Nested, Nests
  <2> QED
    BY <2>1, <2>2, <2>3 DEF EInv
<1> QED
  BY <1>1, <1>2, <1>3, <1>4 DEF Next

LEMMA EInvariance == Spec => []EInv
BY InitEInv, StepEInv, PTL DEF Spec

\* An export has every row that was stored throughout, and imports as a graph
\* (export.go Export).
THEOREM ExportsTheStable == Spec => []ExportHasTheStable
<1>1. EInv => ExportHasTheStable
  <2> SUFFICES ASSUME EInv, NEW r \in Runs, run[r].pc \in {"open", "write"}
               PROVE  /\ run[r].stable \subseteq run[r].payload \/ run[r].cut
                      /\ IsGraph(Restored(run[r].payload))
    BY DEF ExportHasTheStable
  <2> DEFINE payload == run[r].payload
  <2>1. payload \in SUBSET Row
    BY DEF EInv, Typed, RunsTyped, RunTyped, RunStates
  <2>2. run[r].stable \subseteq payload \/ run[r].cut
    BY DEF EInv, Exported
  <2> HIDE DEF payload
  <2>3. IsGraph(Restored(payload))
    <3> SUFFICES ASSUME NEW row \in Restored(payload)
                 PROVE  /\ row[2] \in Kinds
                        /\ Entity(row[1]) \in Restored(payload)
                        /\ Entity(row[3]) \in Restored(payload)
      BY DEF IsGraph
    <3>1. CASE row \in payload
      BY <2>1, <3>1 DEF Restored, Row
    <3>2. ASSUME NEW of \in payload, row = Entity(of[1]) \/ row = Entity(of[3])
          PROVE  /\ row[2] \in Kinds
                 /\ Entity(row[1]) \in Restored(payload)
                 /\ Entity(row[3]) \in Restored(payload)
      <4>1. of[1] \in Nat /\ of[3] \in Nat
        BY <2>1 DEF Row
      <4>2. PICK e \in {of[1], of[3]} : row = Entity(e)
        BY <3>2
      <4>3. row[1] = e /\ row[2] = "entity" /\ row[3] = e
        BY <4>1, <4>2, RowOf
      <4> QED
        BY <4>2, <4>3 DEF Kinds
    <3> QED
      BY <3>1, <3>2 DEF Restored
  <2> QED
    BY <2>2, <2>3 DEF payload
<1> QED
  BY <1>1, EInvariance, PTL

-----------------------------------------------------------------------------
(* Pruning                                                                 *)

\* Retention files newer than n are on disk.
Newer(n) == Cardinality({m \in DOMAIN dir : m > n}) >= Retention

\* What a run has still to remove is dispensable.
Pruned == \A r \in Runs : \A n \in run[r].doomed : Newer(n)

\* The file that a run is writing is its own and empty, unless it is shared or
\* dispensable.
Writing ==
    \A r \in Runs : run[r].pc = "write" =>
        LET n == run[r].file IN
        \/ n \in shared \/ Newer(n)
        \/ /\ n \in DOMAIN dir /\ dir[n] = Partial
           /\ \A t \in Runs : run[t].pc = "write" /\ run[t].file = n => t = r

\* The last file that had all that is safe is there, whole, unless it is shared
\* or dispensable.
SafeKept ==
    \/ safe = {} \/ saved \in shared \/ Newer(saved)
    \/ saved \in DOMAIN dir /\ dir[saved].whole /\ safe \subseteq dir[saved].rows

Wholes == \A n \in DOMAIN dir : dir[n].whole \/ dir[n] = Partial

PInv == Pruned /\ Writing /\ SafeKept /\ Wholes

LEMMA NewerOfMore ==
    ASSUME Disk, Disk', DOMAIN dir \subseteq DOMAIN dir', NEW n, Newer(n)
    PROVE  Newer(n)'
<1> DEFINE before == {m \in DOMAIN dir : m > n}
           after == {m \in DOMAIN dir' : m > n}
<1>1. before \subseteq after /\ before \in SUBSET Times /\ after \in SUBSET Times
  BY DEF Disk
<1>2. /\ IsFiniteSet(after) /\ Cardinality(after) \in Nat
      /\ Cardinality(before) \in Nat /\ Cardinality(before) >= Retention
  BY <1>1, TimesFinite DEF Newer
<1> HIDE DEF before, after
<1>3. Cardinality(before) <= Cardinality(after)
  BY <1>1, <1>2, FS_Subset
<1>4. Retention \in Nat
  BY BackupAssumption
<1>5. Cardinality(after) >= Retention
  BY <1>2, <1>3, <1>4
<1> QED
  BY <1>5 DEF Newer, after

\* A dispensable file can go, and what was dispensable stays so.
LEMMA NewerOfLess ==
    ASSUME Disk, Disk', NEW k \in Times, Newer(k), DOMAIN dir' = DOMAIN dir \ {k},
           NEW n \in {0} \cup Times, Newer(n)
    PROVE  Newer(n)'
<1> DEFINE at(j) == {m \in DOMAIN dir : m > j}
           after == {m \in DOMAIN dir' : m > n}
<1>1. k \in Nat /\ n \in Nat /\ \A m \in DOMAIN dir : m \in Nat
  <2>1. DOMAIN dir \in SUBSET Times
    BY DEF Disk
  <2>2. Times \subseteq Nat
    BY TimesAreNumbers
  <2>3. \A m \in DOMAIN dir : m \in Nat
    BY <2>1, <2>2
  <2>4. k \in Nat /\ n \in Nat
    BY <2>2
  <2> QED
    BY <2>3, <2>4
<1>2. DOMAIN dir \in SUBSET Times
  BY DEF Disk
<1>3. /\ at(k) \in SUBSET Times /\ at(n) \in SUBSET Times /\ after \in SUBSET Times
  <2>1. at(k) \in SUBSET Times
    BY <1>2
  <2>2. at(n) \in SUBSET Times
    BY <1>2
  <2>3. DOMAIN dir' \in SUBSET Times
    BY DEF Disk
  <2>4. after \in SUBSET Times
    BY <2>3
  <2> QED
    BY <2>1, <2>2, <2>4
<1>4. at(k) \subseteq after \/ at(n) \subseteq after
  <2>1. CASE k > n
    <3>1. \A m \in DOMAIN dir : m > k => m > n /\ m # k
      BY <1>1, <2>1
    <3>2. at(k) \subseteq after
      BY <3>1
    <3> QED
      BY <3>2
  <2>2. CASE ~(k > n)
    <3>1. \A m \in DOMAIN dir : m > n => m # k
      BY <1>1, <2>2
    <3>2. at(n) \subseteq after
      BY <3>1
    <3> QED
      BY <3>2
  <2> QED
    BY <2>1, <2>2
<1>5. /\ IsFiniteSet(after) /\ Cardinality(after) \in Nat
      /\ Cardinality(at(k)) \in Nat /\ Cardinality(at(n)) \in Nat
  BY <1>3, TimesFinite
<1>6. Cardinality(at(k)) >= Retention /\ Cardinality(at(n)) >= Retention
  BY DEF Newer
<1>7. \E S : S \subseteq after /\ Cardinality(S) \in Nat /\ Cardinality(S) >= Retention
  BY <1>4, <1>5, <1>6
<1> HIDE DEF after
<1>8. PICK S : S \subseteq after /\ Cardinality(S) \in Nat /\ Cardinality(S) >= Retention
  BY <1>7
<1>9. Cardinality(S) <= Cardinality(after)
  BY <1>5, <1>8, FS_Subset
<1>10. Retention \in Nat
  BY BackupAssumption
<1>11. Cardinality(after) >= Retention
  BY <1>5, <1>8, <1>9, <1>10
<1> QED
  BY <1>11 DEF Newer, after

\* Steps of one run that leave the files alone and the writing to others.
LEMMA LeaveFrame ==
    ASSUME PInv, EInv, NEW r \in Runs, NEW x, x.pc # "write",
           \A n \in x.doomed : Newer(n),
           run' = [run EXCEPT ![r] = x],
           UNCHANGED <<dir, shared, saved, safe>>
    PROVE  PInv'
<1>1. \A t \in Runs : run'[t] = IF t = r THEN x ELSE run[t]
  BY DEF EInv, Typed, RunsTyped
<1>2. \A n : Newer(n)' <=> Newer(n)
  BY DEF Newer
<1>3. Pruned'
  BY <1>1, <1>2 DEF PInv, Pruned
<1>4. Writing'
  BY <1>1, <1>2 DEF PInv, Writing
<1>5. SafeKept' /\ Wholes'
  BY <1>2 DEF PInv, SafeKept, Wholes
<1> QED
  BY <1>3, <1>4, <1>5 DEF PInv

LEMMA RequestKeepsFiles == ASSUME PInv, EInv, Requested PROVE PInv'
<1>1. PICK new : Change(new)
  BY RequestKeeps DEF EInv, Typed
<1>2. /\ UNCHANGED <<dir, shared, saved>> /\ safe' \subseteq safe
      /\ run' = [r \in Runs |-> [run[r] EXCEPT !.stable = @ \cap new]]
  BY <1>1 DEF Change
<1>3. \A r \in Runs : /\ run'[r].pc = run[r].pc /\ run'[r].file = run[r].file
                      /\ run'[r].doomed = run[r].doomed
  <2> TAKE r \in Runs
  <2>1. run[r] \in RunStates
    BY DEF EInv, Typed, RunsTyped, RunTyped
  <2> QED
    BY <1>2, <2>1 DEF RunStates
<1>4. \A n : Newer(n)' <=> Newer(n)
  <2>1. dir' = dir
    BY <1>2
  <2> QED
    BY <2>1 DEF Newer
<1>5. Pruned'
  BY <1>3, <1>4 DEF PInv, Pruned
<1>6. Writing'
  <2>1. dir' = dir /\ shared' = shared
    BY <1>2
  <2> QED
    BY <1>3, <1>4, <2>1 DEF PInv, Writing
<1>7. SafeKept' /\ Wholes'
  BY <1>2, <1>4 DEF PInv, SafeKept, Wholes
<1> QED
  BY <1>5, <1>6, <1>7 DEF PInv

\* An export moves its own run on, which has nothing to write or remove yet.
LEMMA ExportMoves ==
    ASSUME EInv, NEW r \in Runs,
           \/ ExportEntities(r) \/ ExportObservations(r) \/ ExportRelations(r)
           \/ ExportFails(r)
    PROVE  /\ \E x : /\ run' = [run EXCEPT ![r] = x] /\ x.doomed = {}
                     /\ x.pc \in {"idle", "observations", "relations", "open"}
           /\ run[r].pc \in {"idle", "observations", "relations", "open"}
           /\ UNCHANGED <<dir, failed, shared, saved, safe>>
<1> DEFINE q == run[r]
<1>1. q \in RunStates /\ RunTyped(q) /\ DOMAIN run = Runs
  BY DEF EInv, Typed, RunsTyped, RunTyped
<1>2. /\ run[r].pc \in {"idle", "observations", "relations", "open"}
      /\ UNCHANGED <<dir, failed, shared, saved, safe>>
  BY DEF ExportEntities, ExportObservations, ExportRelations, ExportFails
<1>3. Idle.pc = "idle" /\ Idle.doomed = {}
  BY DEF Idle
<1>4. CASE ExportFails(r)
  BY <1>2, <1>3, <1>4 DEF ExportFails
<1>5. CASE ExportEntities(r)
  <2>1. PICK got, cut : run' = [run EXCEPT ![r] = [Idle EXCEPT !.pc = "observations",
                             !.payload = got, !.stable = rows, !.cut = cut]]
    BY <1>5 DEF ExportEntities
  <2> DEFINE x == [Idle EXCEPT !.pc = "observations", !.payload = got,
                               !.stable = rows, !.cut = cut]
  <2>2. x.pc = "observations" /\ x.doomed = {}
    BY DEF Idle
  <2> QED
    BY <1>2, <2>1, <2>2
<1>6. CASE ExportObservations(r)
  <2>1. PICK got : run' = [run EXCEPT ![r].pc = "relations",
                      ![r].payload = Attached(@, got),
                      ![r].cut = @ \/ got # OfKind("observation")]
    BY <1>6 DEF ExportObservations
  <2> DEFINE payload == Attached(q.payload, got)
             cut == q.cut \/ got # OfKind("observation")
             x == [q EXCEPT !.pc = "relations", !.payload = payload, !.cut = cut]
  <2>2. run' = [run EXCEPT ![r] = x]
    BY <1>1, <2>1
  <2>3. x.pc = "relations" /\ x.doomed = {}
    BY <1>1, <1>6 DEF RunStates, RunTyped, ExportObservations
  <2> QED
    BY <1>2, <2>2, <2>3
<1>7. CASE ExportRelations(r)
  <2>1. PICK got : run' = [run EXCEPT ![r].pc = "open", ![r].file = now',
                      ![r].payload = @ \cup got,
                      ![r].cut = @ \/ got # OfKind("relation")]
    BY <1>7 DEF ExportRelations
  <2> DEFINE payload == q.payload \cup got
             cut == q.cut \/ got # OfKind("relation")
             x == [q EXCEPT !.pc = "open", !.file = now', !.payload = payload,
                            !.cut = cut]
  <2>2. run' = [run EXCEPT ![r] = x]
    BY <1>1, <2>1
  <2>3. x.pc = "open" /\ x.doomed = {}
    BY <1>1, <1>7 DEF RunStates, RunTyped, ExportRelations
  <2> QED
    BY <1>2, <2>2, <2>3
<1> QED
  BY <1>4, <1>5, <1>6, <1>7

LEMMA ExportKeepsFiles ==
    ASSUME PInv, EInv, NEW r \in Runs,
           \/ ExportEntities(r) \/ ExportObservations(r) \/ ExportRelations(r)
           \/ ExportFails(r) \/ WriteFails(r) \/ ListFails(r)
    PROVE  PInv'
<1>1. PICK x : /\ run' = [run EXCEPT ![r] = x] /\ x.doomed = {}
               /\ x.pc \in {"idle", "observations", "relations", "open"}
               /\ UNCHANGED <<dir, shared, saved, safe>>
  <2>1. Idle.pc = "idle" /\ Idle.doomed = {}
    BY DEF Idle
  <2>2. CASE WriteFails(r) \/ ListFails(r)
    BY <2>1, <2>2 DEF WriteFails, ListFails
  <2> QED
    BY <2>2, ExportMoves
<1>2. x.pc # "write"
  BY <1>1
<1> QED
  BY <1>1, <1>2, LeaveFrame

LEMMA OpenKeepsFiles == ASSUME PInv, EInv, NEW r \in Runs, Open(r) PROVE PInv'
<1> DEFINE n == run[r].file
           x == [run[r] EXCEPT !.pc = "write"]
<1>1. /\ n \in Times /\ run[r] \in RunStates /\ run[r].pc = "open"
      /\ run[r].doomed = {}
  BY DEF EInv, Typed, RunsTyped, RunTyped, Open
<1>2. x.pc = "write" /\ x.doomed = {} /\ x.file = n
  BY <1>1 DEF RunStates
<1>3. \A t \in Runs : run'[t] = IF t = r THEN x ELSE run[t]
  BY DEF EInv, Typed, RunsTyped, Open
<1> HIDE DEF x
<1>4. /\ DOMAIN dir' = DOMAIN dir \cup {n}
      /\ \A m \in DOMAIN dir' : dir'[m] = IF m = n THEN Partial ELSE dir[m]
      /\ shared \subseteq shared' /\ (n \in DOMAIN dir => n \in shared')
      /\ UNCHANGED <<safe, saved>>
  BY DEF Open
<1>5. \A m : Newer(m) => Newer(m)'
  <2>1. Disk /\ Disk'
    BY OpenKeeps DEF EInv, Typed
  <2> QED
    BY <1>4, <2>1, NewerOfMore
<1> HIDE DEF n
<1>6. Pruned'
  BY <1>2, <1>3, <1>5 DEF PInv, Pruned
<1>7. Writing'
  <2> SUFFICES ASSUME NEW t \in Runs, NEW m, run'[t].pc = "write",
                      run'[t].file = m, m \notin shared', ~Newer(m)'
               PROVE  /\ m \in DOMAIN dir' /\ dir'[m] = Partial
                      /\ \A u \in Runs :
                            run'[u].pc = "write" /\ run'[u].file = m => u = t
    BY DEF Writing
  <2>1. CASE t = r
    <3>1. m = n /\ n \notin DOMAIN dir
      BY <1>2, <1>3, <1>4, <2>1
    <3>2. n \in DOMAIN dir' /\ dir'[n] = Partial
      BY <1>4
    <3>3. ASSUME NEW u \in Runs, run'[u].pc = "write", run'[u].file = n
          PROVE  u = r
      <4>1. CASE u # r
        <5>1. run[u].pc = "write" /\ run[u].file = n
          BY <1>3, <3>3, <4>1
        <5>2. n \in shared \/ Newer(n)
          BY <3>1, <5>1 DEF PInv, Writing
        <5> QED
          BY <1>4, <1>5, <3>1, <5>2
      <4> QED
        BY <4>1
    <3> QED
      BY <2>1, <3>1, <3>2, <3>3
  <2>2. CASE t # r
    <3>1. run[t].pc = "write" /\ run[t].file = m
      BY <1>3, <2>2
    <3>2. /\ m \in DOMAIN dir /\ dir[m] = Partial
          /\ \A u \in Runs : run[u].pc = "write" /\ run[u].file = m => u = t
      BY <1>4, <1>5, <3>1 DEF PInv, Writing
    <3>3. m # n
      BY <1>4, <3>2
    <3> QED
      BY <1>2, <1>3, <1>4, <3>2, <3>3
  <2> QED
    BY <2>1, <2>2
<1>8. SafeKept'
  BY <1>4, <1>5 DEF PInv, SafeKept
<1>9. Wholes'
  BY <1>4 DEF PInv, Wholes
<1> QED
  BY <1>6, <1>7, <1>8, <1>9 DEF PInv

\* A run that holds less than what is safe leaves it, and what has it, as it was.
LEMMA WriteKeepsFiles == ASSUME PInv, EInv, NEW r \in Runs, Write(r) PROVE PInv'
<1> DEFINE q == run[r]
           n == run[r].file
           x == [Idle EXCEPT !.pc = "list"]
           whole == [whole |-> TRUE, rows |-> q.payload]
<1>1. q.pc = "write" /\ (q.cut \/ q.stable \subseteq q.payload)
      /\ Nests(safe, q.stable)
  BY DEF EInv, Exported, Nested, Write
<1>2. x.pc = "list" /\ x.doomed = {}
  BY DEF Idle
<1>3. \A t \in Runs : run'[t] = IF t = r THEN x ELSE run[t]
  BY DEF EInv, Typed, RunsTyped, Write
<1> HIDE DEF x
<1>4. /\ DOMAIN dir' = DOMAIN dir /\ shared' = shared
      /\ \A m \in DOMAIN dir' : dir'[m] = IF m = n THEN whole ELSE dir[m]
  BY DEF Write
<1>5. /\ safe' = IF q.cut THEN safe ELSE safe \cup q.stable
      /\ saved' = IF q.cut \/ ~(safe' \subseteq q.payload) THEN saved ELSE n
  BY DEF Write
<1>6. whole.whole = TRUE /\ whole.rows = q.payload
  OBVIOUS
<1> HIDE DEF whole
<1>7. \A m : Newer(m)' <=> Newer(m)
  <2>1. DOMAIN dir' = DOMAIN dir
    BY <1>4
  <2> QED
    BY <2>1 DEF Newer
<1>8. \/ n \in shared \/ Newer(n)
      \/ /\ n \in DOMAIN dir /\ dir[n] = Partial
         /\ \A t \in Runs : run[t].pc = "write" /\ run[t].file = n => t = r
  BY <1>1 DEF PInv, Writing
<1> HIDE DEF n
<1>9. Pruned'
  BY <1>2, <1>3, <1>7 DEF PInv, Pruned
<1>10. Writing'
  <2> SUFFICES ASSUME NEW t \in Runs, NEW m, run'[t].pc = "write",
                      run'[t].file = m, m \notin shared', ~Newer(m)'
               PROVE  /\ m \in DOMAIN dir' /\ dir'[m] = Partial
                      /\ \A u \in Runs :
                            run'[u].pc = "write" /\ run'[u].file = m => u = t
    BY DEF Writing
  <2>1. t # r /\ run[t].pc = "write" /\ run[t].file = m
    BY <1>2, <1>3
  <2>2. /\ m \in DOMAIN dir /\ dir[m] = Partial
        /\ \A u \in Runs : run[u].pc = "write" /\ run[u].file = m => u = t
    BY <1>4, <1>7, <2>1 DEF PInv, Writing
  <2>3. m # n
    BY <1>1, <2>1, <2>2 DEF n
  <2> QED
    BY <1>2, <1>3, <1>4, <2>2, <2>3
<1>11. SafeKept'
  <2>1. CASE ~q.cut /\ safe' \subseteq q.payload
    <3>1. saved' = n
      BY <1>5, <2>1
    <3> QED
      BY <1>4, <1>6, <1>7, <1>8, <2>1, <3>1 DEF SafeKept
  <2>2. CASE ~(~q.cut /\ safe' \subseteq q.payload)
    <3>1. safe' = safe /\ saved' = saved
      BY <1>1, <1>5, <2>2 DEF Nests
    <3>2. saved = n => saved \in shared \/ Newer(saved) \/ ~dir[saved].whole
      BY <1>8, PartialTyped
    <3> QED
      BY <1>4, <1>7, <3>1, <3>2 DEF PInv, SafeKept
  <2> QED
    BY <2>1, <2>2
<1>12. Wholes'
  BY <1>4, <1>6 DEF PInv, Wholes
<1> QED
  BY <1>9, <1>10, <1>11, <1>12 DEF PInv

\* A run that prunes removes what Retention newer files make dispensable.
LEMMA RemovedIsDispensable ==
    ASSUME PInv, EInv, NEW r \in Runs, run[r].pc = "prune"
    PROVE  /\ Max(run[r].doomed) \in Times /\ Newer(Max(run[r].doomed))
           /\ Max(run[r].doomed) \in run[r].doomed
<1>1. run[r].doomed \in SUBSET (1 .. MaxTime) /\ run[r].doomed # {}
  BY DEF EInv, Typed, RunsTyped, RunTyped, RunStates, Times
<1>2. MaxTime \in Nat
  BY BackupAssumption
<1>3. Max(run[r].doomed) \in run[r].doomed
  BY <1>1, <1>2, MaxIsIn
<1> QED
  BY <1>1, <1>3 DEF PInv, Pruned, Times

LEMMA PruneKeepsFiles ==
    ASSUME PInv, EInv, NEW r \in Runs, List(r) \/ RemoveFile(r) \/ RemoveFails(r)
    PROVE  PInv'
<1> DEFINE n == Max(run[r].doomed)
           rest == run[r].doomed \ {n}
<1>1. \A files : Pruning(files).pc # "write" /\ Pruning(files).doomed = files
  BY DEF Pruning, Idle
<1>2. \A m \in rest : Newer(m)
  BY DEF PInv, Pruned
<1>3. CASE List(r)
  <2>1. \A m \in Doomed(DOMAIN dir) : Newer(m)
    BY DEF Doomed, Beyond, Newer
  <2>2. /\ run' = [run EXCEPT ![r] = Pruning(Doomed(DOMAIN dir))]
        /\ UNCHANGED <<dir, shared, saved, safe>>
    BY <1>3 DEF List
  <2>3. LET x == Pruning(Doomed(DOMAIN dir)) IN
           x.pc # "write" /\ \A m \in x.doomed : Newer(m)
    BY <1>1, <2>1
  <2> QED
    BY <2>2, <2>3, LeaveFrame
<1>4. CASE RemoveFails(r)
  <2>1. /\ run' = [run EXCEPT ![r] = Pruning(rest)]
        /\ UNCHANGED <<dir, shared, saved, safe>>
    BY <1>4 DEF RemoveFails
  <2> QED
    BY <1>1, <1>2, <2>1, LeaveFrame
<1>5. CASE RemoveFile(r)
  <2>1. n \in Times /\ Newer(n)
    BY <1>5, RemovedIsDispensable DEF RemoveFile
  <2>2. /\ DOMAIN dir' = DOMAIN dir \ {n} /\ UNCHANGED <<shared, saved, safe>>
        /\ \A m \in DOMAIN dir' : dir'[m] = dir[m]
        /\ run' = [run EXCEPT ![r] = Pruning(rest)]
    BY <1>5 DEF RemoveFile
  <2>3. \A t \in Runs : run'[t] = IF t = r THEN Pruning(rest) ELSE run[t]
    BY <2>2 DEF EInv, Typed, RunsTyped
  <2>4. Disk /\ Disk'
    BY <1>5, PruneKeeps DEF EInv, Typed
  <2> HIDE DEF n, rest
  <2>5. \A m \in {0} \cup Times : Newer(m) => Newer(m)'
    BY <2>1, <2>2, <2>4, NewerOfLess
  <2>6. /\ saved \in {0} \cup Times
        /\ \A t \in Runs : /\ run[t].doomed \subseteq Times
                           /\ run[t].file \in {0} \cup Times
    BY DEF EInv, Typed, Disk, RunsTyped, RunTyped, RunStates
  <2>7. Pruned'
    <3> SUFFICES ASSUME NEW t \in Runs, NEW m \in run'[t].doomed PROVE Newer(m)'
      BY DEF Pruned
    <3>1. m \in run[t].doomed /\ m \in Times /\ Newer(m)
      BY <1>1, <2>3, <2>6 DEF PInv, Pruned, rest
    <3> QED
      BY <2>5, <3>1
  <2>8. Writing'
    <3> SUFFICES ASSUME NEW t \in Runs, NEW m, run'[t].pc = "write",
                        run'[t].file = m, m \notin shared', ~Newer(m)'
                 PROVE  /\ m \in DOMAIN dir' /\ dir'[m] = Partial
                        /\ \A u \in Runs :
                              run'[u].pc = "write" /\ run'[u].file = m => u = t
      BY DEF Writing
    <3>1. run[t].pc = "write" /\ run[t].file = m /\ m \in {0} \cup Times
      BY <1>1, <2>3, <2>6
    <3>2. m # n /\ ~Newer(m)
      BY <2>1, <2>5, <3>1
    <3>3. /\ m \in DOMAIN dir /\ dir[m] = Partial
          /\ \A u \in Runs : run[u].pc = "write" /\ run[u].file = m => u = t
      BY <2>2, <3>1, <3>2 DEF PInv, Writing
    <3> QED
      BY <1>1, <2>2, <2>3, <3>2, <3>3
  <2>9. SafeKept'
    <3>1. saved = n => Newer(saved)'
      BY <2>1, <2>2, <2>5
    <3>2. Newer(saved) => Newer(saved)'
      BY <2>2, <2>5, <2>6
    <3> QED
      BY <2>2, <3>1, <3>2 DEF PInv, SafeKept
  <2>10. Wholes'
    BY <2>2 DEF PInv, Wholes
  <2> QED
    BY <2>7, <2>8, <2>9, <2>10 DEF PInv
<1> QED
  BY <1>3, <1>4, <1>5

LEMMA InitPInv == Init => PInv
<1> SUFFICES ASSUME Init PROVE PInv
  OBVIOUS
<1>1. Pruned /\ Writing
  BY DEF Init, Idle, Pruned, Writing
<1>2. SafeKept /\ Wholes
  BY DEF Init, SafeKept, Wholes
<1> QED
  BY <1>1, <1>2 DEF PInv

LEMMA StepPInv == PInv /\ EInv /\ [Next]_vars => PInv'
<1> SUFFICES ASSUME PInv, EInv, [Next]_vars PROVE PInv'
  OBVIOUS
<1>1. CASE Requested
  BY <1>1, RequestKeepsFiles
<1>2. CASE \E r \in Runs : RunOnce(r)
  BY <1>2, ExportKeepsFiles, OpenKeepsFiles, WriteKeepsFiles, PruneKeepsFiles
     DEF RunOnce
<1>3. ASSUME UNCHANGED <<dir, shared, saved, safe>>,
             UNCHANGED run \/ \A r \in Runs : run'[r] = Idle
      PROVE  PInv'
  <2>1. Idle.pc = "idle" /\ Idle.doomed = {}
    BY DEF Idle
  <2>2. \A n : Newer(n)' <=> Newer(n)
    BY <1>3 DEF Newer
  <2>3. Pruned' /\ Writing'
    BY <1>3, <2>1, <2>2 DEF PInv, Pruned, Writing
  <2>4. SafeKept' /\ Wholes'
    BY <1>3, <2>2 DEF PInv, SafeKept, Wholes
  <2> QED
    BY <2>3, <2>4 DEF PInv
<1>4. CASE Restart
  BY <1>3, <1>4 DEF Restart
<1>5. CASE UNCHANGED vars
  BY <1>3, <1>5 DEF vars
<1> QED
  BY <1>1, <1>2, <1>4, <1>5 DEF Next

LEMMA PInvariance == Spec => [](EInv /\ PInv)
BY InitEInv, StepEInv, InitPInv, StepPInv, PTL DEF Spec

\* However many runs prune from listings of any age, none removes a file that
\* is among the newest Retention (scheduler.go prune).
THEOREM NewestAreKept == Spec => PruneKeepsNewest
<1>1. EInv /\ PInv /\ [Next]_vars =>
         [\A n \in DOMAIN dir \ DOMAIN dir' :
             Cardinality({m \in DOMAIN dir' : m > n}) >= Retention]_vars
  <2> SUFFICES ASSUME EInv, PInv, Next, NEW n \in DOMAIN dir \ DOMAIN dir'
               PROVE  Cardinality({m \in DOMAIN dir' : m > n}) >= Retention
    OBVIOUS
  <2>1. PICK r \in Runs : RemoveFile(r)
    <3>1. CASE Requested
      BY <3>1, ChangeKeeps
    <3>2. ASSUME NEW r \in Runs, RunOnce(r), ~RemoveFile(r) PROVE FALSE
      BY <3>2 DEF RunOnce, ExportEntities, ExportObservations,
            ExportRelations, ExportFails, Open, Write, WriteFails, List, ListFails,
            RemoveFails
    <3>3. CASE Restart
      BY <3>3 DEF Restart
    <3> QED
      BY <3>1, <3>2, <3>3 DEF Next
  <2>2. DOMAIN dir' = DOMAIN dir \ {n} /\ Newer(n)
    BY <2>1, RemovedIsDispensable DEF RemoveFile
  <2>3. n \in Nat
    BY TimesAreNumbers DEF EInv, Typed, Disk
  <2>4. {m \in DOMAIN dir' : m > n} = {m \in DOMAIN dir : m > n}
    BY <2>2, <2>3
  <2> QED
    BY <2>2, <2>4 DEF Newer
<1> QED
  BY <1>1, PInvariance, PTL DEF Spec, PruneKeepsNewest

\* What a successful run has backed up can be restored from one file until
\* Retention newer ones are there (scheduler.go RunOnce, prune).
THEOREM SafeStaysRestorable == Spec => []SafeIsRestorable
<1>1. PInv => SafeIsRestorable
  <2> SUFFICES ASSUME PInv, safe # {}, saved \notin shared,
                      \A n \in DOMAIN dir : ~(dir[n].whole /\ safe \subseteq dir[n].rows)
               PROVE  Cardinality({n \in DOMAIN dir :
                         n > saved /\ ~(safe \subseteq dir[n].rows)}) >= Retention
    BY DEF SafeIsRestorable
  <2>1. Newer(saved)
    BY DEF PInv, SafeKept
  <2>2. \A n \in DOMAIN dir : ~(safe \subseteq dir[n].rows)
    BY PartialTyped DEF PInv, Wholes
  <2>3. {n \in DOMAIN dir : n > saved /\ ~(safe \subseteq dir[n].rows)}
           = {n \in DOMAIN dir : n > saved}
    BY <2>2
  <2> QED
    BY <2>1, <2>3 DEF Newer
<1> QED
  BY <1>1, PInvariance, PTL
-----------------------------------------------------------------------------
(* The number of files                                                     *)

Busy == {r \in Runs : run[r].pc \in {"write", "list", "prune"}}

\* The files left once these runs have removed what they have to.
Left(P) == DOMAIN dir \ UNION {run[r].doomed : r \in P}

\* One file more for each failure and for each other run on its way.
BoundedAt(P) == Cardinality(Left(P)) <= Retention + failed + Cardinality(Busy \ P)

Bounded == \A P \in SUBSET {r \in Runs : run[r].pc = "prune"} : BoundedAt(P)

LEMMA OneMore ==
    ASSUME NEW S, IsFiniteSet(S), NEW e, NEW T, T \subseteq S \cup {e}
    PROVE  /\ Cardinality(S) \in Nat /\ Cardinality(T) \in Nat
           /\ Cardinality(T) <= Cardinality(S) + 1
           /\ e \notin S => Cardinality(S \cup {e}) = Cardinality(S) + 1
<1>1. /\ IsFiniteSet(S \cup {e})
      /\ \/ e \in S /\ Cardinality(S \cup {e}) = Cardinality(S)
         \/ e \notin S /\ Cardinality(S \cup {e}) = Cardinality(S) + 1
  BY FS_AddElement
<1>2. /\ IsFiniteSet(T) /\ Cardinality(T) <= Cardinality(S \cup {e})
  BY <1>1, FS_Subset
<1>3. Cardinality(S) \in Nat /\ Cardinality(T) \in Nat
  BY <1>2, FS_CardinalityType
<1> QED
  BY <1>1, <1>2, <1>3

LEMMA CountsAreNumbers ==
    ASSUME NEW files \in SUBSET Times, NEW runs \in SUBSET Runs
    PROVE  /\ IsFiniteSet(files) /\ Cardinality(files) \in Nat
           /\ IsFiniteSet(runs) /\ Cardinality(runs) \in Nat
           /\ Retention \in Nat
<1>1. IsFiniteSet(Runs) /\ Retention \in Nat
  BY BackupAssumption
<1>2. IsFiniteSet(runs)
  BY <1>1, FS_Subset
<1> QED
  BY <1>1, <1>2, TimesFinite, FS_CardinalityType

\* The files F become G, the runs R on their way S and the failures f g.
Made(F, G, R, S, f, g) ==
    \/ G \subseteq F /\ g >= f /\ R \subseteq S
    \/ g = f + 1 /\ R \subseteq S /\ \E n : G \subseteq F \cup {n}
    \/ g = f + 1 /\ G \subseteq F /\ \E r : R \subseteq S \cup {r}
    \/ /\ g = f
       /\ \E n, r : G \subseteq F \cup {n} /\ r \notin R /\ R \cup {r} \subseteq S

LEMMA MadeKeeps ==
    ASSUME NEW F \in SUBSET Times, NEW G \in SUBSET Times,
           NEW R \in SUBSET Runs, NEW S \in SUBSET Runs,
           NEW f \in Nat, NEW g \in Nat, Made(F, G, R, S, f, g),
           Cardinality(F) <= Retention + f + Cardinality(R)
    PROVE  Cardinality(G) <= Retention + g + Cardinality(S)
<1>1. /\ Cardinality(F) \in Nat /\ Cardinality(G) \in Nat
      /\ Cardinality(R) \in Nat /\ Cardinality(S) \in Nat /\ Retention \in Nat
      /\ IsFiniteSet(F) /\ IsFiniteSet(R) /\ IsFiniteSet(S)
  BY CountsAreNumbers
<1>2. G \subseteq F => Cardinality(G) <= Cardinality(F)
  BY <1>1, FS_Subset
<1>3. R \subseteq S => Cardinality(R) <= Cardinality(S)
  BY <1>1, FS_Subset
<1>4. \A n : G \subseteq F \cup {n} => Cardinality(G) <= Cardinality(F) + 1
  BY <1>1, OneMore
<1>5. CASE G \subseteq F /\ g >= f /\ R \subseteq S
  BY <1>1, <1>2, <1>3, <1>5
<1>6. ASSUME g = f + 1, R \subseteq S, NEW n, G \subseteq F \cup {n}
      PROVE  Cardinality(G) <= Retention + g + Cardinality(S)
  BY <1>1, <1>3, <1>4, <1>6
<1>7. ASSUME g = f + 1, G \subseteq F, NEW r, R \subseteq S \cup {r}
      PROVE  Cardinality(G) <= Retention + g + Cardinality(S)
  <2>1. Cardinality(R) <= Cardinality(S) + 1
    BY <1>1, <1>7, OneMore
  <2> QED
    BY <1>1, <1>2, <1>7, <2>1
<1>8. ASSUME g = f, NEW n, NEW r, G \subseteq F \cup {n}, r \notin R,
             R \cup {r} \subseteq S
      PROVE  Cardinality(G) <= Retention + g + Cardinality(S)
  <2>1. Cardinality(R \cup {r}) = Cardinality(R) + 1
    BY <1>1, <1>8, OneMore
  <2>2. Cardinality(R \cup {r}) <= Cardinality(S)
    BY <1>1, <1>8, FS_Subset
  <2>3. Cardinality(R) + 1 <= Cardinality(S)
    BY <2>1, <2>2
  <2> QED
    BY <1>1, <1>4, <1>8, <2>3
<1> QED
  BY <1>5, <1>6, <1>7, <1>8 DEF Made

LEMMA BoundStep ==
    ASSUME Disk, Disk', NEW P, NEW Q, BoundedAt(P),
           Made(Left(P), Left(Q)', Busy \ P, Busy' \ Q, failed, failed')
    PROVE  BoundedAt(Q)'
<1>1. Left(P) \in SUBSET Times /\ Left(Q)' \in SUBSET Times
  BY DEF Disk, Left
<1>2. Busy \ P \in SUBSET Runs /\ Busy' \ Q \in SUBSET Runs
  BY DEF Busy
<1>3. failed \in Nat /\ failed' \in Nat
  BY DEF Disk
<1>4. Cardinality(Left(P)) <= Retention + failed + Cardinality(Busy \ P)
  BY DEF BoundedAt
<1>5. Cardinality(Left(Q)') <= Retention + failed' + Cardinality(Busy' \ Q)
  BY <1>1, <1>2, <1>3, <1>4, MadeKeeps
<1> QED
  BY <1>5 DEF BoundedAt

\* Every set of runs that prune after the step has one before it.
LEMMA BoundedStep ==
    ASSUME EInv, EInv', Bounded,
           \A Q \in SUBSET {r \in Runs : run'[r].pc = "prune"} :
              \/ BoundedAt(Q)'
              \/ \E P \in SUBSET {r \in Runs : run[r].pc = "prune"} :
                    Made(Left(P), Left(Q)', Busy \ P, Busy' \ Q, failed, failed')
    PROVE  Bounded'
<1>1. Disk /\ Disk'
  BY DEF EInv, Typed
<1>2. ASSUME NEW Q \in SUBSET {r \in Runs : run'[r].pc = "prune"}
      PROVE  BoundedAt(Q)'
  <2>1. CASE \E P \in SUBSET {r \in Runs : run[r].pc = "prune"} :
                 Made(Left(P), Left(Q)', Busy \ P, Busy' \ Q, failed, failed')
    <3>1. PICK P \in SUBSET {r \in Runs : run[r].pc = "prune"} :
                 Made(Left(P), Left(Q)', Busy \ P, Busy' \ Q, failed, failed')
      BY <2>1
    <3>2. BoundedAt(P)
      BY DEF Bounded
    <3> QED
      BY <1>1, <3>1, <3>2, BoundStep
  <2> QED
    BY <2>1
<1> QED
  BY <1>2 DEF Bounded
\* Steps that leave the names of the files and what the runs have to remove.
LEMMA QuietBound ==
    ASSUME EInv, EInv', Bounded, DOMAIN dir' = DOMAIN dir, failed' = failed,
           \A t \in Runs :
              /\ run'[t].doomed = run[t].doomed
              /\ run'[t].pc = "prune" <=> run[t].pc = "prune"
              /\ run[t].pc \in {"write", "list", "prune"} =>
                    run'[t].pc \in {"write", "list", "prune"}
    PROVE  Bounded'
<1>1. ASSUME NEW Q \in SUBSET {r \in Runs : run'[r].pc = "prune"}
      PROVE  /\ Q \in SUBSET {r \in Runs : run[r].pc = "prune"}
             /\ Made(Left(Q), Left(Q)', Busy \ Q, Busy' \ Q, failed, failed')
  <2>1. Q \in SUBSET {r \in Runs : run[r].pc = "prune"}
    OBVIOUS
  <2>2. Left(Q)' \subseteq Left(Q)
    BY DEF Left
  <2>3. Busy \ Q \subseteq Busy' \ Q
    BY DEF Busy
  <2>4. failed' >= failed
    BY DEF EInv, Typed, Disk
  <2> QED
    BY <2>1, <2>2, <2>3, <2>4 DEF Made
<1> QED
  BY <1>1, BoundedStep

LEMMA OpenBound ==
    ASSUME EInv, EInv', Bounded, NEW r \in Runs, Open(r) PROVE Bounded'
<1> DEFINE n == run[r].file
<1>1. /\ run[r] \in RunStates /\ run[r].pc = "open"
      /\ run' = [run EXCEPT ![r].pc = "write"]
  BY DEF EInv, Typed, RunsTyped, RunTyped, Open
<1>2. \A t \in Runs : /\ run'[t].doomed = run[t].doomed
                      /\ run'[t].pc = IF t = r THEN "write" ELSE run[t].pc
  BY <1>1 DEF EInv, Typed, RunsTyped, RunStates
<1>3. DOMAIN dir' = DOMAIN dir \cup {n} /\ failed' = failed
  BY DEF Open
<1> HIDE DEF n
<1>4. ASSUME NEW Q \in SUBSET {t \in Runs : run'[t].pc = "prune"}
      PROVE  /\ Q \in SUBSET {t \in Runs : run[t].pc = "prune"}
             /\ Made(Left(Q), Left(Q)', Busy \ Q, Busy' \ Q, failed, failed')
  <2>1. Q \in SUBSET {t \in Runs : run[t].pc = "prune"} /\ r \notin Q
    BY <1>2
  <2>2. Left(Q)' \subseteq Left(Q) \cup {n}
    BY <1>2, <1>3 DEF Left
  <2>3. r \notin Busy \ Q /\ (Busy \ Q) \cup {r} \subseteq Busy' \ Q
    BY <1>1, <1>2, <2>1 DEF Busy
  <2> QED
    BY <1>3, <2>1, <2>2, <2>3 DEF Made
<1> QED
  BY <1>4, BoundedStep

LEMMA FailsBound ==
    ASSUME EInv, EInv', Bounded, NEW r \in Runs, WriteFails(r) \/ ListFails(r)
    PROVE  Bounded'
<1>1. /\ run' = [run EXCEPT ![r] = Idle] /\ failed' = failed + 1 /\ dir' = dir
      /\ run[r].pc \in {"write", "list"}
  BY DEF WriteFails, ListFails
<1>2. Idle.pc = "idle" /\ Idle.doomed = {}
  BY DEF Idle
<1>3. \A t \in Runs : run'[t] = IF t = r THEN Idle ELSE run[t]
  BY <1>1 DEF EInv, Typed, RunsTyped
<1>4. ASSUME NEW Q \in SUBSET {t \in Runs : run'[t].pc = "prune"}
      PROVE  /\ Q \in SUBSET {t \in Runs : run[t].pc = "prune"}
             /\ Made(Left(Q), Left(Q)', Busy \ Q, Busy' \ Q, failed, failed')
  <2>1. Q \in SUBSET {t \in Runs : run[t].pc = "prune"} /\ r \notin Q
    BY <1>2, <1>3
  <2>2. Left(Q)' \subseteq Left(Q)
    BY <1>1, <1>3, <2>1 DEF Left
  <2>3. Busy \ Q \subseteq (Busy' \ Q) \cup {r}
    BY <1>3 DEF Busy
  <2> QED
    BY <1>1, <2>1, <2>2, <2>3 DEF Made
<1> QED
  BY <1>4, BoundedStep

LEMMA ListBound ==
    ASSUME EInv, EInv', Bounded, NEW r \in Runs, List(r) PROVE Bounded'
<1> DEFINE old == Doomed(DOMAIN dir)
<1>1. run' = [run EXCEPT ![r] = Pruning(old)] /\ UNCHANGED <<dir, failed>>
      /\ run[r].pc = "list"
  BY DEF List
<1>2. /\ Pruning(old).pc = IF old = {} THEN "idle" ELSE "prune"
      /\ Pruning(old).doomed = old
  BY DEF Pruning, Idle
<1>3. \A t \in Runs : run'[t] = IF t = r THEN Pruning(old) ELSE run[t]
  BY <1>1 DEF EInv, Typed, RunsTyped
<1>4. ASSUME NEW Q \in SUBSET {t \in Runs : run'[t].pc = "prune"}
      PROVE  \/ BoundedAt(Q)'
             \/ /\ Q \in SUBSET {t \in Runs : run[t].pc = "prune"}
                /\ Made(Left(Q), Left(Q)', Busy \ Q, Busy' \ Q, failed, failed')
  <2>1. CASE r \in Q \/ old = {}
    <3>1. Left(Q)' \subseteq DOMAIN dir \ old
      BY <1>1, <1>2, <1>3, <2>1 DEF Left
    <3>2. DOMAIN dir \in SUBSET Times /\ failed' \in Nat /\ Retention \in Nat \ {0}
      BY BackupAssumption DEF EInv, Typed, Disk
    <3>3. Cardinality(DOMAIN dir \ old) <= Retention
      BY <3>2, FewAreKept DEF Doomed
    <3>4. /\ Left(Q)' \in SUBSET Times /\ DOMAIN dir \ old \in SUBSET Times
          /\ Busy' \ Q \in SUBSET Runs
      BY <3>1, <3>2 DEF Busy
    <3> HIDE DEF old
    <3>5. Cardinality(Left(Q)') <= Cardinality(DOMAIN dir \ old)
      BY <3>1, <3>4, CountsAreNumbers, FS_Subset
    <3>6. /\ Cardinality(Left(Q)') \in Nat /\ Cardinality(DOMAIN dir \ old) \in Nat
          /\ Cardinality(Busy' \ Q) \in Nat
      BY <3>4, CountsAreNumbers
    <3>7. Cardinality(Left(Q)') <= Retention + failed' + Cardinality(Busy' \ Q)
      BY <3>2, <3>3, <3>5, <3>6
    <3> QED
      BY <3>7 DEF BoundedAt
  <2>2. CASE r \notin Q /\ old # {}
    <3>1. Q \in SUBSET {t \in Runs : run[t].pc = "prune"}
      BY <1>3, <2>2
    <3>2. Left(Q)' \subseteq Left(Q)
      BY <1>1, <1>3, <2>2 DEF Left
    <3>3. Busy \ Q \subseteq Busy' \ Q
      BY <1>2, <1>3, <2>2 DEF Busy
    <3>4. failed' >= failed
      BY <1>1 DEF EInv, Typed, Disk
    <3> QED
      BY <3>1, <3>2, <3>3, <3>4 DEF Made
  <2> QED
    BY <2>1, <2>2
<1> QED
  BY <1>4, BoundedStep

LEMMA RemoveBound ==
    ASSUME EInv, EInv', Bounded, NEW r \in Runs, RemoveFile(r) \/ RemoveFails(r)
    PROVE  Bounded'
<1> DEFINE n == Max(run[r].doomed)
           rest == run[r].doomed \ {n}
<1>1. run' = [run EXCEPT ![r] = Pruning(rest)] /\ run[r].pc = "prune"
  BY DEF RemoveFile, RemoveFails
<1>2. \/ DOMAIN dir' = DOMAIN dir \ {n} /\ failed' = failed
      \/ DOMAIN dir' = DOMAIN dir /\ failed' = failed + 1
  BY DEF RemoveFile, RemoveFails
<1>3. /\ Pruning(rest).pc = IF rest = {} THEN "idle" ELSE "prune"
      /\ Pruning(rest).doomed = rest
  BY DEF Pruning, Idle
<1>4. \A t \in Runs : run'[t] = IF t = r THEN Pruning(rest) ELSE run[t]
  BY <1>1 DEF EInv, Typed, RunsTyped
<1>5. run[r].doomed \subseteq rest \cup {n}
  OBVIOUS
<1> HIDE DEF n, rest
<1>6. ASSUME NEW Q \in SUBSET {t \in Runs : run'[t].pc = "prune"}
      PROVE  \E P \in SUBSET {t \in Runs : run[t].pc = "prune"} :
                Made(Left(P), Left(Q)', Busy \ P, Busy' \ Q, failed, failed')
  <2> DEFINE P == IF rest = {} THEN Q \cup {r} ELSE Q
  <2>1. P \in SUBSET {t \in Runs : run[t].pc = "prune"}
    BY <1>1, <1>4
  <2>2. \A t \in P : \A m \in run[t].doomed :
           m = n \/ \E u \in Q : m \in run'[u].doomed
    <3> SUFFICES ASSUME NEW t \in P, NEW m \in run[t].doomed, m # n
                 PROVE  \E u \in Q : m \in run'[u].doomed
      OBVIOUS
    <3>1. CASE t = r
      <4>1. m \in rest
        BY <1>5, <3>1
      <4> QED
        BY <1>3, <1>4, <3>1, <4>1
    <3>2. CASE t # r
      BY <1>4, <3>2
    <3> QED
      BY <3>1, <3>2
  <2>3. Busy \ P \subseteq Busy' \ Q
    BY <1>3, <1>4 DEF Busy
  <2> HIDE DEF P
  <2>4. \A m : /\ m \in Left(P) <=> /\ m \in DOMAIN dir
                                   /\ \A t \in P : m \notin run[t].doomed
               /\ m \in Left(Q)' <=> /\ m \in DOMAIN dir'
                                    /\ \A t \in Q : m \notin run'[t].doomed
    BY DEF Left
  <2>5. CASE DOMAIN dir' = DOMAIN dir \ {n} /\ failed' = failed
    <3>1. Left(Q)' \subseteq Left(P)
      BY <2>2, <2>4, <2>5
    <3>2. failed' >= failed
      BY <2>5 DEF EInv, Typed, Disk
    <3> QED
      BY <2>1, <2>3, <3>1, <3>2 DEF Made
  <2>6. CASE DOMAIN dir' = DOMAIN dir /\ failed' = failed + 1
    <3>1. Left(Q)' \subseteq Left(P) \cup {n}
      BY <2>2, <2>4, <2>6
    <3> QED
      BY <2>1, <2>3, <2>6, <3>1 DEF Made
  <2> QED
    BY <1>2, <2>5, <2>6
<1> QED
  BY <1>6, BoundedStep

LEMMA RestartBound == ASSUME EInv, EInv', Bounded, Restart PROVE Bounded'
<1>1. /\ failed' = failed + Cardinality(Busy) /\ dir' = dir
      /\ run' = [r \in Runs |-> Idle]
  BY DEF Restart, Busy
<1>2. Idle.pc = "idle" /\ Idle.doomed = {}
  BY DEF Idle
<1>3. Busy' = {} /\ {r \in Runs : run'[r].pc = "prune"} = {}
  BY <1>1, <1>2 DEF Busy
<1>4. BoundedAt({}) /\ Busy \ {} = Busy
  BY DEF Bounded
<1>5. Left({})' = Left({})
  BY <1>1 DEF Left
<1>6. /\ Busy \in SUBSET Runs /\ Left({}) \in SUBSET Times /\ failed \in Nat
  BY DEF EInv, Typed, Disk, Left, Busy
<1>7. /\ Cardinality(Busy) \in Nat /\ Cardinality(Left({})) \in Nat
      /\ Retention \in Nat /\ Cardinality(Busy' \ {}) = 0
  BY <1>3, <1>6, CountsAreNumbers, FS_EmptySet
<1>8. Cardinality(Left({})) <= Retention + failed + Cardinality(Busy)
  BY <1>4 DEF BoundedAt
<1>9. Cardinality(Left({})') <= Retention + failed' + Cardinality(Busy' \ {})
  BY <1>1, <1>5, <1>6, <1>7, <1>8
<1>10. BoundedAt({})'
  BY <1>9 DEF BoundedAt
<1> QED
  BY <1>3, <1>10 DEF Bounded

LEMMA StepBounded == Bounded /\ EInv /\ EInv' /\ [Next]_vars => Bounded'
<1> SUFFICES ASSUME Bounded, EInv, EInv', [Next]_vars PROVE Bounded'
  OBVIOUS
<1>1. CASE Requested
  <2>1. PICK new : Change(new)
    BY <1>1, RequestKeeps DEF EInv, Typed
  <2>2. \A t \in Runs : run'[t].pc = run[t].pc /\ run'[t].doomed = run[t].doomed
    <3> TAKE t \in Runs
    <3>1. run[t] \in RunStates
      BY DEF EInv, Typed, RunsTyped, RunTyped
    <3> QED
      BY <2>1, <3>1 DEF Change, RunStates
  <2>3. UNCHANGED <<dir, failed>>
    BY <2>1 DEF Change
  <2> QED
    BY <2>2, <2>3, QuietBound
<1>2. ASSUME NEW r \in Runs, RunOnce(r) PROVE Bounded'
  <2>1. /\ run[r] \in RunStates /\ RunTyped(run[r])
        /\ DOMAIN run = Runs
        /\ Idle.pc = "idle" /\ Idle.doomed = {}
    BY DEF EInv, Typed, RunsTyped, RunTyped, Idle
  <2>2. CASE \/ ExportEntities(r) \/ ExportObservations(r) \/ ExportRelations(r)
             \/ ExportFails(r)
    <3>1. PICK x : /\ run' = [run EXCEPT ![r] = x] /\ x.doomed = {}
                   /\ x.pc \in {"idle", "observations", "relations", "open"}
      BY <2>2, ExportMoves
    <3>2. /\ run[r].pc \in {"idle", "observations", "relations", "open"}
          /\ UNCHANGED <<dir, failed>>
      BY <2>2, ExportMoves
    <3>3. run[r].doomed = {}
      BY <2>1, <3>2 DEF RunTyped
    <3>4. \A t \in Runs : run'[t] = IF t = r THEN x ELSE run[t]
      BY <2>1, <3>1
    <3> QED
      BY <3>1, <3>2, <3>3, <3>4, QuietBound
  <2>3. CASE Write(r)
    <3> DEFINE x == [Idle EXCEPT !.pc = "list"]
    <3>1. x.pc = "list" /\ x.doomed = {}
      BY DEF Idle
    <3>2. /\ run[r].pc = "write" /\ run[r].doomed = {}
          /\ DOMAIN dir' = DOMAIN dir /\ failed' = failed
      BY <2>1, <2>3 DEF Write, RunTyped
    <3>3. \A t \in Runs : run'[t] = IF t = r THEN x ELSE run[t]
      BY <2>1, <2>3 DEF Write
    <3> HIDE DEF x
    <3> QED
      BY <3>1, <3>2, <3>3, QuietBound
  <2> QED
    BY <1>2, <2>2, <2>3, OpenBound, FailsBound, ListBound, RemoveBound
       DEF RunOnce
<1>3. CASE Restart
  BY <1>3, RestartBound
<1>4. CASE UNCHANGED vars
  BY <1>4, QuietBound DEF vars
<1> QED
  BY <1>1, <1>2, <1>3, <1>4 DEF Next

LEMMA InitBounded == Init => Bounded
<1> SUFFICES ASSUME Init, NEW P \in SUBSET {r \in Runs : run[r].pc = "prune"}
             PROVE  BoundedAt(P)
  BY DEF Bounded
<1>1. Left(P) = {} /\ Busy \ P \in SUBSET Runs /\ failed = 0
  BY DEF Init, Left, Busy
<1>2. Cardinality(Left(P)) = 0
  BY <1>1, FS_EmptySet
<1>3. Cardinality(Busy \ P) \in Nat /\ Retention \in Nat
  BY <1>1, CountsAreNumbers
<1> QED
  BY <1>1, <1>2, <1>3 DEF BoundedAt

\* Between runs there are Retention files, and one more for each failure or
\* interrupted run (scheduler.go RunOnce, prune; main.go).
THEOREM DiskStaysBounded == Spec => []DiskIsBounded
<1>1. EInv /\ Bounded => DiskIsBounded
  <2> SUFFICES ASSUME EInv, Bounded, \A r \in Runs : run[r].pc = "idle"
               PROVE  Cardinality(DOMAIN dir) <= Retention + failed
    BY DEF DiskIsBounded
  <2>1. BoundedAt({})
    BY DEF Bounded
  <2>2. Left({}) = DOMAIN dir /\ Busy \ {} = {}
    BY DEF Left, Busy
  <2>3. DOMAIN dir \in SUBSET Times /\ failed \in Nat /\ Retention \in Nat
    BY BackupAssumption DEF EInv, Typed, Disk
  <2>4. Cardinality(DOMAIN dir) \in Nat /\ Cardinality({}) = 0
    BY <2>3, TimesFinite, FS_EmptySet
  <2>5. Cardinality(DOMAIN dir) <= Retention + failed + Cardinality({})
    BY <2>1, <2>2 DEF BoundedAt
  <2> QED
    BY <2>3, <2>4, <2>5
<1> QED
  BY <1>1, EInvariance, InitBounded, StepBounded, PTL DEF Spec
=============================================================================
