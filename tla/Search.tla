------------------------------- MODULE Search -------------------------------
(***************************************************************************)
(* Hybrid search and the embeddings it ranks by: the use case that embeds  *)
(* the query, ranks entities in one query, reads what they hold in later   *)
(* ones and touches them (usecase/search.go, repository/search.go); the    *)
(* writes that embed what they store, best effort (usecase/crud.go); and   *)
(* the process that embeds what has no vector yet (main.go runBackfill).   *)
(*                                                                         *)
(* A content is a set of words, a name is a word, and a vector is the      *)
(* content it was computed from.  Scores, confidence and recency only      *)
(* order the matches, so any of them may be cut by the limit; filters by   *)
(* type and tag narrow a search as its project does; relations are read    *)
(* like observations.  These are left out.  A write commits in one step:   *)
(* its statements are in MemoryStore.                                      *)
(***************************************************************************)
EXTENDS Integers, FiniteSets, SequencesExt

CONSTANTS
    Projects, Words,     \* project names; names of entities and words
    Writers, Searchers,  \* the goroutines that serve one request each
    Writes,              \* what a writer may be asked
    Queries,             \* what a searcher may be asked: project and words
    Near(_, _),          \* cosine of query and vector at least 0.2
    Limit,               \* most results of a search
    BatchSize,           \* 50 in the code
    SeedEntities, SeedObservations,
    MaxWrites,           \* bound: writes begun
    MaxSearches,         \* bound: searches begun
    Nil                  \* no word; as a project: all of them

EntityRows == [id : Nat, project : Projects, name : Words]
NoVector == {Nil}
Vectors == (SUBSET Words) \cup {NoVector}
ObservationRows == [id : Nat, entity : Nat, content : SUBSET Words,
                    vec : Vectors]
Embedding == {"add", "edit", "edit_by_content"}
WriteRequests ==
    [do : Embedding \cup {"import", "forget", "forget_by_content", "delete",
                          "rename"},
     project : Projects, name : Words, newName : Words, id : Nat,
     old : SUBSET Words, content : SUBSET Words]

\* Primary keys, unique names and foreign keys of two tables.
Keys(E, O) ==
    /\ \A e, f \in E :
          e.id = f.id \/ (e.project = f.project /\ e.name = f.name) => e = f
    /\ \A o, p \in O : o.id = p.id => o = p
    /\ \A o \in O : \E e \in E : e.id = o.entity

SeedRows == Cardinality(SeedEntities) + Cardinality(SeedObservations)

ASSUME SearchAssumption ==
    /\ Limit \in Nat \ {0} /\ BatchSize \in Nat \ {0}
    /\ MaxWrites \in Nat /\ MaxSearches \in Nat
    /\ Nil \notin Words
    /\ "" \notin Projects                 \* defaultProject
    /\ Writes \subseteq WriteRequests
    /\ Queries \subseteq [project : Projects \cup {Nil},
                          words : SUBSET Words]

ASSUME SeedAssumption ==
    /\ IsFiniteSet(SeedEntities) /\ IsFiniteSet(SeedObservations)
    /\ SeedEntities \subseteq EntityRows
    /\ SeedObservations \subseteq ObservationRows
    /\ Keys(SeedEntities, SeedObservations)
    /\ \A row \in SeedEntities \cup SeedObservations : row.id <= SeedRows
    /\ \A o \in SeedObservations : o.vec \in {NoVector, o.content}

VARIABLES
    entities,      \* memory_entities: id, project, name
    observations,  \* memory_observations: id, entity, content, vec
    nextID,        \* the table sequences, merged
    write,         \* write[w]: the request that w serves
    search,        \* search[s]: the request that s serves
    fill,          \* the -backfill-embeddings process
    begun,         \* begun.writes, begun.searches: for the bounds
    unembedded     \* history: the observations whose last edit got no vector

vars == <<entities, observations, nextID, write, search, fill, begun,
          unembedded>>

IdleWrite == [pc |-> "idle", op |-> Nil, vec |-> NoVector]

\* found: the rows of the ranking whose contents are still to be read.
\* Histories: cut, whether the ranking was cut off; calm and had, the entities
\* not changed since the request began, and what each entity was named or said
\* at some time since then.
IdleSearch == [pc |-> "idle", project |-> Nil, words |-> {}, vec |-> NoVector,
               found |-> {}, answer |-> {}, cut |-> FALSE, calm |-> {}, had |-> {}]

Init ==
    /\ entities = SeedEntities /\ observations = SeedObservations
    /\ nextID = SeedRows + 1
    /\ write = [w \in Writers |-> IdleWrite]
    /\ search = [s \in Searchers |-> IdleSearch]
    /\ fill = [pc |-> "query", batch |-> << >>]
    /\ begun = [writes |-> 0, searches |-> 0]
    /\ unembedded = {}

Said(id) == {o \in observations : o.entity = id}
Had == {<<e.id, {e.name}>> : e \in entities}
         \cup {<<o.entity, o.content>> : o \in observations}

-----------------------------------------------------------------------------
(* Writes                                                                  *)

\* The graph becomes new; every search under way takes note.
Change(newEntities, newObservations) ==
    /\ entities' = newEntities
    /\ observations' = newObservations
    /\ search' = [s \in Searchers |->
           [search[s] EXCEPT
              !.calm = {id \in @ :
                          /\ \A e \in entities : e.id = id => e \in newEntities
                          /\ Said(id) = {o \in newObservations : o.entity = id}},
              !.had = IF search[s].pc \in {"idle", "answered"} THEN @
                      ELSE @ \cup Had']]

Named(project, name) ==
    {e \in entities : e.project = project /\ e.name = name}

\* mutant of Found: the project is not looked at.
FoundAnywhere(project, id) == {o \in observations : o.id = id}

\* The observation of that id, if its entity is in the project.
Found(project, id) ==
    {o \in observations : o.id = id /\ \E e \in entities :
                                          e.id = o.entity /\ e.project = project}

\* mutant of Edited: the vector is left alone when there is one already.
EditedKeepsVector(o, content, vec) ==
    [o EXCEPT !.content = content, !.vec = IF @ = NoVector THEN vec ELSE @]

\* SET content = $3, and embedding = $n if there is a new one.
Edited(o, content, vec) ==
    [o EXCEPT !.content = content, !.vec = IF vec = NoVector THEN @ ELSE vec]

\* UpdateObservation, when the observation o is found.
Update(o, content, vec) ==
    /\ Change(entities,
              (observations \ {o}) \cup {Edited(o, content, vec)})
    /\ unembedded' = IF vec = NoVector THEN unembedded \cup {o.id}
                                  ELSE unembedded \ {o.id}
    /\ UNCHANGED nextID

\* mutant of Owner: the entity is not looked up.
OwnerIsNew(op) == nextID

\* The id of the entity an addition is for, which is created if it is new.
Owner(op) ==
    LET old == Named(op.project, op.name)
    IN  IF old = {} THEN nextID ELSE (CHOOSE e \in old : TRUE).id

\* CreateEntities, AddObservations and Import: one observation of an entity.
Add(op, vec) ==
    LET owner == Owner(op)
        id == IF owner = nextID THEN nextID + 1 ELSE nextID
    IN  /\ Change(entities \cup {[id |-> owner, project |-> op.project,
                                  name |-> op.name]},
                  observations \cup {[id |-> id, entity |-> owner,
                                      content |-> op.content, vec |-> vec]})
        /\ nextID' = id + 1
        /\ UNCHANGED unembedded

\* The edits and removals of an observation, which find it by its id or by its
\* entity and its content.
Targets(op) ==
    IF op.do \in {"edit", "forget"} THEN Found(op.project, op.id)
    ELSE {o \in observations : /\ o.content = op.old
                               /\ \E e \in Named(op.project, op.name) :
                                     e.id = o.entity}

Apply(op, vec) ==
    \/ op.do \in {"add", "import"} /\ Add(op, vec)
    \/ /\ op.do \in {"edit", "edit_by_content"}
       /\ \E o \in Targets(op) : Update(o, op.content, vec)
    \/ /\ op.do \in {"forget", "forget_by_content"}
       /\ \E o \in Targets(op) : Change(entities, observations \ {o})
       /\ UNCHANGED <<nextID, unembedded>>
    \/ /\ op.do = "delete"
       /\ \E e \in Named(op.project, op.name) :
             Change(entities \ {e}, observations \ Said(e.id))
       /\ UNCHANGED <<nextID, unembedded>>
    \/ /\ op.do = "rename" /\ Named(op.project, op.newName) = {}
       /\ \E e \in Named(op.project, op.name) :
             Change((entities \ {e}) \cup {[e EXCEPT !.name = op.newName]},
                    observations)
       /\ UNCHANGED <<nextID, unembedded>>

BeginWrite(w, op) ==
    /\ write[w].pc = "idle" /\ begun.writes < MaxWrites
    /\ begun' = [begun EXCEPT !.writes = @ + 1]
    /\ write' = [write EXCEPT ![w] = [IdleWrite EXCEPT !.op = op,
                    !.pc = IF op.do \in Embedding THEN "embedding" ELSE "commit"]]
    /\ UNCHANGED <<entities, observations, nextID, search, fill,
                   unembedded>>

\* embedTexts: the vector, or no vector after an error or five seconds.
WriteEmbeds(w) ==
    /\ write[w].pc = "embedding"
    /\ write' = [write EXCEPT ![w].pc = "commit", ![w].vec = write[w].op.content]
    /\ UNCHANGED <<entities, observations, nextID, search, fill, begun,
                   unembedded>>

WriteGoesWithout(w) ==
    /\ write[w].pc = "embedding"
    /\ write' = [write EXCEPT ![w].pc = "commit"]
    /\ UNCHANGED <<entities, observations, nextID, search, fill, begun,
                   unembedded>>

CommitWrite(w) ==
    /\ write[w].pc = "commit"
    /\ Apply(write[w].op, write[w].vec)
    /\ write' = [write EXCEPT ![w] = IdleWrite]
    /\ UNCHANGED <<fill, begun>>

\* The call returns an error and has changed nothing: what it is about is not
\* there, or the database failed it.
WriteFails(w) ==
    /\ write[w].pc = "commit"
    /\ write' = [write EXCEPT ![w] = IdleWrite]
    /\ UNCHANGED <<entities, observations, nextID, search, fill, begun,
                   unembedded>>

-----------------------------------------------------------------------------
(* Searches.  The loops over the rows of a result end when it ends or the   *)
(* connection breaks, and nobody asks rows.Err which it was: a result that   *)
(* was cut off is taken for the whole one.                                  *)

BeginSearch(s, q) ==
    /\ search[s].pc \in {"idle", "answered"} /\ begun.searches < MaxSearches
    /\ begun' = [begun EXCEPT !.searches = @ + 1]
    /\ search' = [search EXCEPT ![s] = [IdleSearch EXCEPT !.pc = "embedding",
                     !.project = q.project, !.words = q.words, !.had = Had,
                     !.calm = {e.id : e \in entities}]]
    /\ UNCHANGED <<entities, observations, nextID, write, fill,
                   unembedded>>

SearchEmbeds(s) ==
    /\ search[s].pc = "embedding"
    /\ search' = [search EXCEPT ![s].pc = "rank", ![s].vec = search[s].words]
    /\ UNCHANGED <<entities, observations, nextID, write, fill, begun,
                   unembedded>>

\* mutant of SearchGoesWithout: there is no deadline, and the embedder hangs.
SearchWaits(s) == FALSE /\ UNCHANGED vars

SearchGoesWithout(s) ==
    /\ search[s].pc = "embedding"
    /\ search' = [search EXCEPT ![s].pc = "rank"]
    /\ UNCHANGED <<entities, observations, nextID, write, fill, begun,
                   unembedded>>

\* Every word of the query is in the name or in one of the observations; a
\* blank query matches nothing word for word.
Lexical(words, e) ==
    words # {} /\ words \subseteq {e.name} \cup UNION {o.content : o \in Said(e.id)}
Semantic(vec, e) == \E o \in Said(e.id) : o.vec # NoVector /\ Near(vec, o.vec)
InScope(project, e) == project \in {Nil, e.project}

\* mutant of Matches: the vectors are joined instead of left joined.
MatchesJoined(q, e) ==
    /\ InScope(q.project, e)
    /\ q.vec = NoVector \/ Semantic(q.vec, e)
    /\ Lexical(q.words, e) \/ q.vec # NoVector

\* The WHERE clauses of searchLexical and searchHybrid.
Matches(q, e) ==
    /\ InScope(q.project, e)
    /\ Lexical(q.words, e) \/ (q.vec # NoVector /\ Semantic(q.vec, e))

\* One query: the best entities that match, or the first of them.
Rank(s) ==
    LET matching == {e \in entities : Matches(search[s], e)} IN
    /\ search[s].pc = "rank"
    /\ \E best \in SUBSET matching :
          /\ Cardinality(best) <= Limit
          /\ best = matching \/ Cardinality(best) = Limit
          /\ \E got \in SUBSET best :
                search' = [search EXCEPT ![s].pc = "fetch", ![s].found = got,
                                         ![s].cut = got # best]
    /\ UNCHANGED <<entities, observations, nextID, write, fill, begun,
                   unembedded>>

\* mutant of Shown: the contents are looked up by name.
ShownByName(row) ==
    {o.content : o \in {p \in observations :
        \E e \in Named(row.project, row.name) : e.id = p.entity}}

Shown(row) == {o.content : o \in Said(row.id)}

\* fetchResults, for one of the rows.
Fetch(s) ==
    /\ search[s].pc = "fetch"
    /\ \E row \in search[s].found : \E got \in SUBSET Shown(row) :
          search' = [search EXCEPT ![s].found = @ \ {row},
                        ![s].answer = @ \cup {[row |-> row, shown |-> got,
                                               cut |-> got # Shown(row)]}]
    /\ UNCHANGED <<entities, observations, nextID, write, fill, begun,
                   unembedded>>

\* All rows are read.  TouchAccessed sets last_accessed_at, which only orders
\* later matches, and its failure is only logged.
Answer(s) ==
    /\ search[s].pc = "fetch" /\ search[s].found = {}
    /\ search' = [search EXCEPT ![s].pc = "answered"]
    /\ UNCHANGED <<entities, observations, nextID, write, fill, begun, unembedded>>

\* A query fails before its first row is read.
SearchFails(s) ==
    /\ search[s].pc \in {"rank", "fetch"}
    /\ search' = [search EXCEPT ![s] = IdleSearch]
    /\ UNCHANGED <<entities, observations, nextID, write, fill, begun,
                   unembedded>>

-----------------------------------------------------------------------------
(* runBackfill                                                             *)

Unfilled == {o \in observations : o.vec = NoVector}
InIdOrder(rows) == SetToSortSeq(rows, LAMBDA o, p : o.id < p.id)
Batch == LET all == InIdOrder(Unfilled)
         IN  SubSeq(all, 1, IF Len(all) < BatchSize THEN Len(all) ELSE BatchSize)

\* The observations without a vector in id order, up to the batch size, or the
\* first of them; when it gets none the process ends.
FillQuery ==
    /\ fill.pc = "query"
    /\ \E got \in 0 .. Len(Batch) :
          fill' = [pc |-> IF got = 0 THEN "complete" ELSE "embed",
                   batch |-> SubSeq(Batch, 1, got)]
    /\ UNCHANGED <<entities, observations, nextID, write, search, begun,
                   unembedded>>

FillEmbeds ==
    /\ fill.pc = "embed"
    /\ fill' = [fill EXCEPT !.pc = "update"]
    /\ UNCHANGED <<entities, observations, nextID, write, search, begun,
                   unembedded>>

\* log.Fatalf: the query or the embedder failed.
FillDies ==
    /\ fill.pc \in {"query", "embed"}
    /\ fill' = [pc |-> "dead", batch |-> << >>]
    /\ UNCHANGED <<entities, observations, nextID, write, search, begun,
                   unembedded>>

\* UpdateObservation with project "", the content that was read and its
\* vector; "not found" is logged and the row skipped.
FillUpdates ==
    LET row == Head(fill.batch) IN
    /\ fill.pc = "update"
    /\ fill' = [pc |-> IF Len(fill.batch) = 1 THEN "query" ELSE "update",
                batch |-> Tail(fill.batch)]
    /\ \/ \E o \in Found("", row.id) : Update(o, row.content, row.content)
       \/ /\ Found("", row.id) = {}
          /\ UNCHANGED <<entities, observations, nextID, search, unembedded>>
    /\ UNCHANGED <<write, begun>>

-----------------------------------------------------------------------------
WriteNext(w) == WriteGoesWithout(w) \/ CommitWrite(w) \/ WriteFails(w)
SearchNext(s) == SearchGoesWithout(s) \/ Rank(s) \/ Fetch(s) \/ Answer(s)
                   \/ SearchFails(s)
FillNext == FillQuery \/ FillEmbeds \/ FillUpdates

Next ==
    \/ \E w \in Writers : \/ WriteNext(w) \/ WriteEmbeds(w)
                          \/ \E op \in Writes : BeginWrite(w, op)
    \/ \E s \in Searchers : \/ SearchNext(s) \/ SearchEmbeds(s)
                            \/ \E q \in Queries : BeginSearch(s, q)
    \/ FillNext \/ FillDies

Spec == Init /\ [][Next]_vars

\* The database answers and goroutines are scheduled.  The embedder of a
\* request need not answer, but the deadline of embedTexts passes; that of the
\* backfill is assumed to answer.
FairSpec == /\ Spec
            /\ \A w \in Writers : WF_vars(WriteNext(w))
            /\ \A s \in Searchers : WF_vars(SearchNext(s))
            /\ WF_vars(FillNext)
-----------------------------------------------------------------------------
(* Properties                                                              *)

\* Rows keep their types, keys and references, and what a request holds has
\* its type.
TypeOK ==
    /\ entities \subseteq EntityRows /\ observations \subseteq ObservationRows
    /\ Keys(entities, observations)
    /\ nextID \in Nat /\ \A row \in entities \cup observations : row.id < nextID
    /\ \A w \in Writers :
          /\ write[w].pc \in {"idle", "embedding", "commit"}
          /\ write[w].pc # "idle" => write[w].op \in WriteRequests
    /\ \A s \in Searchers :
          /\ search[s].pc \in {"idle", "embedding", "rank", "fetch", "answered"}
          /\ search[s].words \subseteq Words /\ search[s].vec \in Vectors
    /\ fill.pc \in {"query", "embed", "update", "complete", "dead"}

\* A vector is that of the content next to it, whoever edited the observation
\* at the same time, unless the last edit got no vector: that one leaves the
\* vector of an older content (observations.go UpdateObservation).
VectorsAreFresh ==
    \A o \in observations : o.vec \in {NoVector, o.content} \/ o.id \in unembedded

\* What an answer says of an entity that nobody changed meanwhile is exact: it
\* is listed, once and with all it holds, if it matches the query word for word,
\* be the embedder up or down and its vectors there or not; only the limit may
\* keep it out; and it is not listed if it does not match ("Semantic path
\* ignores NULL rows; lexical path unaffected", schema.sql:118).  The exceptions
\* are the results that were cut off, which the code passes for whole ones: of
\* a cut ranking some are missing, of a cut read some of what it holds; neither
\* makes anything up.
SearchIsExact ==
    \A s \in Searchers :
        LET q == search[s]
            About(e) == {a \in q.answer : a.row = e}
            Held(e) == {o.content : o \in Said(e.id)}
        IN  q.pc = "answered" =>
              \A e \in {f \in entities : f.id \in q.calm} :
                 /\ InScope(q.project, e) /\ Lexical(q.words, e)
                      => About(e) # {} \/ Cardinality(q.answer) = Limit \/ q.cut
                 /\ \A a \in About(e) :
                      /\ Matches(q, e) /\ About(e) = {a}
                      /\ a.shown \subseteq Held(e)
                      /\ a.shown = Held(e) \/ a.cut

\* What an answer shows under an entity was said of that very entity, under
\* that name, while the search ran, although entities are renamed, deleted and
\* created again between the ranking and the reads (search.go fetchResults).
ResultsAreOfTheEntity ==
    \A s \in Searchers : \A a \in search[s].answer :
        /\ InScope(search[s].project, a.row)
        /\ {<<a.row.id, c>> : c \in a.shown \cup {{a.row.name}}} \subseteq search[s].had

\* An observation changes its content only when a request that edits it
\* commits.  (The backfill would write back the content it read, which may be an
\* older one by then, but it finds no observation to write: see BackfillEnds.)
EditsStand ==
    [][\A o \in observations, n \in observations' :
          o.id = n.id /\ o.content # n.content =>
             \E w \in Writers : /\ write[w].pc = "commit"
                                /\ write[w].op.do \in {"edit", "edit_by_content"}
                                /\ write[w].op.content = n.content]_vars

\* A search returns although the embedder never answers ("a search never
\* fails due to ...", "semantic search is best-effort, not blocking",
\* usecase/memory.go:21).
SearchReturns ==
    \A s \in Searchers : (search[s].pc = "embedding") ~>
                             (search[s].pc \in {"idle", "answered"})

\* "embed all observations with NULL embedding, then exit" (main.go, usage of
\* -backfill-embeddings): the process ends.
BackfillEnds == <>(fill.pc \in {"complete", "dead"})
=============================================================================
