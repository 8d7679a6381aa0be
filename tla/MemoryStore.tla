----------------------------- MODULE MemoryStore -----------------------------
(***************************************************************************)
(* The knowledge graph repository (internal/repository) at the grain at    *)
(* which concurrent requests interleave: one action per SQL statement.     *)
(* A request runs a plan, a sequence of repository calls, each call in a   *)
(* transaction of its own; most requests make one call, SaveCheckpoint     *)
(* (internal/usecase/checkpoint.go) makes four.  A call that returns an    *)
(* error rolls its transaction back and ends the request.                  *)
(*                                                                         *)
(* Observation contents are atomic values; confidence, embedding, tags,    *)
(* attribution and timestamps are left out.                                *)
(***************************************************************************)
EXTENDS Integers, Sequences, FiniteSets, Functions

CONSTANTS
    Requests,         \* the goroutines that serve one request each
    Plans,            \* the plans a request may run: sequences of calls
    SeedEntities,     \* committed rows the database starts with
    SeedObservations,
    SeedRelations,
    Nil

VARIABLES
    entities,      \* memory_entities: row versions, see PgRows
    observations,  \* memory_observations
    relations,     \* memory_relations
    history,       \* memory_history
    nextID,        \* the table sequences, merged: ids are never reused
    req            \* req[r]: the state of request r

vars == <<entities, observations, relations, history, nextID, req>>
tables == <<entities, observations, relations, history, nextID>>

INSTANCE PgRows

-----------------------------------------------------------------------------
(* Repository calls.  A call is a record; items are the entities to create, *)
(* each with its observations, triples the relations to create.            *)

CreateEntities(project, items) ==
    [do |-> "items", project |-> project, items |-> items, triples |-> << >>,
     replace |-> FALSE, audited |-> TRUE]
ReplaceEntities(project, items) ==
    [CreateEntities(project, items) EXCEPT !.replace = TRUE]
AddObservations(project, name, contents) ==
    CreateEntities(project, << [name |-> name, type |-> "concept",
                                obs |-> contents] >>)
CreateRelations(project, triples) ==
    [CreateEntities(project, << >>) EXCEPT !.triples = triples]

\* Import passes over a relation that has no type.
Import(project, items, triples) ==
    [do |-> "items", project |-> project, items |-> items,
     triples |-> SelectSeq(triples, LAMBDA t : t.type # Nil),
     replace |-> FALSE, audited |-> FALSE]

DeleteEntities(project, names) ==
    [do |-> "delete_entities", project |-> project, names |-> names]
UpdateEntity(project, name, newName, newType) ==
    [do |-> "update_entity", project |-> project, name |-> name,
     newName |-> newName, newType |-> newType]
DeleteObservation(project, id) ==
    [do |-> "delete_obs", project |-> project, id |-> id]
DeleteObservationByContent(project, name, content) ==
    [do |-> "delete_obs_by_content", project |-> project, name |-> name,
     old |-> content]
UpdateObservation(project, id, content) ==
    [do |-> "update_obs", project |-> project, id |-> id, new |-> content]
UpdateObservationByContent(project, name, old, new) ==
    [do |-> "update_obs_by_content", project |-> project, name |-> name,
     old |-> old, new |-> new]
DeleteRelation(project, id) ==
    [do |-> "delete_rel", project |-> project, id |-> id]
DeleteRelationByTriple(project, from, to, type) ==
    [do |-> "delete_rel_by_triple", project |-> project, from |-> from,
     to |-> to, type |-> type]
LogHistory(project, name, action) ==
    [do |-> "log", project |-> project, name |-> name, action |-> action]

\* ReadGraph, as far as the caller looks at it: the entity of that name.
ReadGraph(project, name) ==
    [do |-> "read_graph", project |-> project, name |-> name]

\* The plan of usecase SessionBootstrap: read the checkpoint, log the event.
\* Its other reads only add to the answer.
SessionBootstrap(project, active) ==
    << ReadGraph(project, active), LogHistory(project, Nil, "session_start") >>

\* The plan of usecase SaveCheckpoint: replace the active checkpoint, make
\* sure the trail exists, append to it, log the event; four transactions.
SaveCheckpoint(project, active, trail, contents, breadcrumb) ==
    << ReplaceEntities(project, << [name |-> active, type |-> "checkpoint",
                                    obs |-> contents] >>),
       CreateEntities(project, << [name |-> trail, type |-> "checkpoint_trail",
                                   obs |-> << >>] >>),
       AddObservations(project, trail, << breadcrumb >>),
       LogHistory(project, active, "checkpoint_saved") >>

\* A plan that SaveCheckpoint makes.
IsSavePlan(plan) ==
    /\ Len(plan) = 4
    /\ plan = SaveCheckpoint(plan[1].project, plan[1].items[1].name,
                             plan[2].items[1].name, plan[1].items[1].obs,
                             plan[3].items[1].obs[1])

Calls == UNION {{plan[i] : i \in DOMAIN plan} : plan \in Plans}
Kinds == {"items", "delete_entities", "update_entity", "delete_obs",
          "delete_obs_by_content", "update_obs", "update_obs_by_content",
          "delete_rel", "delete_rel_by_triple", "log", "read_graph"}

\* A request runs calls of these kinds, each with finite lists of things to
\* create.  LogHistory has two callers.
ASSUME PlanAssumption ==
    /\ Nil \notin Requests
    /\ \A plan \in Plans : plan \in Seq(Calls)
    /\ \A c \in Calls :
          /\ c.do \in Kinds
          /\ c.do = "log" => c.action \in {"checkpoint_saved", "session_start"}
          /\ c.do = "items" =>
                /\ {c.replace, c.audited} \subseteq BOOLEAN
                /\ c.items \in Seq(Range(c.items))
                /\ c.triples \in Seq(Range(c.triples))
                /\ \A item \in Range(c.items) : item.obs \in Seq(Range(item.obs))

\* The NULL of SQL is no id.
ASSUME NilAssumption == Nil \notin Nat

\* Only SaveCheckpoint replaces observations or logs a save.
ASSUME SaveAssumption ==
    \A plan \in Plans : \A c \in Range(plan) :
        \/ c.do = "items" /\ c.replace
        \/ c.do = "log" /\ c.action = "checkpoint_saved"
        => IsSavePlan(plan)

\* The database starts with rows the schema accepts, their ids taken from the
\* sequences, and with no relation that crosses projects.
SeedRows == Cardinality(SeedEntities) + Cardinality(SeedObservations)
              + Cardinality(SeedRelations)

ASSUME SeedAssumption ==
    /\ IsFiniteSet(SeedEntities) /\ IsFiniteSet(SeedObservations)
    /\ IsFiniteSet(SeedRelations)
    /\ \A v \in SeedEntities \cup SeedObservations \cup SeedRelations :
          v.id \in 1 .. SeedRows
    /\ \A e, f \in SeedEntities :
          e.id = f.id \/ (e.project = f.project /\ e.name = f.name) => e = f
    /\ \A o, p \in SeedObservations : o.id = p.id => o = p
    /\ \A o \in SeedObservations : \E e \in SeedEntities : e.id = o.entity
    /\ \A x \in SeedRelations : \E e, f \in SeedEntities :
          e.id = x.from /\ f.id = x.to /\ e.project = f.project
    /\ \A x, y \in SeedRelations :
          x.from = y.from /\ x.to = y.to /\ x.type = y.type => x = y

-----------------------------------------------------------------------------
(* Requests *)

\* The local state of a request.  id, id2: the entity ids its call resolved;
\* obs, name, old: the observation it read, the name of the entity read with
\* it, and the value read; snap: the ids a DELETE statement saw at its start;
\* seen: the contents a ReadGraph found; histories: cut, whether a result of
\* the ReadGraph was cut off; asked, the whole plan.
Fresh == [pc |-> "idle", asked |-> << >>, plan |-> << >>, items |-> << >>,
          triples |-> << >>, contents |-> << >>, id |-> Nil, id2 |-> Nil, obs |-> Nil,
          name |-> Nil, old |-> Nil, snap |-> {}, seen |-> {}, cut |-> FALSE]

Call(r) == Head(req[r].plan)
Item(r) == Head(req[r].items)
Triple(r) == Head(req[r].triples)
Running(r) == req[r].pc \notin {"idle", "done", "failed"}

\* Where the loops over entities and relations of a call stand.
LoopPc(items, triples) == CASE items # << >> -> "find_item"
                            [] items = << >> /\ triples # << >> -> "find_from"
                            [] OTHER -> "commit"

\* Begin the rest of a plan: its next call, or nothing is left to do.
StartCall(asked, plan) ==
    LET start == [Fresh EXCEPT !.asked = asked, !.plan = plan]
        call == Head(plan)
    IN  CASE plan = << >> -> [start EXCEPT !.pc = "done"]
          [] plan # << >> /\ call.do = "items" ->
               [start EXCEPT !.pc = LoopPc(call.items, call.triples),
                             !.items = call.items, !.triples = call.triples]
          [] OTHER -> [start EXCEPT !.pc = call.do]

Init ==
    /\ entities = {[by |-> Nil, gone |-> Nil, id |-> e.id, name |-> e.name,
                    project |-> e.project, type |-> e.type] : e \in SeedEntities}
    /\ observations = {[by |-> Nil, gone |-> Nil, id |-> o.id,
                        entity |-> o.entity, content |-> o.content]
                         : o \in SeedObservations}
    /\ relations = {[by |-> Nil, gone |-> Nil, id |-> x.id, from |-> x.from,
                     to |-> x.to, type |-> x.type] : x \in SeedRelations}
    /\ history = {}
    /\ nextID = 1 + SeedRows
    /\ req = [r \in Requests |-> Fresh]

Begin(r, plan) ==
    /\ req[r].pc = "idle"
    /\ req' = [req EXCEPT ![r] = StartCall(plan, plan)]
    /\ UNCHANGED tables

\* mutant of UndoHistory: history rows are inserted on the pool, not in tx.
KeepHistory(r) == Commit(history, r)

\* What is left of the trail when the transaction of r is rolled back.
UndoHistory(r) == Rollback(history, r)

\* mutant of Fail: the error is ignored and the next call made.
FailGoesOn(r) ==
    /\ entities' = Rollback(entities, r)
    /\ observations' = Rollback(observations, r)
    /\ relations' = Rollback(relations, r)
    /\ history' = UndoHistory(r)
    /\ req' = [req EXCEPT ![r] = StartCall(req[r].asked, Tail(req[r].plan))]
    /\ UNCHANGED nextID

\* mutant of Fail: the deferred Rollback is missing.
FailLeaksTx(r) ==
    /\ req' = [req EXCEPT ![r] = [Fresh EXCEPT !.pc = "failed",
                                               !.asked = req[r].asked]]
    /\ UNCHANGED tables

\* An error return: the deferred Rollback runs and the request ends.
Fail(r) ==
    /\ entities' = Rollback(entities, r)
    /\ observations' = Rollback(observations, r)
    /\ relations' = Rollback(relations, r)
    /\ history' = UndoHistory(r)
    /\ req' = [req EXCEPT ![r] = [Fresh EXCEPT !.pc = "failed",
                                               !.asked = req[r].asked]]
    /\ UNCHANGED nextID

\* Any statement may fail: the client went away and cancelled the context, the
\* connection to the database broke, or the server crashed.
Abort(r) == Running(r) /\ Fail(r)

\* tx.Commit, or the end of a statement that runs in its own transaction.  The
\* call returns, or the answer of the database is lost on the way: then the
\* request fails although its transaction is committed.
CommitTx(r) ==
    /\ req[r].pc = "commit"
    /\ entities' = Commit(entities, r)
    /\ observations' = Commit(observations, r)
    /\ relations' = Commit(relations, r)
    /\ history' = Commit(history, r)
    /\ LET asked == req[r].asked
       IN  \/ req' = [req EXCEPT ![r] = StartCall(asked, Tail(req[r].plan))]
           \/ req' = [req EXCEPT ![r] = [Fresh EXCEPT !.pc = "failed",
                                                      !.asked = asked]]
    /\ UNCHANGED nextID

\* A row of memory_history written by the open transaction of r.
Record(r, entity, name, obs, action, old, new) ==
    [by |-> r, gone |-> Nil, id |-> nextID, project |-> Call(r).project,
     entity |-> entity, name |-> name, obs |-> obs, action |-> action,
     old |-> old, new |-> new]

-----------------------------------------------------------------------------
(* Row locks.  Blockers(r) is the set of open transactions the next         *)
(* statement of r has to wait for; every statement below has the guard      *)
(* Blockers(r) = {}.                                                        *)

\* mutant of Named: the lookup forgets the project.
NamedAnywhere(project, name) == {e \in entities : e.name = name}

Named(project, name) ==
    {e \in entities : e.project = project /\ e.name = name}
WithID(rows, ids) == {v \in rows : v.id \in ids}
ObsOf(ids) == {o \in observations : o.entity \in ids}
RelsOf(ids) == {x \in relations : x.from \in ids \/ x.to \in ids}
SameTriple(from, to, type) ==
    {x \in relations : x.from = from /\ x.to = to /\ x.type = type}

\* A transaction that inserts a row with a foreign key holds FOR KEY SHARE on
\* the row it references.  (A new version of an old row does not.)
Inserted(rows) ==
    {v \in rows : \A w \in rows : w.id = v.id => w.gone # v.by}
KeyShare(ids, r) == Inserters(Inserted(ObsOf(ids)), r)
                      \cup Inserters(Inserted(RelsOf(ids)), r)

\* FOR KEY SHARE waits for a deletion and for an update of a unique column.
KeyChanged(id) ==
    {e \in WithID(entities, {id}) :
        \A f \in WithID(entities, {id}) : f.by = e.gone => f.name # e.name}

\* A unique index makes an insert wait for any open transaction that inserted
\* or removed a row with the same key.
UniqueWait(rows, r) == Inserters(rows, r) \cup Writers(rows, r)

\* The entity a find or insert statement of r is about.
Wanted(r) ==
    CASE req[r].pc \in {"find_item", "insert_item"} ->
           [name |-> Item(r).name, type |-> Item(r).type]
      [] req[r].pc \in {"find_from", "insert_from"} ->
           [name |-> Triple(r).from, type |-> "concept"]
      [] req[r].pc \in {"find_to", "insert_to"} ->
           [name |-> Triple(r).to, type |-> "concept"]

\* The relation rows a DeleteRelation or DeleteRelationByTriple of r matches.
Matches(r) ==
    LET c == Call(r)
        named(id, name) == \E e \in Visible(entities, r) :
                              e.id = id /\ e.project = c.project
                                        /\ (name = Nil \/ e.name = name)
    IN  IF c.do = "delete_rel"
        THEN {x \in relations : x.id = c.id /\ named(x.from, Nil)}
        ELSE {x \in relations : /\ x.type = c.type
                                /\ named(x.from, c.from) /\ named(x.to, c.to)}

\* The UPDATE of UpdateEntity finds its row with the name it is about to set.
KeepsName(r) ==
    \A e \in Visible(WithID(entities, {req[r].id}), r) : e.name = Call(r).newName

Blockers(r) ==
    LET q == req[r]
    IN  CASE q.pc \in {"insert_item", "insert_from", "insert_to"} ->
               UniqueWait(Named(Call(r).project, Wanted(r).name), r)
          [] q.pc = "insert_obs" -> Writers(KeyChanged(q.id), r)
          [] q.pc = "insert_rel" ->
               Writers(KeyChanged(q.id) \cup KeyChanged(q.id2), r)
                 \cup UniqueWait(SameTriple(q.id, q.id2, Triple(r).type), r)
          [] q.pc = "clear_obs" -> Writers(WithID(observations, q.snap), r)
          [] q.pc = "cascade" ->
               Writers(WithID(entities, q.snap), r) \cup KeyShare(q.snap, r)
                 \cup Writers(ObsOf(q.snap), r) \cup Writers(RelsOf(q.snap), r)
          [] q.pc = "rename" ->
               Writers(WithID(entities, {q.id}), r)
                 \cup IF KeepsName(r) THEN {}
                      ELSE KeyShare({q.id}, r) \cup
                           UniqueWait(Named(Call(r).project, Call(r).newName), r)
          [] q.pc = "write_obs" -> Writers(WithID(observations, {q.obs}), r)
          [] q.pc \in {"delete_rel", "delete_rel_by_triple"} ->
               Writers(Matches(r), r)
          [] OTHER -> {}

\* PostgreSQL breaks a cycle of waiting transactions by failing one of them.
Deadlock(r) ==
    /\ \E S \in SUBSET Requests :
          /\ r \in S
          /\ \A p \in S : Blockers(p) \cap S # {}
          /\ \A p \in S : \E q \in S : p \in Blockers(q)
    /\ Fail(r)

-----------------------------------------------------------------------------
(* Statements of CreateEntities, AddObservations, CreateRelations, Import  *)

\* Continue with request state q, whose current item has id resolved: insert
\* its next observation, or go on to the next item or relation.
AfterItem(q) ==
    IF q.contents # << >> THEN [q EXCEPT !.pc = "insert_obs"]
    ELSE [q EXCEPT !.items = Tail(@), !.pc = LoopPc(Tail(q.items), q.triples)]

\* Continue once the wanted entity is known to be id.  Observations are
\* replaced only under an entity that was found.
Resolve(r, id) ==
    LET q == req[r]
    IN  CASE q.pc \in {"find_item", "insert_item"} ->
               LET n == [q EXCEPT !.id = id, !.contents = Item(r).obs]
               IN  IF q.pc = "find_item" /\ Call(r).replace THEN [n EXCEPT !.pc = "snap_obs"]
                   ELSE AfterItem(n)
          [] q.pc \in {"find_from", "insert_from"} ->
               [q EXCEPT !.id = id, !.pc = "find_to"]
          [] q.pc \in {"find_to", "insert_to"} ->
               [q EXCEPT !.id2 = id, !.pc = "insert_rel"]

\* SELECT id FROM memory_entities WHERE project_id = $1 AND name = $2
FindEntity(r) ==
    /\ req[r].pc \in {"find_item", "find_from", "find_to"}
    /\ LET E == Visible(Named(Call(r).project, Wanted(r).name), r)
           insert == CASE req[r].pc = "find_item" -> "insert_item"
                       [] req[r].pc = "find_from" -> "insert_from"
                       [] req[r].pc = "find_to" -> "insert_to"
       IN  \/ \E e \in E : req' = [req EXCEPT ![r] = Resolve(r, e.id)]
           \/ E = {} /\ req' = [req EXCEPT ![r].pc = insert]
    /\ UNCHANGED tables

\* INSERT INTO memory_entities ... RETURNING id.  The name may have been taken
\* since the SELECT: a unique violation fails the call.
InsertEntity(r) ==
    /\ req[r].pc \in {"insert_item", "insert_from", "insert_to"}
    /\ Blockers(r) = {}
    /\ LET c == Call(r)
           taken == Visible(Named(c.project, Wanted(r).name), r)
       IN  \/ taken # {} /\ Fail(r)
           \/ /\ taken = {}
              /\ entities' = entities \cup
                    {[by |-> r, gone |-> Nil, id |-> nextID,
                      project |-> c.project, name |-> Wanted(r).name,
                      type |-> Wanted(r).type]}
              /\ req' = [req EXCEPT ![r] = Resolve(r, nextID)]
              /\ nextID' = nextID + 1
              /\ UNCHANGED <<observations, relations, history>>

\* DELETE FROM memory_observations WHERE entity_id = $1 takes its snapshot ...
SnapObservations(r) ==
    /\ req[r].pc = "snap_obs"
    /\ req' = [req EXCEPT ![r].pc = "clear_obs",
                          ![r].snap = {o.id : o \in
                             Visible(ObsOf({req[r].id}), r)}]
    /\ UNCHANGED tables

\* mutant of ClearObservations: the DELETE runs on the pool, not in tx.
ClearObservationsOnPool(r) ==
    /\ req[r].pc = "clear_obs"
    /\ Blockers(r) = {}
    /\ observations' =
         observations \ Visible(WithID(observations, req[r].snap), r)
    /\ req' = [req EXCEPT ![r] = AfterItem([@ EXCEPT !.snap = {}])]
    /\ UNCHANGED <<entities, relations, history, nextID>>

\* ... and, after waiting for the writers of those rows, deletes the ones that
\* are still there.  Rows committed in the meantime are not in the snapshot.
ClearObservations(r) ==
    /\ req[r].pc = "clear_obs"
    /\ Blockers(r) = {}
    /\ observations' =
         Remove(observations, Visible(WithID(observations, req[r].snap), r), r)
    /\ req' = [req EXCEPT ![r] = AfterItem([@ EXCEPT !.snap = {}])]
    /\ UNCHANGED <<entities, relations, history, nextID>>

\* INSERT INTO memory_observations, and its history row except in Import.  The
\* entity may be gone: a foreign key violation fails the call.
InsertObservation(r) ==
    /\ req[r].pc = "insert_obs"
    /\ Blockers(r) = {}
    /\ LET q == req[r]
           content == Head(q.contents)
       IN  \/ Visible(WithID(entities, {q.id}), r) = {} /\ Fail(r)
           \/ /\ Visible(WithID(entities, {q.id}), r) # {}
              /\ observations' = observations \cup
                    {[by |-> r, gone |-> Nil, id |-> nextID, entity |-> q.id,
                      content |-> content]}
              /\ history' = IF Call(r).audited
                            THEN history \cup
                                   {Record(r, q.id, Item(r).name, nextID,
                                           "observation_created", Nil, content)}
                            ELSE history
              /\ nextID' = nextID + 1
              /\ req' = [req EXCEPT ![r] = AfterItem([q EXCEPT !.contents = Tail(@)])]
              /\ UNCHANGED <<entities, relations>>

\* mutant of Existing: the direction of a relation is ignored.
ExistingUndirected(from, to, type, r) ==
    Visible(SameTriple(from, to, type) \cup SameTriple(to, from, type), r)

\* The row an insert of this triple conflicts with.
Existing(from, to, type, r) == Visible(SameTriple(from, to, type), r)

\* INSERT INTO memory_relations ... ON CONFLICT DO NOTHING
InsertRelation(r) ==
    /\ req[r].pc = "insert_rel"
    /\ Blockers(r) = {}
    /\ LET q == req[r]
           new == [by |-> r, gone |-> Nil, id |-> nextID, from |-> q.id,
                   to |-> q.id2, type |-> Triple(r).type]
           there(id) == Visible(WithID(entities, {id}), r) # {}
       IN  \/ ~(there(q.id) /\ there(q.id2)) /\ Fail(r)
           \/ /\ there(q.id) /\ there(q.id2)
              /\ IF Existing(new.from, new.to, new.type, r) = {}
                 THEN relations' = relations \cup {new} /\ nextID' = nextID + 1
                 ELSE UNCHANGED <<relations, nextID>>
              /\ req' = [req EXCEPT ![r].triples = Tail(@),
                                    ![r].pc = LoopPc(<< >>, Tail(q.triples))]
              /\ UNCHANGED <<entities, observations, history>>

-----------------------------------------------------------------------------
(* DeleteEntities: one DELETE, with the cascade of the foreign keys        *)

SnapEntities(r) ==
    /\ req[r].pc = "delete_entities"
    /\ req' = [req EXCEPT ![r].pc = "cascade",
                          ![r].snap = {e.id : e \in
                             {f \in Visible(entities, r) :
                                 /\ f.project = Call(r).project
                                 /\ f.name \in Call(r).names}}]
    /\ UNCHANGED tables

\* mutant of ReferencesTo: the foreign key to_entity_id does not cascade.
ReferencesFrom(ids) == {x \in relations : x.from \in ids}

\* The relations that go with their entities.
ReferencesTo(ids) == RelsOf(ids)

\* A row renamed while the statement waited no longer matches and is kept.
Cascade(r) ==
    /\ req[r].pc = "cascade"
    /\ Blockers(r) = {}
    /\ LET victims == {e \in Visible(WithID(entities, req[r].snap), r) :
                          e.name \in Call(r).names}
           ids == {e.id : e \in victims}
       IN  /\ entities' = Remove(entities, victims, r)
           /\ observations' = Remove(observations, Visible(ObsOf(ids), r), r)
           /\ relations' = Remove(relations, Visible(ReferencesTo(ids), r), r)
    /\ req' = [req EXCEPT ![r].pc = "commit"]
    /\ UNCHANGED <<history, nextID>>

-----------------------------------------------------------------------------
(* UpdateEntity                                                            *)

ReadEntity(r) ==
    /\ req[r].pc = "update_entity"
    /\ LET c == Call(r)
           E == Visible(Named(c.project, c.name), r)
       IN  \/ E = {} /\ Fail(r)
           \/ \E e \in E :
                /\ req' = [req EXCEPT ![r].id = e.id, ![r].old = e.type,
                              ![r].pc = IF c.newName # c.name THEN "check_name"
                                                              ELSE "rename"]
                /\ UNCHANGED tables

\* SELECT 1 FROM memory_entities WHERE ... name = $2 AND id <> $3
CheckName(r) ==
    /\ req[r].pc = "check_name"
    /\ LET others == {e \in Visible(Named(Call(r).project, Call(r).newName), r) :
                         e.id # req[r].id}
       IN  \/ others # {} /\ Fail(r)
           \/ others = {} /\ req' = [req EXCEPT ![r].pc = "rename"]
                          /\ UNCHANGED tables

\* The UPDATE by id, whose row count nobody looks at, and the history rows.
Rename(r) ==
    /\ req[r].pc = "rename"
    /\ Blockers(r) = {}
    /\ LET c == Call(r)
           q == req[r]
           rows == Visible(WithID(entities, {q.id}), r)
           taken == {e \in Visible(Named(c.project, c.newName), r) : e.id # q.id}
           renamed == IF c.newName = c.name THEN {}
                      ELSE {Record(r, q.id, c.newName, Nil, "entity_renamed",
                                   c.name, c.newName)}
           retyped == IF c.newType = q.old THEN {}
                      ELSE {[Record(r, q.id, c.newName, Nil, "entity_type_changed",
                                    q.old, c.newType) EXCEPT !.id = @ + 1]}
       IN  \/ rows # {} /\ taken # {} /\ Fail(r)
           \/ /\ rows = {} \/ taken = {}
              /\ entities' = Remove(entities, rows, r) \cup
                    {[e EXCEPT !.by = r, !.name = c.newName, !.type = c.newType]
                        : e \in rows}
              /\ history' = history \cup renamed \cup retyped
              /\ nextID' = nextID + 2
              /\ req' = [req EXCEPT ![r].pc = "commit"]
              /\ UNCHANGED <<observations, relations>>

-----------------------------------------------------------------------------
(* DeleteObservation, UpdateObservation and their ...ByContent variants    *)

ById(call) == call.do \in {"delete_obs", "update_obs"}
Deletes(call) == call.do \in {"delete_obs", "delete_obs_by_content"}

\* The SELECT that joins the observation with its entity.
FindObservation(r) ==
    /\ req[r].pc \in {"delete_obs", "update_obs", "delete_obs_by_content",
                      "update_obs_by_content"}
    /\ LET c == Call(r)
           R == {p \in Visible(observations, r) \X Visible(entities, r) :
                    /\ p[1].entity = p[2].id /\ p[2].project = c.project
                    /\ IF ById(c) THEN p[1].id = c.id
                       ELSE p[2].name = c.name /\ p[1].content = c.old}
       IN  \/ R = {} /\ Fail(r)
           \/ \E p \in R :
                /\ req' = [req EXCEPT ![r].pc = "write_obs", ![r].id = p[2].id,
                                      ![r].obs = p[1].id, ![r].name = p[2].name,
                                      ![r].old = p[1].content]
                /\ UNCHANGED tables

\* DELETE by id and the history row.
EraseObservation(r) ==
    /\ req[r].pc = "write_obs" /\ Deletes(Call(r))
    /\ Blockers(r) = {}
    /\ LET q == req[r]
       IN  /\ observations' = Remove(observations,
                                 Visible(WithID(observations, {q.obs}), r), r)
           /\ history' = history \cup
                {Record(r, q.id, q.name, q.obs, "observation_deleted", q.old, Nil)}
    /\ nextID' = nextID + 1
    /\ req' = [req EXCEPT ![r].pc = "commit"]
    /\ UNCHANGED <<entities, relations>>

\* mutant of Current: the row is written back as it was read (an upsert).
CurrentAsRead(r) ==
    LET q == req[r]
    IN  {[by |-> Nil, gone |-> Nil, id |-> q.obs, entity |-> q.id,
          content |-> q.old]}

\* The version the UPDATE finds after it has waited for the row.
Current(r) == Visible(WithID(observations, {req[r].obs}), r)

\* mutant of UpdateEntry: the edit is not audited.
NoUpdateEntry(r) == {}

\* The history row of an edit: none when the new content is the one read.
UpdateEntry(r) ==
    LET q == req[r]
    IN  IF q.old = Call(r).new THEN {}
        ELSE {Record(r, q.id, q.name, q.obs, "observation_updated", q.old,
                     Call(r).new)}

\* UPDATE by id, and the history row when the content differs from the one
\* read.  Only UpdateObservation looks at the row count.
WriteObservation(r) ==
    /\ req[r].pc = "write_obs" /\ ~Deletes(Call(r))
    /\ Blockers(r) = {}
    /\ LET c == Call(r)
           rows == Current(r)
       IN  \/ rows = {} /\ ById(c) /\ Fail(r)
           \/ /\ rows # {} \/ ~ById(c)
              /\ observations' = Remove(observations, rows, r) \cup
                    {[o EXCEPT !.by = r, !.content = c.new] : o \in rows}
              /\ history' = history \cup UpdateEntry(r)
              /\ nextID' = nextID + 1
              /\ req' = [req EXCEPT ![r].pc = "commit"]
              /\ UNCHANGED <<entities, relations>>

-----------------------------------------------------------------------------
(* DeleteRelation, DeleteRelationByTriple: one DELETE, its row count checked *)

EraseRelation(r) ==
    /\ req[r].pc \in {"delete_rel", "delete_rel_by_triple"}
    /\ Blockers(r) = {}
    /\ LET rows == Visible(Matches(r), r)
       IN  \/ rows = {} /\ Fail(r)
           \/ /\ rows # {}
              /\ relations' = Remove(relations, rows, r)
              /\ req' = [req EXCEPT ![r].pc = "commit"]
              /\ UNCHANGED <<entities, observations, history, nextID>>

-----------------------------------------------------------------------------
(* ReadGraph: one query each for entities, observations and relations, tied *)
(* together by no transaction.  The loops over the rows end when the result *)
(* ends or the connection breaks, and nobody asks rows.Err which it was: a  *)
(* result that was cut off is taken for the whole one.                      *)

ReadGraphEntities(r) ==
    /\ req[r].pc = "read_graph"
    /\ LET E == Visible(Named(Call(r).project, Call(r).name), r)
       IN  \E got \in SUBSET E :
              req' = [req EXCEPT ![r].pc = "read_graph_obs",
                        ![r].id = IF got = {} THEN Nil ELSE (CHOOSE e \in got : TRUE).id,
                        ![r].cut = got # E]
    /\ UNCHANGED tables

\* mutant of ReadGraphObservations: only the first row is scanned.
ReadGraphObservationsOne(r) ==
    /\ req[r].pc = "read_graph_obs"
    /\ LET O == {p \in Visible(observations, r) : p.entity = req[r].id}
       IN  req' = [req EXCEPT ![r].pc = "commit",
                     ![r].seen = {o.content : o \in
                        {p \in O : \A q \in O : p.id <= q.id}}]
    /\ UNCHANGED tables

\* Observations go under the entity with the id the first query found.
ReadGraphObservations(r) ==
    /\ req[r].pc = "read_graph_obs"
    /\ LET O == {p \in Visible(observations, r) : p.entity = req[r].id}
       IN  \E got \in SUBSET O :
              req' = [req EXCEPT ![r].pc = "commit",
                                 ![r].seen = {o.content : o \in got},
                                 ![r].cut = @ \/ got # O]
    /\ UNCHANGED tables

-----------------------------------------------------------------------------
(* LogHistory: a SELECT and an INSERT, each in its own transaction          *)

LogLookup(r) ==
    /\ req[r].pc = "log"
    /\ LET E == Visible(Named(Call(r).project, Call(r).name), r)
       IN  req' = [req EXCEPT ![r].pc = "log_insert",
                              ![r].id = IF E = {} THEN Nil
                                        ELSE (CHOOSE e \in E : TRUE).id]
    /\ UNCHANGED tables

LogInsert(r) ==
    /\ req[r].pc = "log_insert"
    /\ history' = history \cup
         {Record(r, req[r].id, Call(r).name, Nil, Call(r).action, Nil, Nil)}
    /\ nextID' = nextID + 1
    /\ req' = [req EXCEPT ![r].pc = "commit"]
    /\ UNCHANGED <<entities, observations, relations>>

-----------------------------------------------------------------------------
Step(r) ==
    \/ FindEntity(r) \/ InsertEntity(r) \/ SnapObservations(r)
    \/ ClearObservations(r) \/ InsertObservation(r) \/ InsertRelation(r)
    \/ SnapEntities(r) \/ Cascade(r)
    \/ ReadEntity(r) \/ CheckName(r) \/ Rename(r)
    \/ FindObservation(r) \/ EraseObservation(r) \/ WriteObservation(r)
    \/ EraseRelation(r) \/ LogLookup(r) \/ LogInsert(r)
    \/ ReadGraphEntities(r) \/ ReadGraphObservations(r)
    \/ CommitTx(r) \/ Deadlock(r)

AllReturned == \A r \in Requests : req[r].pc \in {"done", "failed"}

Next == \/ \E r \in Requests : \/ Step(r) \/ Abort(r)
                             \/ \E plan \in Plans : Begin(r, plan)
        \/ AllReturned /\ UNCHANGED vars

Spec == Init /\ [][Next]_vars

\* The Go scheduler and the database let every started request go on.
FairSpec == Spec /\ \A r \in Requests : WF_vars(Step(r))

-----------------------------------------------------------------------------
(* Properties *)

\* What a reader sees that is in no transaction of its own.
Ents == Committed(entities)
Obs == Committed(observations)
Rels == Committed(relations)
Trail == Committed(history)

TypeOK ==
    /\ \A v \in entities \cup observations \cup relations \cup history :
          /\ {v.by, v.gone} \subseteq Requests \cup {Nil}
          /\ v.id \in 1 .. nextID - 1
          /\ v.by # Nil => v.gone = Nil
    /\ \A r \in Requests : ~Running(r) =>
          \A v \in entities \cup observations \cup relations \cup history :
              r \notin {v.by, v.gone}

\* The graph every reader sees is well formed, whatever transactions are in
\* flight: an entity is identified by its project and name, an observation and
\* both ends of a relation exist, a triple exists once (schema.sql, with the
\* statements of memory.go).
GraphWellFormed ==
    /\ \A e, f \in Ents :
          e.id = f.id \/ (e.project = f.project /\ e.name = f.name) => e = f
    /\ \A o, p \in Obs : o.id = p.id => o = p
    /\ \A o \in Obs : \E e \in Ents : e.id = o.entity
    /\ \A x \in Rels : \A end \in {x.from, x.to} : \E e \in Ents : e.id = end
    /\ \A x, y \in Rels :
          x.from = y.from /\ x.to = y.to /\ x.type = y.type => x = y

\* Projects are isolated: memory_relations has no project column, so nothing
\* but the lookups of CreateRelations and Import keeps a relation inside one
\* project (schema.sql: "a relation's project is derived from its from/to
\* entities").
RelationsWithinProject ==
    \A x \in Rels : \A e, f \in Ents :
        e.id = x.from /\ f.id = x.to => e.project = f.project

Asked(r) == Range(req[r].asked)

Removes(call) ==
    \/ call.do \notin {"items", "log", "read_graph"}
    \/ call.do = "items" /\ call.replace

Stored(project, name, content) ==
    \E e \in Ents, o \in Obs : /\ e.project = project /\ e.name = name
                             /\ o.entity = e.id /\ o.content = content
Related(project, t) ==
    \E e, f \in Ents, x \in Rels :
        /\ e.project = project /\ e.name = t.from /\ e.id = x.from
        /\ f.project = project /\ f.name = t.to /\ f.id = x.to
        /\ x.type = t.type
AllStored(c) ==
    /\ \A item \in Range(c.items) : \A content \in Range(item.obs) :
          Stored(c.project, item.name, content)
    /\ \A t \in Range(c.triples) : Related(c.project, t)

\* A call that returned without an error has stored what it was given, also
\* when ON CONFLICT DO NOTHING skipped a row because of another transaction
\* (as long as nobody asks for a removal).  What an Import was given are its
\* entities and its relations with a type: it drops the others silently.
DoneIsDurable ==
    (\A r \in Requests : \A c \in Asked(r) : ~Removes(c))
    => \A r \in Requests : req[r].pc = "done" =>
          \A c \in Asked(r) : c.do = "items" => AllStored(c)

\* Nothing brings a deleted observation back: once its deletion is in the
\* audit trail no concurrent edit of it takes effect (observations.go).
DeletedStaysDeleted ==
    \A h \in Trail : h.action = "observation_deleted" =>
        \A o \in Obs : o.id # h.obs

\* Import writes no history.
Imported(content) ==
    \E r \in Requests : \E c \in Asked(r) :
        /\ c.do = "items" /\ ~c.audited
        /\ \E item \in Range(c.items) : content \in Range(item.obs)

\* Whatever an observation says was recorded: its content is the new value of
\* an entry of the trail, or it is what the database started with or imported.
\* Concurrent edits and failed calls included.
ContentIsAudited ==
    \A o \in Obs :
        \/ \E h \in Trail : h.obs = o.id /\ h.new = o.content
        \/ \E s \in SeedObservations : s.id = o.id /\ s.content = o.content
        \/ Imported(o.content)

\* The creation of an observation enters the trail together with the
\* observation: no reader sees one without the other, and a call that fails
\* halfway leaves neither (memory.go, the two INSERTs in one transaction).
CreationsAreReal ==
    [][\A h \in Trail' \ Trail : h.action = "observation_created" =>
          \E o \in Obs' : o.id = h.obs /\ o.content = h.new]_vars

Contents(id) == {o.content : o \in {p \in Obs : p.entity = id}}
IsSave(r) == IsSavePlan(req[r].asked)
SavedContents(r) == Range(req[r].asked[1].items[1].obs)
Breadcrumb(r) == req[r].asked[3].items[1].obs[1]

SavesIn(project) == {r \in Requests : IsSave(r) /\ req[r].asked[1].project = project}
SavesOf(project, name) ==
    {r \in SavesIn(project) : req[r].asked[1].items[1].name = name}

\* A request was asked to create an entity of this name, or to give one this
\* name, other than by saving a checkpoint.
NamedByHand(project, name) ==
    \E r \in Requests : \E c \in Asked(r) :
        /\ c.project = project
        /\ \/ /\ c.do = "items" /\ ~c.replace
              /\ \/ \E item \in Range(c.items) : item.name = name
                 \/ \E t \in Range(c.triples) : name \in {t.from, t.to}
           \/ c.do = "update_entity" /\ c.newName = name

\* The trail shows an edit or a deletion of an observation of the entity.
Edited(id) ==
    \E h \in Trail : /\ h.entity = id
                    /\ h.action \in {"observation_updated", "observation_deleted"}

\* The entities that only saves wrote: the active checkpoints.
Actives == {e \in Ents : ~NamedByHand(e.project, e.name)}

SeedContents(id) == {s.content : s \in {t \in SeedObservations : t.entity = id}}

\* S holds everything of one of the saves, or of what the database started
\* with under that entity.
HoldsOne(saves, id, S) ==
    \/ \E r \in saves : SavedContents(r) \subseteq S
    \/ (\E e \in SeedEntities : e.id = id) /\ SeedContents(id) \subseteq S

\* The active checkpoint is never seen half written, whatever other saves,
\* deletions and failures do: at any moment it holds everything of at least
\* one save of that checkpoint (or what the database started with), unless
\* somebody edited it by hand.
ActiveComplete ==
    \A e \in Actives : \/ Edited(e.id)
                      \/ HoldsOne(SavesOf(e.project, e.name), e.id, Contents(e.id))

\* What a session that starts is shown as the active checkpoint, although the
\* entity and its observations are read by two queries and saves, deletions and
\* renames come between: everything of at least one save in the project (more
\* when saves blend, see ActiveIsOneSave), unless somebody edited it by hand;
\* no checkpoint when the first query found none; a blank one only when it was
\* deleted between the two.  A result that was cut off is the exception, and
\* the session is not told of it (graph.go, checkpoint.go SessionBootstrap).
BootstrapSeesASave ==
    \A r \in Requests :
        LET q == req[r]
            c == Call(r)
        IN  q.pc = "commit" /\ c.do = "read_graph" =>
              \/ q.cut
              \/ q.id = Nil
              \/ q.seen = {} /\ \A e \in Ents : e.id # q.id
              \/ NamedByHand(c.project, c.name) \/ Edited(q.id)
              \/ HoldsOne(SavesIn(c.project), q.id, q.seen)

\* Somebody else writes this content.
WrittenByHand(content) ==
    \E r \in Requests : \E i \in DOMAIN req[r].asked :
        /\ ~(IsSave(r) /\ i = 3)
        /\ req[r].asked[i].do = "items"
        /\ \E item \in Range(req[r].asked[i].items) : content \in Range(item.obs)

\* The trail and the log account for the saves: a save that succeeded recorded
\* its breadcrumb, no save does so twice, and no checkpoint_saved is in the log
\* without a breadcrumb of its own, whatever fails in between.
TrailAccounts ==
    LET crumbs(B) == {h \in Trail : h.action = "observation_created" /\ h.new \in B}
        saves(b) == {r \in Requests : IsSave(r) /\ Breadcrumb(r) = b}
        all == {Breadcrumb(r) : r \in {q \in Requests : IsSave(q)}}
        events == {h \in Trail : h.action = "checkpoint_saved"}
    IN  /\ \A b \in all :
              /\ Cardinality({r \in saves(b) : req[r].pc = "done"})
                    <= Cardinality(crumbs({b}))
              /\ WrittenByHand(b) \/ Cardinality(crumbs({b})) <= Cardinality(saves(b))
        /\ Cardinality(events) <= Cardinality(crumbs(all))

\* Every request ends, although transactions wait for each other's locks in
\* any order.
EveryRequestReturns == \A r \in Requests : Running(r) ~> ~Running(r)

-----------------------------------------------------------------------------
(* What the documentation says and the code does not do *)

\* "completely replace previous observations" (shared-working-brain.md): the
\* active checkpoint is one save, not a blend.
ActiveIsOneSave ==
    \A e \in Actives :
        \/ \E r \in SavesOf(e.project, e.name) : SavedContents(r) = Contents(e.id)
        \/ Contents(e.id) = SeedContents(e.id)

=============================================================================
