------------------------------- MODULE Backup -------------------------------
(***************************************************************************)
(* The auto-backup (internal/backup/scheduler.go): each run exports every  *)
(* project with three queries that no transaction ties together            *)
(* (repository/export.go), writes the payload to a file named after the    *)
(* second it is in, and prunes the older files.  Runs overlap: cron starts *)
(* each in a goroutine of its own and a start-up run comes on top; other   *)
(* requests change the graph between the queries of an export; a shutdown  *)
(* (main.go) does not wait for a run.                                      *)
(*                                                                         *)
(* The graph is a set of rows <<from, kind, to>>, and only committed       *)
(* changes are looked at (the statements behind them are in MemoryStore).  *)
(* An entity is its id: renames, types and contents are left out.          *)
(***************************************************************************)
EXTENDS Integers, FiniteSets, FiniteSetsExt

CONSTANTS
    Runs,        \* goroutines that execute RunOnce
    Retention,   \* BACKUP_RETENTION, positive by config.go
    Seed,        \* the ids of the entities stored at the start
    MaxTime,     \* bound: seconds in which files are named
    MaxWrites,   \* bound: changes of the graph
    MaxFailures  \* bound: failures once a file is there, and query results
                 \*   that are cut off

ASSUME BackupAssumption ==
    /\ IsFiniteSet(Runs)
    /\ Retention \in Nat \ {0}
    /\ Seed \subseteq Nat /\ IsFiniteSet(Seed)
    /\ {MaxTime, MaxWrites, MaxFailures} \subseteq Nat

Times == 1 .. MaxTime

VARIABLES
    now,     \* the second in which a file was last named
    rows,    \* the committed graph
    nextID,  \* memory_entities.id
    writes,  \* changes made, for the bound
    dir,     \* dir[n]: what the backup file named after second n holds
    run,     \* run[r]: the activation of RunOnce
    cuts,    \* history: query results that were cut off
    failed,  \* history: writes and prunes that failed or never ended
    shared,  \* history: names that two runs opened
    safe,    \* history: rows stored ever since before the export of a run
             \*   that has succeeded with none of its results cut off
    saved    \* history: the last file written that had all of these, or 0

vars == <<now, rows, nextID, writes, dir, run, cuts, failed, shared,
          safe, saved>>

Entity(e) == <<e, "entity", e>>
Observation(e) == <<e, "observation", e>>
Relation(a, b) == <<a, "relation", b>>
OfKind(kind) == {row \in rows : row[2] = kind}
Stored(e) == Entity(e) \in rows

Partial == [whole |-> FALSE, rows |-> {}]
Idle == [pc |-> "idle", payload |-> {}, stable |-> {}, cut |-> FALSE,
         file |-> 0, doomed |-> {}]

Init ==
    /\ now = 0
    /\ rows = {Entity(e) : e \in Seed}
    /\ nextID = Cardinality(Seed) + 1
    /\ writes = 0
    /\ dir = [n \in {} |-> Partial]
    /\ run = [r \in Runs |-> Idle]
    /\ cuts = 0 /\ failed = 0 /\ shared = {} /\ safe = {} /\ saved = 0

-----------------------------------------------------------------------------
(* Changes of the graph by other requests                                  *)

\* The graph becomes new; what is gone from it is no longer stable or safe.
Change(new) ==
    /\ writes < MaxWrites /\ writes' = writes + 1
    /\ rows' = new
    /\ run' = [r \in Runs |-> [run[r] EXCEPT !.stable = @ \cap new]]
    /\ safe' = safe \cap new
    /\ UNCHANGED <<now, dir, cuts, failed, shared, saved>>

\* CreateEntities, one entity with at most one observation.
Create ==
    /\ \E observations \in SUBSET {Observation(nextID)} :
          Change(rows \cup {Entity(nextID)} \cup observations)
    /\ nextID' = nextID + 1

Relate(a, b) ==
    /\ Stored(a) /\ Stored(b) /\ Relation(a, b) \notin rows
    /\ Change(rows \cup {Relation(a, b)})
    /\ UNCHANGED nextID

\* DeleteEntities: observations and relations go with the entity.
Delete(e) ==
    /\ Stored(e)
    /\ Change({row \in rows : e \notin {row[1], row[3]}})
    /\ UNCHANGED nextID

-----------------------------------------------------------------------------
(* Export                                                                  *)

\* What the loop over the rows of a query result reads in `got`.  A result
\* whose connection is lost or whose context is cancelled ends early: Next
\* returns false, and nobody asks rows.Err whether it was the last row.
Reads(result, got) ==
    /\ got \subseteq result
    /\ \/ got = result /\ UNCHANGED cuts
       \/ got # result /\ cuts + failed < MaxFailures /\ cuts' = cuts + 1

\* RunOnce begins, by cron or by BACKUP_ON_START, and runs the first query.
ExportEntities(r) ==
    /\ run[r].pc = "idle"
    /\ \E got \in SUBSET OfKind("entity") :
          /\ Reads(OfKind("entity"), got)
          /\ run' = [run EXCEPT ![r] = [Idle EXCEPT !.pc = "observations",
                        !.payload = got, !.stable = rows,
                        !.cut = got # OfKind("entity")]]
    /\ UNCHANGED <<now, rows, nextID, writes, dir, failed, shared, safe, saved>>

\* mutant of Attached: only entities that have observations are written.
AttachedInner(entities, observations) ==
    {row \in entities : Observation(row[1]) \in observations}
        \cup {row \in observations : Entity(row[1]) \in entities}

\* Observations go under the entity that the first query found.
Attached(entities, observations) ==
    entities \cup {row \in observations : Entity(row[1]) \in entities}

ExportObservations(r) ==
    /\ run[r].pc = "observations"
    /\ \E got \in SUBSET OfKind("observation") :
          /\ Reads(OfKind("observation"), got)
          /\ run' = [run EXCEPT ![r].pc = "relations",
                                ![r].payload = Attached(@, got),
                                ![r].cut = @ \/ got # OfKind("observation")]
    /\ UNCHANGED <<now, rows, nextID, writes, dir, failed, shared, safe, saved>>

\* The last query, and the file name taken from the clock after it: a second
\* in which another run took its name, or a later one.
ExportRelations(r) ==
    /\ run[r].pc = "relations"
    /\ now' \in {now, now + 1} \cap Times
    /\ \E got \in SUBSET OfKind("relation") :
          /\ Reads(OfKind("relation"), got)
          /\ run' = [run EXCEPT ![r].pc = "open", ![r].file = now',
                                ![r].payload = @ \cup got,
                                ![r].cut = @ \/ got # OfKind("relation")]
    /\ UNCHANGED <<rows, nextID, writes, dir, failed, shared, safe, saved>>

\* A query cannot be sent, for want of a connection or because the shutdown
\* has cancelled its context, or the file cannot be opened: RunOnce returns an
\* error and leaves no trace.
ExportFails(r) ==
    /\ run[r].pc \in {"observations", "relations", "open"}
    /\ run' = [run EXCEPT ![r] = Idle]
    /\ UNCHANGED <<now, rows, nextID, writes, dir, cuts, failed, shared, safe,
                   saved>>

\* Import of a payload: an endpoint that is not among its entities is created.
Restored(payload) == payload \cup {Entity(row[1]) : row \in payload}
                             \cup {Entity(row[3]) : row \in payload}

-----------------------------------------------------------------------------
(* The file                                                                *)

\* os.WriteFile creates or truncates the file ...
Open(r) ==
    LET n == run[r].file IN
    /\ run[r].pc = "open"
    /\ dir' = [m \in DOMAIN dir \cup {n} |-> IF m = n THEN Partial ELSE dir[m]]
    /\ shared' = IF n \in DOMAIN dir THEN shared \cup {n} ELSE shared
    /\ run' = [run EXCEPT ![r].pc = "write"]
    /\ UNCHANGED <<now, rows, nextID, writes, cuts, failed, safe, saved>>

\* ... and writes it; a file pruned meanwhile is written to no avail.
Write(r) ==
    LET n == run[r].file
        whole == [whole |-> TRUE, rows |-> run[r].payload]
    IN
    /\ run[r].pc = "write"
    /\ dir' = [m \in DOMAIN dir |-> IF m = n THEN whole ELSE dir[m]]
    /\ safe' = IF run[r].cut THEN safe ELSE safe \cup run[r].stable
    /\ saved' = IF run[r].cut \/ ~ safe' \subseteq run[r].payload
                THEN saved ELSE n
    /\ run' = [run EXCEPT ![r] = [Idle EXCEPT !.pc = "list"]]
    /\ UNCHANGED <<now, rows, nextID, writes, cuts, failed, shared>>

\* The disk is full: the partial file stays and nothing is pruned.
WriteFails(r) ==
    /\ run[r].pc = "write" /\ cuts + failed < MaxFailures
    /\ failed' = failed + 1
    /\ run' = [run EXCEPT ![r] = Idle]
    /\ UNCHANGED <<now, rows, nextID, writes, dir, cuts, shared, safe, saved>>

-----------------------------------------------------------------------------
(* prune                                                                   *)

\* The files beyond the newest `keep` names.
Beyond(files, keep) ==
    {n \in files : Cardinality({m \in files : m > n}) >= keep}

\* mutants of Doomed: sorted the wrong way round, and cut one too early and
\* one too late.
DoomedNewest(files) ==
    {n \in files : Cardinality({m \in files : m < n}) >= Retention}
DoomedOneMore(files) == Beyond(files, Retention - 1)
DoomedOneLess(files) == Beyond(files, Retention + 1)

Doomed(files) == Beyond(files, Retention)

\* What is left of a run with these files still to remove: when there are
\* none, RunOnce returns.
Pruning(files) ==
    IF files = {} THEN Idle ELSE [Idle EXCEPT !.pc = "prune", !.doomed = files]

List(r) ==
    /\ run[r].pc = "list"
    /\ run' = [run EXCEPT ![r] = Pruning(Doomed(DOMAIN dir))]
    /\ UNCHANGED <<now, rows, nextID, writes, dir, cuts, failed, shared, safe,
                   saved>>

\* One os.Remove, newest first; a file another run has removed is skipped.
RemoveFile(r) ==
    LET n == Max(run[r].doomed) IN
    /\ run[r].pc = "prune"
    /\ dir' = [m \in DOMAIN dir \ {n} |-> dir[m]]
    /\ run' = [run EXCEPT ![r] = Pruning(run[r].doomed \ {n})]
    /\ UNCHANGED <<now, rows, nextID, writes, cuts, failed, shared, safe, saved>>

\* The directory cannot be read: nothing is pruned, and RunOnce succeeds.
ListFails(r) ==
    /\ run[r].pc = "list" /\ cuts + failed < MaxFailures
    /\ failed' = failed + 1
    /\ run' = [run EXCEPT ![r] = Idle]
    /\ UNCHANGED <<now, rows, nextID, writes, dir, cuts, shared, safe, saved>>

\* os.Remove fails; prune goes on with the next file.
RemoveFails(r) ==
    /\ run[r].pc = "prune" /\ cuts + failed < MaxFailures
    /\ failed' = failed + 1
    /\ run' = [run EXCEPT ![r] = Pruning(run[r].doomed \ {Max(run[r].doomed)})]
    /\ UNCHANGED <<now, rows, nextID, writes, dir, cuts, shared, safe, saved>>

-----------------------------------------------------------------------------
\* main returns without waiting for the scheduler, or the process is killed;
\* the server starts again.
Restart ==
    LET died == {r \in Runs : run[r].pc \in {"write", "list", "prune"}} IN
    /\ cuts + failed + Cardinality(died) <= MaxFailures
    /\ failed' = failed + Cardinality(died)
    /\ run' = [r \in Runs |-> Idle]
    /\ UNCHANGED <<now, rows, nextID, writes, dir, cuts, shared, safe, saved>>

Requested ==
    \/ Create
    \/ \E a, b \in 1 .. nextID : Relate(a, b)
    \/ \E e \in 1 .. nextID : Delete(e)

RunOnce(r) ==
    \/ ExportEntities(r) \/ ExportObservations(r) \/ ExportRelations(r)
    \/ ExportFails(r)
    \/ Open(r) \/ Write(r) \/ WriteFails(r)
    \/ List(r) \/ ListFails(r) \/ RemoveFile(r) \/ RemoveFails(r)

Next == Requested \/ (\E r \in Runs : RunOnce(r)) \/ Restart

Spec == Init /\ [][Next]_vars

-----------------------------------------------------------------------------
(* Properties                                                              *)

Kinds == {"entity", "observation", "relation"}
IsGraph(s) ==
    \A row \in s : row[2] \in Kinds /\ Entity(row[1]) \in s /\ Entity(row[3]) \in s

\* However the queries of an export interleave with changes and wherever its
\* results are cut off, importing its payload gives a graph whose relations and
\* observations have their entities; and it brings back every row that was
\* stored throughout if none of its results was cut off.
ExportHasTheStable ==
    \A r \in Runs :
        run[r].pc \in {"open", "write"} =>
            /\ run[r].stable \subseteq run[r].payload \/ run[r].cut
            /\ IsGraph(Restored(run[r].payload))

\* "Scheduler runs periodic exports of all memory data to JSON files."
\* (scheduler.go, comment of Scheduler): what a run is about to write, and to
\* log as written, has every row that was stored throughout its export.
ExportsAllData ==
    \A r \in Runs :
        run[r].pc = "write" => run[r].stable \subseteq run[r].payload

\* No run, not even one that works from an old listing, removes a file while
\* fewer than Retention newer ones are left ("Retention: keep N file terbaru",
\* docs/plans/2026-07-05-auto-backup-design.md:17).
PruneKeepsNewest ==
    [][\A n \in DOMAIN dir \ DOMAIN dir' :
          Cardinality({m \in DOMAIN dir' : m > n}) >= Retention]_vars

\* What a successful run has backed up and is still stored can be restored
\* from one file, until Retention files newer than the one that last had all of
\* it are on disk, each partial or cut off or of an export that began earlier.
\* A file that two runs opened is excepted: the second truncates the first's.
SafeIsRestorable ==
    \/ safe = {}
    \/ saved \in shared
    \/ \E n \in DOMAIN dir : dir[n].whole /\ safe \subseteq dir[n].rows
    \/ Cardinality({n \in DOMAIN dir : n > saved /\ ~ safe \subseteq dir[n].rows})
          >= Retention

\* Between runs at most Retention files are on disk, and one more for each
\* failed write or removal and each run that a restart cut short.
DiskIsBounded ==
    (\A r \in Runs : run[r].pc = "idle") =>
        Cardinality(DOMAIN dir) <= Retention + failed
=============================================================================
