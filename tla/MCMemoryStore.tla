---------------------------- MODULE MCMemoryStore ----------------------------
(* Model checking of MemoryStore: small databases and menus of requests.   *)
EXTENDS MemoryStore, TLC

Symm == Permutations(Requests)

None == {}
Item1(name, type, contents) == << [name |-> name, type |-> type,
                                   obs |-> contents] >>
Edge == << [from |-> "a", to |-> "b", type |-> "uses"] >>
There == << [from |-> "b", to |-> "c", type |-> "uses"] >>
Untyped == << [from |-> "a", to |-> "c", type |-> Nil] >>
Back == << [from |-> "c", to |-> "b", type |-> "uses"] >>

\* One entity that exists under the same name in two projects.
TwoProjects == {[id |-> 1, project |-> "p", name |-> "a", type |-> "concept"],
                [id |-> 2, project |-> "q", name |-> "a", type |-> "concept"]}

\* Everything that writes entities and relations.
GraphPlans ==
    { << CreateEntities("p", Item1("b", "tool", << "x" >>)) >>,
      << AddObservations("p", "a", << "y", "z" >>) >>,
      << CreateRelations("p", There) >>,
      << CreateRelations("p", Back) >>,
      << CreateRelations("q", Edge) >>,
      << Import("q", Item1("b", "tool", << "x" >>), Untyped \o Edge) >>,
      << DeleteEntities("p", {"a", "b"}) >>,
      << UpdateEntity("p", "a", "b", "concept") >>,
      << UpdateEntity("p", "a", "a", "tool") >>,
      << DeleteRelation("p", 5) >>,
      << DeleteRelationByTriple("p", "b", "c", "uses") >> }

\* A project whose active checkpoint was saved before, and a note.
Active == {[id |-> 1, project |-> "p", name |-> "active", type |-> "checkpoint"]}
OldFocus == [id |-> 2, entity |-> 1, content |-> "f0"]
Noted == Active \cup
    {[id |-> 3, project |-> "p", name |-> "a", type |-> "concept"]}
Notes == {OldFocus, [id |-> 4, entity |-> 3, content |-> "x"]}

SavePlans ==
    { SaveCheckpoint("p", "active", "trail", << "f1", "s1" >>, "b1"),
      SaveCheckpoint("p", "active", "trail", << "f2", "s2" >>, "b2") }

\* Two edits by id, one of which writes back what is there.
EditPlans ==
    { << UpdateObservation("p", 4, "y") >>, << UpdateObservation("p", 4, "x") >> }

\* Everything that writes observations, and calls that lock in both orders.
NotePlans == SavePlans \cup EditPlans \cup
    { << DeleteEntities("p", {"active"}) >>,
      << AddObservations("p", "a", << "x" >>) >>,
      SessionBootstrap("p", "active"),
      << DeleteObservation("p", 4) >>,
      << DeleteObservationByContent("p", "a", "x") >>,
      << UpdateObservationByContent("p", "a", "x", "z") >>,
      << CreateRelations("p", There) >>,
      << CreateRelations("p", Back) >> }
=============================================================================
