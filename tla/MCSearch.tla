------------------------------ MODULE MCSearch ------------------------------
(* Model checking of Search on small instances. *)
EXTENDS Search, TLC

CONSTANTS p, o, n, m, a, b   \* two projects, two names and two words

TwoProjects == {p, o}
FourWords == {n, m, a, b}

\* A query and a vector are near when they share a word.
ShareAWord(q, v) == q \cap v # {}

ThreeEntities == {[id |-> 1, project |-> p, name |-> n],
                  [id |-> 2, project |-> p, name |-> m],
                  [id |-> 3, project |-> o, name |-> n]}

\* One observation with its vector and two without.
ThreeNotes == {[id |-> 4, entity |-> 1, content |-> {a}, vec |-> {a}],
               [id |-> 5, entity |-> 2, content |-> {b}, vec |-> NoVector],
               [id |-> 6, entity |-> 3, content |-> {a}, vec |-> NoVector]}

Some == [do |-> "add", project |-> p, name |-> n, newName |-> m, id |-> 4,
         old |-> {a}, content |-> {b}]

AllWrites ==
    {[Some EXCEPT !.do = d] :
        d \in {"add", "import", "edit", "edit_by_content", "forget",
               "forget_by_content", "delete", "rename"}}
      \cup {[Some EXCEPT !.do = "edit", !.id = 5, !.content = {a}],
            [Some EXCEPT !.do = "delete", !.name = m]}

AllQueries == {[project |-> p, words |-> {a}], [project |-> p, words |-> {}],
               [project |-> Nil, words |-> {a, b}]}
=============================================================================
