----------------------------- MODULE PlanProofs -----------------------------
(***************************************************************************)
(* What a request knows of its plan, and what follows for the checkpoints, *)
(* the audit trail and the calls that returned: the invariants of          *)
(* MemoryStore that relate the tables to what the requests were asked.     *)
(***************************************************************************)
EXTENDS MemoryStoreProofs, SequenceTheorems

(* ---- Where a request stands in its plan ------------------------------- *)

ItemPcs == {"find_item", "insert_item", "snap_obs", "clear_obs", "insert_obs"}
TriplePcs == {"find_from", "insert_from", "find_to", "insert_to", "insert_rel"}
ObsKinds == {"delete_obs", "update_obs", "delete_obs_by_content",
             "update_obs_by_content"}

\* The statement at pc belongs to a call of kind do.
Stands(pc, do) ==
    \/ pc \in ItemPcs \cup TriplePcs /\ do = "items"
    \/ pc \in {"delete_entities", "cascade"} /\ do = "delete_entities"
    \/ pc \in {"update_entity", "check_name", "rename"} /\ do = "update_entity"
    \/ pc = "write_obs" /\ do \in ObsKinds
    \/ pc \in ObsKinds \cup {"delete_rel", "delete_rel_by_triple"} /\ do = pc
    \/ pc \in {"log", "log_insert"} /\ do = "log"
    \/ pc \in {"read_graph", "read_graph_obs"} /\ do = "read_graph"
    \/ pc = "commit"

\* plan is what is left of asked.
Suffix(plan, asked) ==
    /\ plan \in Seq(Calls) /\ asked \in Seq(Calls)
    /\ Len(plan) <= Len(asked)
    /\ \A i \in 1 .. Len(plan) : plan[i] = asked[Len(asked) - Len(plan) + i]

\* Where the loops of call c stand.
Loops(q, c) ==
    /\ q.items \in Seq(Range(c.items)) /\ q.triples \in Seq(Range(c.triples))
    /\ q.pc \in ItemPcs => q.items # << >>
    /\ q.pc = "insert_obs" =>
          q.contents # << >> /\ q.contents \in Seq(Range(Head(q.items).obs))
    /\ q.pc \in {"snap_obs", "clear_obs"} =>
          c.replace /\ q.contents = Head(q.items).obs
    /\ q.pc \in TriplePcs => q.items = << >> /\ q.triples # << >>
    /\ q.pc = "commit" => q.items = << >> /\ q.triples = << >>
    /\ c.replace => q.pc \in ItemPcs \cup {"commit"} /\ q.triples = << >>
    /\ c.replace /\ q.pc \in ItemPcs => q.items = c.items

Ended == {"idle", "done", "failed"}

\* What holds of a request whatever the tables hold.
PlanOf(q) ==
    /\ q.pc = "idle" => q.asked = << >>
    /\ q.pc # "idle" => q.asked \in Plans
    /\ Suffix(q.plan, q.asked)
    /\ q.pc = "done" => q.plan = << >>
    /\ q.pc \notin Ended =>
          /\ q.plan # << >> /\ Stands(q.pc, Head(q.plan).do)
          /\ Head(q.plan).do = "items" => Loops(q, Head(q.plan))

Planned == \A r \in Requests : PlanOf(req[r])

(* ---- Sequences -------------------------------------------------------- *)

LEMMA HeadAndTail ==
    ASSUME NEW S, NEW s \in Seq(S), s # << >>
    PROVE  /\ Head(s) \in S /\ Tail(s) \in Seq(S)
           /\ Head(s) \in Range(s)
           /\ Range(s) = {Head(s)} \cup Range(Tail(s))
<1>1. /\ Len(s) \in Nat \ {0} /\ DOMAIN s = 1 .. Len(s) /\ Head(s) = s[1]
      /\ Head(s) \in S
  BY EmptySeq, LenProperties, HeadTailProperties
<1>2. /\ Tail(s) \in Seq(S) /\ Len(Tail(s)) = Len(s) - 1
      /\ \A i \in 1 .. Len(Tail(s)) : Tail(s)[i] = s[i + 1]
      /\ DOMAIN Tail(s) = 1 .. Len(Tail(s))
  BY HeadTailProperties, LenProperties
<1>3. PICK n, t : n = Len(s) /\ t = Tail(s)
  OBVIOUS
<1>4. /\ n \in Nat \ {0} /\ DOMAIN s = 1 .. n /\ DOMAIN t = 1 .. n - 1
      /\ \A i \in 1 .. n - 1 : t[i] = s[i + 1]
  BY <1>1, <1>2, <1>3
<1>5. Range(s) \subseteq {s[1]} \cup Range(t)
  <2> SUFFICES ASSUME NEW i \in 1 .. n, i # 1
      PROVE  s[i] \in Range(t)
    BY <1>4 DEF Range
  <2>1. i - 1 \in 1 .. n - 1 /\ t[i - 1] = s[i]
    BY <1>4
  <2> QED
    BY <1>4, <2>1 DEF Range
<1>6. {s[1]} \cup Range(t) \subseteq Range(s)
  <2>1. \A i \in 1 .. n - 1 : i + 1 \in 1 .. n
    BY <1>4
  <2>2. 1 \in 1 .. n
    BY <1>4
  <2> QED
    BY <1>4, <2>1, <2>2 DEF Range
<1> QED
  BY <1>1, <1>2, <1>3, <1>5, <1>6

\* What is left of a plan was asked.
LEMMA SuffixIsAsked ==
    ASSUME NEW plan, NEW asked, Suffix(plan, asked)
    PROVE  Range(plan) \subseteq Range(asked)
<1>1. PICK m, n : m = Len(plan) /\ n = Len(asked)
  OBVIOUS
<1>2. m \in Nat /\ n \in Nat /\ DOMAIN plan = 1 .. m /\ DOMAIN asked = 1 .. n
  BY <1>1, LenProperties DEF Suffix
<1>3. m <= n /\ \A i \in 1 .. m : plan[i] = asked[n - m + i]
  BY <1>1 DEF Suffix
<1>4. \A i \in 1 .. m : n - m + i \in 1 .. n
  BY <1>2, <1>3
<1> QED
  BY <1>2, <1>3, <1>4 DEF Range

LEMMA SuffixTail ==
    ASSUME NEW plan, NEW asked, Suffix(plan, asked), plan # << >>
    PROVE  Suffix(Tail(plan), asked)
<1>1. PICK m, n, t : m = Len(plan) /\ n = Len(asked) /\ t = Tail(plan)
  OBVIOUS
<1>2. m \in Nat \ {0} /\ n \in Nat
  BY <1>1, EmptySeq, LenProperties DEF Suffix
<1>3. m <= n /\ \A i \in 1 .. m : plan[i] = asked[n - m + i]
  BY <1>1 DEF Suffix
<1>4. /\ t \in Seq(Calls) /\ Len(t) = m - 1
      /\ \A i \in 1 .. m - 1 : t[i] = plan[i + 1]
  BY <1>1, HeadTailProperties DEF Suffix
<1>5. \A i \in 1 .. m - 1 : i + 1 \in 1 .. m /\ n - m + (i + 1) = n - (m - 1) + i
  BY <1>2
<1>6. \A i \in 1 .. m - 1 : t[i] = asked[n - (m - 1) + i]
  BY <1>3, <1>4, <1>5
<1>7. m - 1 <= n
  BY <1>2, <1>3
<1> QED
  BY <1>1, <1>4, <1>6, <1>7 DEF Suffix

\* The next call of a request, and its place in what was asked.
LEMMA NextCall ==
    ASSUME NEW plan, NEW asked, Suffix(plan, asked), plan # << >>
    PROVE  /\ Head(plan) \in Calls /\ Head(plan) \in Range(asked)
           /\ Len(asked) - Len(plan) + 1 \in 1 .. Len(asked)
           /\ Head(plan) = asked[Len(asked) - Len(plan) + 1]
<1>1. PICK m, n : m = Len(plan) /\ n = Len(asked)
  OBVIOUS
<1>2. m \in Nat \ {0} /\ n \in Nat
  BY <1>1, EmptySeq, LenProperties DEF Suffix
<1>3. Head(plan) = plan[1] /\ Head(plan) \in Calls /\ Head(plan) \in Range(plan)
  BY HeadTailProperties, HeadAndTail DEF Suffix
<1>4. m <= n /\ plan[1] = asked[n - m + 1]
  BY <1>1, <1>2 DEF Suffix
<1>5. n - m + 1 \in 1 .. n
  BY <1>2, <1>4
<1> QED
  BY <1>1, <1>3, <1>4, <1>5, SuffixIsAsked

\* The calls of a plan that SaveCheckpoint makes.
LEMMA SaveCalls ==
    ASSUME NEW plan, IsSavePlan(plan)
    PROVE  /\ Len(plan) = 4
           /\ \A i \in 1 .. 3 :
                 /\ plan[i].do = "items" /\ plan[i].audited /\ plan[i].triples = << >>
                 /\ plan[i].items = << plan[i].items[1] >>
                 /\ plan[i].project = plan[1].project
           /\ plan[1].replace /\ ~plan[2].replace /\ ~plan[3].replace
           /\ plan[2].items[1].obs = << >>
           /\ plan[3].items[1].obs = << plan[3].items[1].obs[1] >>
           /\ plan[4].do = "log" /\ plan[4].action = "checkpoint_saved"
           /\ plan[4].project = plan[1].project
<1>1. PICK p, a, t, o, b : plan = SaveCheckpoint(p, a, t, o, b)
  BY DEF IsSavePlan
<1>2. PICK i1, i2, i3 :
         /\ i1 = [name |-> a, type |-> "checkpoint", obs |-> o]
         /\ i2 = [name |-> t, type |-> "checkpoint_trail", obs |-> << >>]
         /\ i3 = [name |-> t, type |-> "concept", obs |-> << b >>]
  OBVIOUS
<1>3. PICK c1, c2, c3, c4 :
         /\ c1 = ReplaceEntities(p, << i1 >>) /\ c2 = CreateEntities(p, << i2 >>)
         /\ c3 = CreateEntities(p, << i3 >>)
         /\ c4 = LogHistory(p, a, "checkpoint_saved")
  OBVIOUS
<1>4. plan = << c1, c2, c3, c4 >>
  BY <1>1, <1>2, <1>3 DEF SaveCheckpoint, AddObservations
<1>5. /\ c1.do = "items" /\ c1.audited /\ c1.triples = << >> /\ c1.items = << i1 >>
      /\ c1.replace /\ c1.project = p
  BY <1>3 DEF ReplaceEntities, CreateEntities
<1>6. /\ c2.do = "items" /\ c2.audited /\ c2.triples = << >> /\ c2.items = << i2 >>
      /\ ~c2.replace /\ c2.project = p
  BY <1>3 DEF CreateEntities
<1>7. /\ c3.do = "items" /\ c3.audited /\ c3.triples = << >> /\ c3.items = << i3 >>
      /\ ~c3.replace /\ c3.project = p
  BY <1>3 DEF CreateEntities
<1>8. c4.do = "log" /\ c4.action = "checkpoint_saved" /\ c4.project = p
  BY <1>3 DEF LogHistory
<1>9. i2.obs = << >> /\ i3.obs = << b >>
  BY <1>2
<1>10. plan[1] = c1 /\ plan[2] = c2 /\ plan[3] = c3 /\ plan[4] = c4
  BY <1>4
<1> QED
  BY <1>4, <1>5, <1>6, <1>7, <1>8, <1>9, <1>10

\* Only the first call of a save replaces observations.
LEMMA ReplacesFirst ==
    ASSUME NEW asked \in Plans, NEW plan, Suffix(plan, asked), plan # << >>,
           Head(plan).do = "items", Head(plan).replace
    PROVE  IsSavePlan(asked) /\ Head(plan) = asked[1] /\ Len(plan) = 4
<1>1. PICK m, n, c : m = Len(plan) /\ n = Len(asked) /\ c = Head(plan)
  OBVIOUS
<1>2. c \in Range(asked) /\ n - m + 1 \in 1 .. n /\ c = asked[n - m + 1]
  BY <1>1, NextCall
<1>3. IsSavePlan(asked)
  BY <1>1, <1>2, SaveAssumption
<1>4. n = 4 /\ c.do = "items" /\ c.replace
  BY <1>1, <1>3, SaveCalls
<1>5. m \in Nat
  BY <1>1, LenProperties DEF Suffix
<1>6. n - m + 1 # 2 /\ n - m + 1 # 3 /\ n - m + 1 # 4
  BY <1>2, <1>3, <1>4, SaveCalls
<1>7. n - m + 1 = 1
  BY <1>2, <1>4, <1>5, <1>6
<1> QED
  BY <1>1, <1>2, <1>3, <1>4, <1>5, <1>7

(* ---- Request states, field by field ------------------------------------ *)

\* Where StartCall stands.
LEMMA StartFields ==
    ASSUME NEW asked, NEW plan \in Seq(Calls), NEW q, q = StartCall(asked, plan)
    PROVE  /\ Shape(q) /\ q.asked = asked /\ q.plan = plan /\ q.contents = << >>
           /\ q.id = Nil /\ q.id2 = Nil /\ q.obs = Nil /\ q.name = Nil
           /\ q.old = Nil /\ q.snap = {} /\ q.seen = {}
           /\ plan = << >> => q.pc = "done" /\ q.items = << >> /\ q.triples = << >>
           /\ plan # << >> /\ Head(plan).do = "items" =>
                 /\ q.items = Head(plan).items /\ q.triples = Head(plan).triples
                 /\ q.pc = LoopPc(q.items, q.triples)
           /\ plan # << >> /\ Head(plan).do # "items" =>
                 q.pc = Head(plan).do /\ q.items = << >> /\ q.triples = << >>
<1>1. PICK start : start = [Fresh EXCEPT !.asked = asked, !.plan = plan]
  OBVIOUS
<1>2. /\ Shape(start) /\ start.asked = asked /\ start.plan = plan
      /\ start.contents = << >> /\ start.items = << >> /\ start.triples = << >>
      /\ start.id = Nil /\ start.id2 = Nil /\ start.obs = Nil /\ start.name = Nil
      /\ start.old = Nil /\ start.snap = {} /\ start.seen = {}
  BY <1>1 DEF Shape, Fresh, Fields
<1>3. CASE plan = << >>
  <2>1. q = [start EXCEPT !.pc = "done"]
    BY <1>1, <1>3 DEF StartCall
  <2> QED
    BY <1>2, <1>3, <2>1 DEF Shape, Fields
<1>4. PICK call : call = Head(plan)
  OBVIOUS
<1>5. CASE plan # << >> /\ call.do = "items"
  <2>1. PICK pc : pc = LoopPc(call.items, call.triples)
    OBVIOUS
  <2>2. q = [start EXCEPT !.pc = pc, !.items = call.items, !.triples = call.triples]
    BY <1>1, <1>4, <1>5, <2>1 DEF StartCall
  <2>3. /\ Shape(q) /\ q.asked = asked /\ q.plan = plan
        /\ q.contents = << >> /\ q.items = call.items /\ q.triples = call.triples
        /\ q.id = Nil /\ q.id2 = Nil /\ q.obs = Nil /\ q.name = Nil
        /\ q.old = Nil /\ q.snap = {} /\ q.seen = {} /\ q.pc = pc
    BY <1>2, <2>2 DEF Shape, Fields
  <2> QED
    BY <1>4, <1>5, <2>1, <2>3
<1>6. CASE plan # << >> /\ call.do # "items"
  <2>1. PICK pc : pc = call.do
    OBVIOUS
  <2>2. q = [start EXCEPT !.pc = pc]
    BY <1>1, <1>4, <1>6, <2>1 DEF StartCall
  <2>3. /\ Shape(q) /\ q.asked = asked /\ q.plan = plan
        /\ q.contents = << >> /\ q.items = << >> /\ q.triples = << >>
        /\ q.id = Nil /\ q.id2 = Nil /\ q.obs = Nil /\ q.name = Nil
        /\ q.old = Nil /\ q.snap = {} /\ q.seen = {} /\ q.pc = pc
    BY <1>2, <2>2 DEF Shape, Fields
  <2> QED
    BY <1>4, <1>6, <2>1, <2>3
<1> QED
  BY <1>3, <1>4, <1>5, <1>6

\* A request that failed.
LEMMA FailedFields ==
    ASSUME NEW asked, NEW q, q = [Fresh EXCEPT !.pc = "failed", !.asked = asked]
    PROVE  Shape(q) /\ q.pc = "failed" /\ q.asked = asked /\ q.plan = << >>
BY DEF Shape, Fresh, Fields

\* A request that begins a call stands at its start.
LEMMA StartPlanned ==
    ASSUME NEW asked \in Plans, NEW plan, Suffix(plan, asked),
           NEW q, q = StartCall(asked, plan)
    PROVE  PlanOf(q)
<1>1. plan \in Seq(Calls)
  BY DEF Suffix
<1>2. /\ q.asked = asked /\ q.plan = plan
      /\ plan = << >> => q.pc = "done" /\ q.items = << >> /\ q.triples = << >>
      /\ plan # << >> /\ Head(plan).do = "items" =>
            /\ q.items = Head(plan).items /\ q.triples = Head(plan).triples
            /\ q.pc = LoopPc(q.items, q.triples)
      /\ plan # << >> /\ Head(plan).do # "items" =>
            q.pc = Head(plan).do /\ q.items = << >> /\ q.triples = << >>
  BY <1>1, StartFields
<1>3. CASE plan = << >>
  BY <1>2, <1>3 DEF PlanOf, Ended
<1>4. PICK c : c = Head(plan)
  OBVIOUS
<1>5. ASSUME plan # << >> PROVE c \in Calls /\ c.do \in Kinds
  BY <1>4, <1>5, NextCall, PlanAssumption
<1>6. CASE plan # << >> /\ c.do # "items"
  <2>1. Stands(q.pc, c.do) /\ q.pc \in Kinds
    BY <1>2, <1>4, <1>5, <1>6 DEF Stands, Kinds, ObsKinds
  <2> QED
    BY <1>2, <1>4, <1>6, <2>1 DEF PlanOf, Ended, Kinds
<1>7. CASE plan # << >> /\ c.do = "items"
  <2>1. /\ q.items = c.items /\ q.triples = c.triples
        /\ q.pc = LoopPc(q.items, q.triples)
    BY <1>2, <1>4, <1>7
  <2>2. q.items \in Seq(Range(c.items)) /\ q.triples \in Seq(Range(c.triples))
    BY <1>5, <1>7, <2>1, PlanAssumption
  <2>3. \/ q.items # << >> /\ q.pc = "find_item"
        \/ q.items = << >> /\ q.triples # << >> /\ q.pc = "find_from"
        \/ q.items = << >> /\ q.triples = << >> /\ q.pc = "commit"
    BY <2>1 DEF LoopPc
  <2>4. c.replace => q.triples = << >>
    <3>1. ASSUME c.replace PROVE IsSavePlan(asked) /\ c = asked[1]
      BY <1>4, <1>7, <3>1, ReplacesFirst
    <3> QED
      BY <2>1, <3>1, SaveCalls
  <2>5. Loops(q, c)
    BY <2>1, <2>2, <2>3, <2>4 DEF Loops, ItemPcs, TriplePcs
  <2>6. Stands(q.pc, c.do)
    BY <1>7, <2>3 DEF Stands, ItemPcs, TriplePcs
  <2> QED
    BY <1>2, <1>4, <1>7, <2>3, <2>5, <2>6 DEF PlanOf, Ended
<1> QED
  BY <1>3, <1>4, <1>6, <1>7

(* ---- The loop over items ----------------------------------------------- *)

\* A request in an item, with contents of it still to insert.
InItem(q) ==
    /\ q.asked \in Plans /\ Suffix(q.plan, q.asked) /\ q.plan # << >>
    /\ Head(q.plan).do = "items"
    /\ q.items \in Seq(Range(Head(q.plan).items)) /\ q.items # << >>
    /\ q.triples \in Seq(Range(Head(q.plan).triples))
    /\ q.contents \in Seq(Range(Head(q.items).obs))
    /\ Head(q.plan).replace => q.items = Head(q.plan).items /\ q.triples = << >>

\* n has these contents to insert, or is done with the item of q.
Followed(q, n, contents) ==
    /\ n.contents = contents /\ n.triples = q.triples
    /\ contents # << >> => n.pc = "insert_obs" /\ n.items = q.items
    /\ contents = << >> => /\ n.items = Tail(q.items)
                           /\ n.pc = LoopPc(n.items, n.triples)

\* The rest of a request state that a statement of a call leaves alone.
Within(q, n) ==
    /\ Shape(n) /\ n.asked = q.asked /\ n.plan = q.plan /\ n.obs = q.obs
    /\ n.name = q.name /\ n.old = q.old /\ n.seen = q.seen

LEMMA AfterItemFields ==
    ASSUME NEW q, Shape(q), NEW n, n = AfterItem(q)
    PROVE  /\ Within(q, n) /\ n.id = q.id /\ n.id2 = q.id2 /\ n.snap = q.snap
           /\ Followed(q, n, q.contents)
<1>1. CASE q.contents # << >>
  <2>1. n = [q EXCEPT !.pc = "insert_obs"]
    BY <1>1 DEF AfterItem
  <2>2. Within(q, n) /\ n.id = q.id /\ n.id2 = q.id2 /\ n.snap = q.snap
    BY <2>1 DEF Within, Shape, Fields
  <2>3. n.contents = q.contents /\ n.triples = q.triples /\ n.pc = "insert_obs"
        /\ n.items = q.items
    BY <2>1 DEF Shape, Fields
  <2> QED
    BY <1>1, <2>2, <2>3 DEF Followed
<1>2. CASE q.contents = << >>
  <2>1. PICK items, pc : items = Tail(q.items) /\ pc = LoopPc(items, q.triples)
    OBVIOUS
  <2>2. n = [q EXCEPT !.items = items, !.pc = pc]
    BY <1>2, <2>1 DEF AfterItem
  <2>3. Within(q, n) /\ n.id = q.id /\ n.id2 = q.id2 /\ n.snap = q.snap
    BY <2>2 DEF Within, Shape, Fields
  <2>4. n.contents = q.contents /\ n.triples = q.triples /\ n.pc = pc
        /\ n.items = items
    BY <2>2 DEF Shape, Fields
  <2> QED
    BY <1>2, <2>1, <2>3, <2>4 DEF Followed
<1> QED
  BY <1>1, <1>2

LEMMA InItemFollows ==
    ASSUME NEW q, InItem(q), NEW contents,
           contents \in Seq(Range(Head(q.items).obs)),
           NEW n, Within(q, n), Followed(q, n, contents)
    PROVE  /\ PlanOf(n)
           /\ Head(n.plan).replace /\ contents = << >> => n.pc = "commit"
<1>1. PICK c : c = Head(q.plan)
  OBVIOUS
<1>2. /\ n.asked = q.asked /\ n.plan = q.plan
  BY DEF Within
<1>3. /\ c.do = "items" /\ q.items \in Seq(Range(c.items)) /\ q.items # << >>
      /\ q.triples \in Seq(Range(c.triples))
      /\ c.replace => q.items = c.items /\ q.triples = << >>
  BY <1>1 DEF InItem
<1>4. CASE contents # << >>
  <2>1. /\ n.pc = "insert_obs" /\ n.items = q.items /\ n.contents = contents
        /\ n.triples = q.triples
    BY <1>4 DEF Followed
  <2>2. Loops(n, c)
    BY <1>3, <1>4, <2>1 DEF Loops, ItemPcs, TriplePcs
  <2>3. Stands(n.pc, c.do)
    BY <1>3, <2>1 DEF Stands, ItemPcs
  <2> QED
    BY <1>1, <1>2, <1>4, <2>1, <2>2, <2>3 DEF PlanOf, InItem, Ended
<1>5. CASE contents = << >>
  <2>1. /\ n.items = Tail(q.items) /\ n.triples = q.triples
        /\ n.pc = LoopPc(n.items, n.triples)
    BY <1>5 DEF Followed
  <2>2. n.items \in Seq(Range(c.items))
    BY <1>3, <2>1, HeadTailProperties
  <2>3. \/ n.items # << >> /\ n.pc = "find_item"
        \/ n.items = << >> /\ n.triples # << >> /\ n.pc = "find_from"
        \/ n.items = << >> /\ n.triples = << >> /\ n.pc = "commit"
    BY <2>1 DEF LoopPc
  <2>4. c.replace => n.items = << >> /\ n.triples = << >>
    <3>1. ASSUME c.replace PROVE IsSavePlan(q.asked) /\ c = q.asked[1]
      BY <1>1, <1>3, <3>1, ReplacesFirst DEF InItem
    <3>2. ASSUME c.replace PROVE c.items = << c.items[1] >>
      BY <3>1, <3>2, SaveCalls
    <3>3. \A x : Tail(<< x >>) = << >>
      OBVIOUS
    <3>4. ASSUME c.replace PROVE n.items = << >> /\ n.triples = << >>
      BY <1>3, <2>1, <3>2, <3>3, <3>4
    <3> QED
      BY <3>4
  <2>5. Loops(n, c)
    BY <1>3, <2>1, <2>2, <2>3, <2>4 DEF Loops, ItemPcs, TriplePcs
  <2>6. Stands(n.pc, c.do)
    BY <1>3, <2>3 DEF Stands, ItemPcs, TriplePcs
  <2> QED
    BY <1>1, <1>2, <2>3, <2>4, <2>5, <2>6 DEF PlanOf, InItem, Ended
<1> QED
  BY <1>4, <1>5

\* A request at an item.
LEMMA AtItem ==
    ASSUME NEW q, PlanOf(q), q.pc \in ItemPcs
    PROVE  /\ q.asked \in Plans /\ Suffix(q.plan, q.asked) /\ q.plan # << >>
           /\ Head(q.plan) \in Calls /\ Head(q.plan) \in Range(q.asked)
           /\ Head(q.plan).do = "items" /\ Loops(q, Head(q.plan))
           /\ q.items # << >> /\ Head(q.items) \in Range(Head(q.plan).items)
           /\ Head(q.items).obs \in Seq(Range(Head(q.items).obs))
<1>1. PICK c, items : c = Head(q.plan) /\ items = q.items
  OBVIOUS
<1>2. /\ q.asked \in Plans /\ Suffix(q.plan, q.asked) /\ q.plan # << >>
      /\ Stands(q.pc, c.do) /\ (c.do = "items" => Loops(q, c))
  BY <1>1 DEF PlanOf, Ended, ItemPcs
<1>3. c.do = "items"
  BY <1>2 DEF Stands, ItemPcs, ObsKinds
<1>4. c \in Calls /\ c \in Range(q.asked)
  BY <1>1, <1>2, NextCall
<1>5. items \in Seq(Range(c.items)) /\ items # << >>
  BY <1>1, <1>2, <1>3 DEF Loops
<1>6. Head(items) \in Range(c.items)
  BY <1>5, HeadTailProperties
<1>7. Head(items).obs \in Seq(Range(Head(items).obs))
  BY <1>3, <1>4, <1>6, PlanAssumption
<1> QED
  BY <1>1, <1>2, <1>3, <1>4, <1>5, <1>6, <1>7

LEMMA PlannedInItem ==
    ASSUME NEW q, PlanOf(q), q.pc \in {"snap_obs", "clear_obs", "insert_obs"}
    PROVE  InItem(q)
<1>1. PICK c : c = Head(q.plan)
  OBVIOUS
<1>2. /\ q.asked \in Plans /\ Suffix(q.plan, q.asked) /\ q.plan # << >>
      /\ c.do = "items" /\ Loops(q, c) /\ q.items # << >>
      /\ Head(q.items).obs \in Seq(Range(Head(q.items).obs))
  BY <1>1, AtItem DEF ItemPcs
<1>3. q.contents \in Seq(Range(Head(q.items).obs))
  BY <1>2 DEF Loops
<1> QED
  BY <1>1, <1>2, <1>3 DEF InItem, Loops, ItemPcs

(* ---- The loop over triples --------------------------------------------- *)

LEMMA AtTriple ==
    ASSUME NEW q, PlanOf(q), q.pc \in TriplePcs
    PROVE  /\ q.asked \in Plans /\ Suffix(q.plan, q.asked) /\ q.plan # << >>
           /\ Head(q.plan) \in Calls /\ Head(q.plan) \in Range(q.asked)
           /\ Head(q.plan).do = "items" /\ Loops(q, Head(q.plan))
           /\ q.triples # << >> /\ Head(q.triples) \in Range(Head(q.plan).triples)
           /\ ~Head(q.plan).replace
<1>1. PICK c : c = Head(q.plan)
  OBVIOUS
<1>2. /\ q.asked \in Plans /\ Suffix(q.plan, q.asked) /\ q.plan # << >>
      /\ Stands(q.pc, c.do) /\ (c.do = "items" => Loops(q, c))
  BY <1>1 DEF PlanOf, Ended, TriplePcs
<1>3. c.do = "items"
  BY <1>2 DEF Stands, TriplePcs, ObsKinds
<1>4. c \in Calls /\ c \in Range(q.asked)
  BY <1>1, <1>2, NextCall
<1>5. q.triples \in Seq(Range(c.triples)) /\ q.triples # << >>
  BY <1>1, <1>2, <1>3 DEF Loops
<1>6. Head(q.triples) \in Range(c.triples)
  BY <1>5, HeadTailProperties
<1>7. ~c.replace
  BY <1>2, <1>3 DEF Loops, TriplePcs, ItemPcs
<1> QED
  BY <1>1, <1>2, <1>3, <1>4, <1>5, <1>6, <1>7

\* A request that stays in its call without touching the loops.
LEMMA StaysPlanned ==
    ASSUME NEW q, PlanOf(q), q.pc \notin Ended, NEW n,
           n.asked = q.asked, n.plan = q.plan, n.items = q.items,
           n.triples = q.triples, n.pc \notin Ended,
           \/ Head(q.plan).do # "items" /\ Stands(n.pc, Head(q.plan).do)
           \/ q.pc = "find_item" /\ n.pc = "insert_item"
           \/ n.contents = q.contents /\ q.pc = "snap_obs" /\ n.pc = "clear_obs"
           \/ q.pc \in TriplePcs /\ n.pc \in TriplePcs
    PROVE  PlanOf(n)
<1>1. PICK c : c = Head(q.plan)
  OBVIOUS
<1>2. /\ q.asked \in Plans /\ Suffix(q.plan, q.asked) /\ q.plan # << >>
      /\ Stands(q.pc, c.do) /\ (c.do = "items" => Loops(q, c))
  BY <1>1 DEF PlanOf, Ended
<1>3. CASE c.do # "items" /\ Stands(n.pc, c.do)
  BY <1>1, <1>2, <1>3 DEF PlanOf, Ended
<1>4. CASE \/ q.pc = "find_item" /\ n.pc = "insert_item"
           \/ n.contents = q.contents /\ q.pc = "snap_obs" /\ n.pc = "clear_obs"
           \/ q.pc \in TriplePcs /\ n.pc \in TriplePcs
  <2>1. c.do = "items"
    BY <1>2, <1>4 DEF Stands, TriplePcs, ObsKinds
  <2>2. Loops(n, c)
    BY <1>2, <1>4, <2>1 DEF Loops, ItemPcs, TriplePcs
  <2>3. Stands(n.pc, c.do)
    BY <1>4, <2>1 DEF Stands, ItemPcs, TriplePcs
  <2> QED
    BY <1>1, <1>2, <2>2, <2>3 DEF PlanOf, Ended
<1> QED
  BY <1>1, <1>3, <1>4

(* ---- What the statements do to a request ------------------------------- *)

Becomes(r, n) == req' = [req EXCEPT ![r] = n]

LEMMA PcMove ==
    ASSUME NEW q, Shape(q), NEW pc, NEW n, n = [q EXCEPT !.pc = pc]
    PROVE  /\ Within(q, n) /\ n.pc = pc /\ n.items = q.items /\ n.triples = q.triples
           /\ n.contents = q.contents /\ n.id = q.id /\ n.id2 = q.id2
           /\ n.snap = q.snap
BY DEF Within, Shape, Fields

\* n has resolved the entity that q was looking for to id.
Resolved(q, n, id) ==
    \/ /\ q.pc \in {"find_item", "insert_item"} /\ n.id = id
       /\ \/ /\ q.pc = "find_item" /\ Head(q.plan).replace /\ n.pc = "snap_obs"
             /\ n.contents = Head(q.items).obs
             /\ n.items = q.items /\ n.triples = q.triples
          \/ /\ ~(q.pc = "find_item" /\ Head(q.plan).replace)
             /\ Followed(q, n, Head(q.items).obs)
    \/ /\ q.pc \in {"find_from", "insert_from"} /\ n.id = id /\ n.pc = "find_to"
       /\ n.items = q.items /\ n.triples = q.triples
    \/ /\ q.pc \in {"find_to", "insert_to"} /\ n.id = q.id /\ n.id2 = id
       /\ n.pc = "insert_rel" /\ n.items = q.items /\ n.triples = q.triples

LEMMA ResolveMove ==
    ASSUME NEW r \in Requests, Shape(req[r]), PlanOf(req[r]), req[r].pc \in Seeking,
           NEW id, NEW n, n = Resolve(r, id)
    PROVE  Within(req[r], n) /\ Resolved(req[r], n, id) /\ PlanOf(n)
<1>1. PICK q, c, obs : q = req[r] /\ c = Head(q.plan) /\ obs = Head(q.items).obs
  OBVIOUS
<1>2. Shape(q) /\ PlanOf(q) /\ Call(r) = c /\ Item(r).obs = obs
  BY <1>1 DEF Call, Item
<1>3. CASE q.pc \in {"find_item", "insert_item"}
  <2>1. /\ q.asked \in Plans /\ Suffix(q.plan, q.asked) /\ q.plan # << >>
        /\ c.do = "items" /\ Loops(q, c) /\ q.items # << >>
        /\ obs \in Seq(Range(Head(q.items).obs))
    BY <1>1, <1>2, <1>3, AtItem DEF ItemPcs
  <2>2. PICK m : m = [q EXCEPT !.id = id, !.contents = obs]
    OBVIOUS
  <2>3. /\ Within(q, m) /\ m.id = id /\ m.contents = obs /\ m.items = q.items
        /\ m.triples = q.triples /\ m.pc = q.pc
    BY <1>2, <2>2 DEF Within, Shape, Fields
  <2>4. CASE q.pc = "find_item" /\ c.replace
    <3>1. n = [m EXCEPT !.pc = "snap_obs"]
      BY <1>1, <1>2, <1>3, <2>2, <2>4 DEF Resolve
    <3>2. /\ Within(m, n) /\ n.pc = "snap_obs" /\ n.items = m.items
          /\ n.triples = m.triples /\ n.contents = m.contents /\ n.id = m.id
      BY <2>3, <3>1, PcMove DEF Within
    <3>3. Within(q, n) /\ Resolved(q, n, id)
      BY <1>1, <2>3, <2>4, <3>2 DEF Within, Resolved
    <3>4. Loops(n, c)
      BY <1>1, <2>1, <2>3, <2>4, <3>2 DEF Loops, ItemPcs, TriplePcs
    <3>5. PlanOf(n)
      BY <1>1, <2>1, <3>2, <3>3, <3>4 DEF PlanOf, Within, Stands, ItemPcs, Ended
    <3> QED
      BY <1>1, <3>3, <3>5
  <2>5. CASE ~(q.pc = "find_item" /\ c.replace)
    <3>1. n = AfterItem(m)
      BY <1>1, <1>2, <1>3, <2>2, <2>5 DEF Resolve
    <3>2. /\ Within(m, n) /\ n.id = m.id /\ Followed(m, n, obs)
      BY <2>3, <3>1, AfterItemFields DEF Within
    <3>3. Within(q, n) /\ Followed(q, n, obs) /\ n.id = id
      BY <2>3, <3>2 DEF Within, Followed
    <3>4. Resolved(q, n, id)
      BY <1>1, <1>3, <2>5, <3>3 DEF Resolved
    <3>5. /\ Within(m, n) /\ InItem(m) /\ obs \in Seq(Range(Head(m.items).obs))
      <4>1. /\ m.asked \in Plans /\ Suffix(m.plan, m.asked) /\ m.plan # << >>
            /\ Head(m.plan) = c /\ m.items = q.items /\ m.contents = obs
        BY <1>1, <2>1, <2>3 DEF Within
      <4>2. /\ m.items \in Seq(Range(c.items)) /\ m.items # << >>
            /\ m.triples \in Seq(Range(c.triples))
            /\ c.replace => m.items = c.items /\ m.triples = << >>
        BY <1>3, <2>1, <2>3 DEF Loops, ItemPcs
      <4> QED
        BY <2>1, <3>2, <4>1, <4>2 DEF InItem
    <3>6. PlanOf(n)
      BY <3>2, <3>5, InItemFollows
    <3> QED
      BY <1>1, <3>3, <3>4, <3>6
  <2> QED
    BY <2>4, <2>5
<1>4. CASE q.pc \in {"find_from", "insert_from"}
  <2>1. PICK m : m = [q EXCEPT !.id = id]
    OBVIOUS
  <2>5. n = [m EXCEPT !.pc = "find_to"]
    BY <1>1, <2>1, <1>4 DEF Resolve
  <2>2. Within(q, n) /\ n.id = id /\ n.pc = "find_to" /\ n.items = q.items
        /\ n.triples = q.triples
    <3>1. Within(q, m) /\ m.id = id /\ m.items = q.items /\ m.triples = q.triples
          
      BY <1>2, <2>1 DEF Within, Shape, Fields
    <3> QED
      BY <2>5, <3>1, PcMove DEF Within
  <2>3. Resolved(q, n, id)
    BY <1>4, <2>2 DEF Resolved
  <2>4. PlanOf(n)
    BY <1>2, <1>4, <2>2, StaysPlanned DEF Within, TriplePcs, Ended
  <2> QED
    BY <1>1, <2>2, <2>3, <2>4
<1>5. CASE q.pc \in {"find_to", "insert_to"}
  <2>1. PICK m : m = [q EXCEPT !.id2 = id]
    OBVIOUS
  <2>5. n = [m EXCEPT !.pc = "insert_rel"]
    BY <1>1, <2>1, <1>5 DEF Resolve
  <2>2. /\ Within(q, n) /\ n.id2 = id /\ n.id = q.id /\ n.pc = "insert_rel"
        /\ n.items = q.items /\ n.triples = q.triples
    <3>1. Within(q, m) /\ m.id2 = id /\ m.items = q.items /\ m.triples = q.triples
           /\ m.id = q.id
      BY <1>2, <2>1 DEF Within, Shape, Fields
    <3> QED
      BY <2>5, <3>1, PcMove DEF Within
  <2>3. Resolved(q, n, id)
    BY <1>5, <2>2 DEF Resolved
  <2>4. PlanOf(n)
    BY <1>2, <1>5, <2>2, StaysPlanned DEF Within, TriplePcs, Ended
  <2> QED
    BY <1>1, <2>2, <2>3, <2>4
<1> QED
  BY <1>1, <1>3, <1>4, <1>5 DEF Seeking

\* n is q after the insertion of the first of its contents.
LEMMA InsertedMove ==
    ASSUME NEW q, Shape(q), PlanOf(q), q.pc = "insert_obs",
           NEW n, n = AfterItem([q EXCEPT !.contents = Tail(@)])
    PROVE  /\ Within(q, n) /\ n.id = q.id /\ PlanOf(n)
           /\ Followed(q, n, Tail(q.contents))
           /\ Head(q.contents) \in Range(Head(q.items).obs)
           /\ Range(q.contents) = {Head(q.contents)} \cup Range(Tail(q.contents))
<1>1. PICK obs, t : obs = Head(q.items).obs /\ t = Tail(q.contents)
  OBVIOUS
<1>2. InItem(q) /\ q.contents # << >> /\ q.contents \in Seq(Range(obs))
  BY <1>1, PlannedInItem, AtItem DEF Loops, ItemPcs
<1>3. /\ t \in Seq(Range(obs)) /\ Head(q.contents) \in Range(obs)
      /\ Range(q.contents) = {Head(q.contents)} \cup Range(t)
  BY <1>1, <1>2, HeadAndTail
<1>4. PICK m : m = [q EXCEPT !.contents = t]
  OBVIOUS
<1>5. /\ Within(q, m) /\ m.id = q.id /\ m.contents = t /\ m.items = q.items
      /\ m.triples = q.triples /\ m.pc = q.pc
  BY <1>4 DEF Within, Shape, Fields
<1>6. n = AfterItem(m)
  BY <1>1, <1>4
<1>7. Within(m, n) /\ n.id = m.id /\ Followed(m, n, t)
  BY <1>5, <1>6, AfterItemFields DEF Within
<1>8. Within(q, n) /\ Followed(q, n, t)
  BY <1>5, <1>7 DEF Within, Followed
<1>9. PlanOf(n)
  BY <1>1, <1>2, <1>3, <1>8, InItemFollows
<1> QED
  BY <1>1, <1>3, <1>5, <1>7, <1>8, <1>9

\* n is q after its DELETE of observations.
LEMMA ClearedMove ==
    ASSUME NEW q, Shape(q), PlanOf(q), q.pc = "clear_obs",
           NEW n, n = AfterItem([q EXCEPT !.snap = {}])
    PROVE  /\ Within(q, n) /\ n.id = q.id /\ PlanOf(n)
           /\ Followed(q, n, q.contents)
<1>1. InItem(q)
  BY PlannedInItem
<1>2. PICK m : m = [q EXCEPT !.snap = {}]
  OBVIOUS
<1>3. /\ Within(q, m) /\ m.id = q.id /\ m.contents = q.contents
      /\ m.items = q.items /\ m.triples = q.triples
  BY <1>2 DEF Within, Shape, Fields
<1>4. n = AfterItem(m)
  BY <1>2
<1>5. Within(m, n) /\ n.id = m.id /\ Followed(m, n, m.contents)
  BY <1>3, <1>4, AfterItemFields DEF Within
<1>6. Within(q, n) /\ Followed(q, n, q.contents)
  BY <1>3, <1>5 DEF Within, Followed
<1>7. PlanOf(n)
  BY <1>1, <1>6, InItemFollows DEF InItem
<1> QED
  BY <1>3, <1>5, <1>6, <1>7

\* n is q after the INSERT of its next relation.
LEMMA RelatedMove ==
    ASSUME NEW q, Shape(q), PlanOf(q), q.pc = "insert_rel",
           NEW n, Within(q, n), n.items = q.items, n.triples = Tail(q.triples),
           n.pc = LoopPc(<< >>, Tail(q.triples))
    PROVE  /\ PlanOf(n) /\ n.pc \in {"find_from", "commit"}
           /\ Range(q.triples) = {Head(q.triples)} \cup Range(Tail(q.triples))
<1>1. PICK c, t, pc : /\ c = Head(q.plan) /\ t = Tail(q.triples)
                     /\ pc = LoopPc(<< >>, t)
  OBVIOUS
<1>3. Within(q, n) /\ n.items = q.items /\ n.triples = t /\ n.pc = pc
  BY <1>1
<1>4. /\ q.asked \in Plans /\ Suffix(q.plan, q.asked) /\ q.plan # << >>
      /\ c.do = "items" /\ Loops(q, c) /\ q.triples # << >> /\ ~c.replace
  BY <1>1, AtTriple DEF TriplePcs
<1>5. q.items = << >> /\ q.triples \in Seq(Range(c.triples))
      /\ q.items \in Seq(Range(c.items))
  BY <1>4 DEF Loops, TriplePcs
<1>6. /\ t \in Seq(Range(c.triples))
      /\ Range(q.triples) = {Head(q.triples)} \cup Range(t)
  BY <1>1, <1>4, <1>5, HeadAndTail
<1>7. \/ t # << >> /\ pc = "find_from"
      \/ t = << >> /\ pc = "commit"
  BY <1>1 DEF LoopPc
<1>8. Loops(n, c)
  BY <1>3, <1>4, <1>5, <1>6, <1>7 DEF Loops, ItemPcs, TriplePcs
<1>9. Stands(n.pc, c.do)
  BY <1>3, <1>4, <1>7 DEF Stands, TriplePcs
<1>10. PlanOf(n)
  BY <1>1, <1>3, <1>4, <1>7, <1>8, <1>9 DEF PlanOf, Within, Ended
<1> QED
  BY <1>1, <1>3, <1>6, <1>7, <1>10

LEMMA Calling ==
    ASSUME Inv, Planned, NEW r \in Requests, Running(r)
    PROVE  /\ Shape(req[r]) /\ PlanOf(req[r]) /\ req[r].pc \notin Ended
           /\ Call(r) = Head(req[r].plan) /\ req[r].plan # << >>
           /\ req[r].asked \in Plans /\ Suffix(req[r].plan, req[r].asked)
           /\ Stands(req[r].pc, Call(r).do)
BY DEF Inv, Requested, Local, Planned, PlanOf, Running, Ended, Call

\* The search finds nothing: q goes on to insert.
NotFound(q, n) ==
    /\ \/ q.pc = "find_item" /\ n.pc = "insert_item"
       \/ q.pc = "find_from" /\ n.pc = "insert_from"
       \/ q.pc = "find_to" /\ n.pc = "insert_to"
    /\ n.items = q.items /\ n.triples = q.triples /\ n.id = q.id

LEMMA FindEntityMove ==
    ASSUME Inv, Planned, NEW r \in Requests, FindEntity(r)
    PROVE  LET E == Visible(Named(Call(r).project, Wanted(r).name), r)
           IN  \E n : /\ Becomes(r, n) /\ Within(req[r], n) /\ PlanOf(n)
                      /\ \/ \E e \in E : Resolved(req[r], n, e.id)
                         \/ E = {} /\ NotFound(req[r], n)
<1> DEFINE E == Visible(Named(Call(r).project, Wanted(r).name), r)
<1>1. req[r].pc \in {"find_item", "find_from", "find_to"} /\ Running(r)
  BY DEF FindEntity, Running
<1>2. PICK q : q = req[r]
  OBVIOUS
<1>3. Shape(q) /\ PlanOf(q) /\ q.pc \notin Ended
  BY <1>1, <1>2, Calling
<1>4. PICK pc : pc = CASE req[r].pc = "find_item" -> "insert_item"
                       [] req[r].pc = "find_from" -> "insert_from"
                       [] req[r].pc = "find_to" -> "insert_to"
  OBVIOUS
<1>5. \/ \E e \in E : req' = [req EXCEPT ![r] = Resolve(r, e.id)]
      \/ E = {} /\ req' = [req EXCEPT ![r].pc = pc]
  BY <1>4 DEF FindEntity
<1>6. ASSUME NEW e \in E, req' = [req EXCEPT ![r] = Resolve(r, e.id)]
      PROVE  \E n : /\ Becomes(r, n) /\ Within(q, n) /\ PlanOf(n)
                    /\ Resolved(q, n, e.id)
  <2>1. PICK n : n = Resolve(r, e.id)
    OBVIOUS
  <2>2. Within(q, n) /\ Resolved(q, n, e.id) /\ PlanOf(n)
    BY <1>1, <1>2, <1>3, <2>1, ResolveMove DEF Seeking
  <2>3. Becomes(r, n)
    BY <1>6, <2>1 DEF Becomes
  <2> QED
    BY <2>2, <2>3
<1>7. ASSUME req' = [req EXCEPT ![r].pc = pc]
      PROVE  \E n : Becomes(r, n) /\ Within(q, n) /\ PlanOf(n) /\ NotFound(q, n)
  <2>1. PICK n : n = [q EXCEPT !.pc = pc]
    OBVIOUS
  <2>2. /\ Within(q, n) /\ n.pc = pc /\ n.items = q.items /\ n.triples = q.triples
        /\ n.contents = q.contents /\ n.id = q.id
    BY <1>3, <2>1, PcMove
  <2>3. NotFound(q, n)
    BY <1>1, <1>2, <1>4, <2>2 DEF NotFound
  <2>4. n.pc \notin Ended
    BY <2>3 DEF NotFound, Ended
  <2>5. PlanOf(n)
    BY <1>3, <2>2, <2>3, <2>4, StaysPlanned DEF NotFound, Within, TriplePcs
  <2>6. Becomes(r, n)
    BY <1>2, <1>7, <2>1 DEF Becomes
  <2> QED
    BY <2>2, <2>3, <2>5, <2>6
<1> QED
  BY <1>2, <1>5, <1>6, <1>7

LEMMA InsertEntityMove ==
    ASSUME Inv, Planned, NEW r \in Requests, InsertEntity(r), ~Fail(r)
    PROVE  \E n : /\ Becomes(r, n) /\ Within(req[r], n) /\ PlanOf(n)
                  /\ Resolved(req[r], n, nextID)
<1>1. /\ req[r].pc \in {"insert_item", "insert_from", "insert_to"}
      /\ req' = [req EXCEPT ![r] = Resolve(r, nextID)]
  BY DEF InsertEntity
<1>2. Shape(req[r]) /\ PlanOf(req[r])
  BY <1>1, Calling DEF Running
<1>3. PICK n, id : n = Resolve(r, id) /\ id = nextID
  OBVIOUS
<1>4. Within(req[r], n) /\ Resolved(req[r], n, id) /\ PlanOf(n)
  BY <1>1, <1>2, <1>3, ResolveMove DEF Seeking
<1>5. Becomes(r, n)
  BY <1>1, <1>3 DEF Becomes
<1> QED
  BY <1>3, <1>4, <1>5

LEMMA SnapObservationsMove ==
    ASSUME Inv, Planned, NEW r \in Requests, SnapObservations(r)
    PROVE  \E n : /\ Becomes(r, n) /\ Within(req[r], n) /\ PlanOf(n)
                  /\ n.pc = "clear_obs" /\ n.items = req[r].items
                  /\ n.triples = req[r].triples /\ n.contents = req[r].contents
                  /\ n.id = req[r].id
                  /\ n.snap = {o.id : o \in Visible(ObsOf({req[r].id}), r)}
<1>1. PICK q, ids : q = req[r] /\ ids = {o.id : o \in Visible(ObsOf({q.id}), r)}
  OBVIOUS
<1>2. /\ q.pc = "snap_obs"
      /\ req' = [req EXCEPT ![r].pc = "clear_obs", ![r].snap = ids]
  BY <1>1 DEF SnapObservations
<1>3. Shape(q) /\ PlanOf(q)
  BY <1>1, <1>2, Calling DEF Running
<1>4. PICK m : m = [q EXCEPT !.pc = "clear_obs"]
  OBVIOUS
<1>5. /\ Within(q, m) /\ m.pc = "clear_obs" /\ m.items = q.items
      /\ m.triples = q.triples /\ m.contents = q.contents /\ m.id = q.id
  BY <1>3, <1>4, PcMove
<1>6. PICK n : n = [m EXCEPT !.snap = ids]
  OBVIOUS
<1>7. /\ Within(m, n) /\ n.pc = m.pc /\ n.items = m.items /\ n.triples = m.triples
      /\ n.contents = m.contents /\ n.id = m.id /\ n.snap = ids
  BY <1>5, <1>6 DEF Within, Shape, Fields
<1>8. /\ Within(q, n) /\ n.pc = "clear_obs" /\ n.items = q.items
      /\ n.triples = q.triples /\ n.contents = q.contents /\ n.id = q.id
  BY <1>5, <1>7 DEF Within
<1>9. PlanOf(n)
  BY <1>2, <1>3, <1>8, StaysPlanned DEF Within, Ended
<1>10. Becomes(r, n)
  BY <1>1, <1>2, <1>4, <1>6 DEF Becomes
<1> QED
  BY <1>1, <1>7, <1>8, <1>9, <1>10

LEMMA ClearObservationsMove ==
    ASSUME Inv, Planned, NEW r \in Requests, ClearObservations(r)
    PROVE  \E n : /\ Becomes(r, n) /\ Within(req[r], n) /\ PlanOf(n)
                  /\ n.id = req[r].id /\ Followed(req[r], n, req[r].contents)
<1>1. PICK q, n : q = req[r] /\ n = AfterItem([q EXCEPT !.snap = {}])
  OBVIOUS
<1>2. q.pc = "clear_obs" /\ req' = [req EXCEPT ![r] = n]
  BY <1>1 DEF ClearObservations
<1>3. Shape(q) /\ PlanOf(q)
  BY <1>1, <1>2, Calling DEF Running
<1> QED
  BY <1>1, <1>2, <1>3, ClearedMove DEF Becomes

LEMMA InsertObservationMove ==
    ASSUME Inv, Planned, NEW r \in Requests, InsertObservation(r), ~Fail(r)
    PROVE  \E n : /\ Becomes(r, n) /\ Within(req[r], n) /\ PlanOf(n)
                  /\ n.id = req[r].id
                  /\ Followed(req[r], n, Tail(req[r].contents))
                  /\ Head(req[r].contents) \in Range(Head(req[r].items).obs)
                  /\ Range(req[r].contents)
                        = {Head(req[r].contents)} \cup Range(Tail(req[r].contents))
<1>1. PICK q, n : q = req[r] /\ n = AfterItem([q EXCEPT !.contents = Tail(@)])
  OBVIOUS
<1>2. q.pc = "insert_obs" /\ req' = [req EXCEPT ![r] = n]
  BY <1>1 DEF InsertObservation
<1>3. Shape(q) /\ PlanOf(q)
  BY <1>1, <1>2, Calling DEF Running
<1> QED
  BY <1>1, <1>2, <1>3, InsertedMove DEF Becomes

LEMMA InsertRelationMove ==
    ASSUME Inv, Planned, NEW r \in Requests, InsertRelation(r), ~Fail(r)
    PROVE  \E n : /\ Becomes(r, n) /\ Within(req[r], n) /\ PlanOf(n)
                  /\ n.items = req[r].items /\ n.triples = Tail(req[r].triples)
                  /\ n.pc \in {"find_from", "commit"}
                  /\ Range(req[r].triples)
                        = {Head(req[r].triples)} \cup Range(Tail(req[r].triples))
<1>1. PICK q, t, pc : /\ q = req[r] /\ t = Tail(q.triples)
                     /\ pc = LoopPc(<< >>, Tail(q.triples))
  OBVIOUS
<1>2. /\ q.pc = "insert_rel"
      /\ req' = [req EXCEPT ![r].triples = t, ![r].pc = pc]
  BY <1>1 DEF InsertRelation
<1>3. Shape(q) /\ PlanOf(q)
  BY <1>1, <1>2, Calling DEF Running
<1>4. PICK m : m = [q EXCEPT !.triples = t]
  OBVIOUS
<1>5. Within(q, m) /\ m.items = q.items /\ m.triples = t
  BY <1>3, <1>4 DEF Within, Shape, Fields
<1>6. PICK n : n = [m EXCEPT !.pc = pc]
  OBVIOUS
<1>7. /\ Within(m, n) /\ n.pc = pc /\ n.items = m.items /\ n.triples = m.triples
  BY <1>5, <1>6, PcMove DEF Within
<1>8. /\ Within(q, n) /\ n.items = q.items /\ n.triples = Tail(q.triples)
      /\ n.pc = LoopPc(<< >>, Tail(q.triples))
  BY <1>1, <1>5, <1>7 DEF Within
<1>9. PlanOf(n) /\ n.pc \in {"find_from", "commit"}
  BY <1>2, <1>3, <1>8, RelatedMove
<1>10. Range(q.triples) = {Head(q.triples)} \cup Range(t)
  <2>1. q.triples \in Seq(Range(Head(q.plan).triples)) /\ q.triples # << >>
    BY <1>2, <1>3, AtTriple DEF TriplePcs, Loops
  <2> QED
    BY <1>1, <2>1, HeadAndTail
<1>11. Becomes(r, n)
  BY <1>1, <1>2, <1>4, <1>6 DEF Becomes
<1> QED
  BY <1>1, <1>8, <1>9, <1>10, <1>11

\* A call other than a creation stands at its statement pc.
LEMMA OtherCalls ==
    ASSUME Inv, Planned, NEW r \in Requests, NEW pcs,
           req[r].pc \in pcs, pcs \cap (ItemPcs \cup TriplePcs \cup Ended) = {},
           "commit" \notin pcs
    PROVE  /\ Shape(req[r]) /\ PlanOf(req[r]) /\ Running(r)
           /\ req[r].pc \notin Ended
           /\ Call(r) = Head(req[r].plan) /\ Call(r).do # "items"
           /\ Stands(req[r].pc, Call(r).do)
<1>1. Running(r)
  BY DEF Running, Ended
<1> QED
  BY <1>1, Calling DEF Stands, ObsKinds

\* The statements that end a call other than a creation.
LEMMA LastMove ==
    ASSUME Inv, Planned, NEW r \in Requests,
           req[r].pc \in {"cascade", "rename", "write_obs", "delete_rel",
                          "delete_rel_by_triple", "log_insert"},
           req' = [req EXCEPT ![r].pc = "commit"]
    PROVE  \E n : /\ Becomes(r, n) /\ Within(req[r], n) /\ PlanOf(n)
                  /\ n.pc = "commit" /\ n.id = req[r].id
<1>1. PICK q : q = req[r]
  OBVIOUS
<1>2. /\ Shape(q) /\ PlanOf(q) /\ q.pc \notin Ended /\ Head(q.plan).do # "items"
  BY <1>1, OtherCalls DEF ItemPcs, TriplePcs, Ended
<1>3. PICK n : n = [q EXCEPT !.pc = "commit"]
  OBVIOUS
<1>4. /\ Within(q, n) /\ n.pc = "commit" /\ n.items = q.items
      /\ n.triples = q.triples /\ n.id = q.id
  BY <1>2, <1>3, PcMove
<1>5. Stands(n.pc, Head(q.plan).do) /\ n.pc \notin Ended
  BY <1>4 DEF Stands, Ended
<1>6. PlanOf(n)
  BY <1>2, <1>4, <1>5, StaysPlanned DEF Within
<1>7. Becomes(r, n)
  BY <1>1, <1>3 DEF Becomes
<1> QED
  BY <1>1, <1>4, <1>6, <1>7

LEMMA SnapEntitiesMove ==
    ASSUME Inv, Planned, NEW r \in Requests, SnapEntities(r)
    PROVE  \E n : /\ Becomes(r, n) /\ Within(req[r], n) /\ PlanOf(n)
                  /\ n.pc = "cascade"
<1>1. PICK q, ids :
         /\ q = req[r]
         /\ ids = {e.id : e \in {f \in Visible(entities, r) :
                                    /\ f.project = Call(r).project
                                    /\ f.name \in Call(r).names}}
  OBVIOUS
<1>2. /\ q.pc = "delete_entities"
      /\ req' = [req EXCEPT ![r].pc = "cascade", ![r].snap = ids]
  BY <1>1 DEF SnapEntities
<1>3. /\ Shape(q) /\ PlanOf(q) /\ q.pc \notin Ended /\ Head(q.plan).do # "items"
      /\ Stands(q.pc, Head(q.plan).do)
  BY <1>1, <1>2, OtherCalls DEF ItemPcs, TriplePcs, Ended
<1>4. PICK m : m = [q EXCEPT !.pc = "cascade"]
  OBVIOUS
<1>5. /\ Within(q, m) /\ m.pc = "cascade" /\ m.items = q.items
      /\ m.triples = q.triples
  BY <1>3, <1>4, PcMove
<1>6. PICK n : n = [m EXCEPT !.snap = ids]
  OBVIOUS
<1>7. /\ Within(m, n) /\ n.pc = m.pc /\ n.items = m.items /\ n.triples = m.triples
  BY <1>5, <1>6 DEF Within, Shape, Fields
<1>8. /\ Within(q, n) /\ n.pc = "cascade" /\ n.items = q.items
      /\ n.triples = q.triples
  BY <1>5, <1>7 DEF Within
<1>9. Stands(n.pc, Head(q.plan).do) /\ n.pc \notin Ended
  BY <1>2, <1>3, <1>8 DEF Stands, Ended, ItemPcs, TriplePcs, ObsKinds
<1>10. PlanOf(n)
  BY <1>3, <1>8, <1>9, StaysPlanned DEF Within
<1>11. Becomes(r, n)
  BY <1>1, <1>2, <1>4, <1>6 DEF Becomes
<1> QED
  BY <1>1, <1>8, <1>10, <1>11

LEMMA ReadEntityMove ==
    ASSUME Inv, Planned, NEW r \in Requests, ReadEntity(r), ~Fail(r)
    PROVE  \E n : /\ Becomes(r, n) /\ Shape(n) /\ PlanOf(n)
                  /\ n.asked = req[r].asked /\ n.plan = req[r].plan
                  /\ n.pc \in {"check_name", "rename"} /\ UNCHANGED tables
<1>1. PICK q : q = req[r]
  OBVIOUS
<1>2. PICK id, old, pc :
         /\ q.pc = "update_entity" /\ pc \in {"check_name", "rename"}
         /\ req' = [req EXCEPT ![r].id = id, ![r].old = old, ![r].pc = pc]
         /\ UNCHANGED tables
  <2>1. PICK pc : pc = IF Call(r).newName # Call(r).name THEN "check_name"
                                                         ELSE "rename"
    OBVIOUS
  <2>2. pc \in {"check_name", "rename"}
    BY <2>1
  <2>3. \E e : /\ req' = [req EXCEPT ![r].id = e.id, ![r].old = e.type,
                              ![r].pc = IF Call(r).newName # Call(r).name
                                        THEN "check_name" ELSE "rename"]
              /\ UNCHANGED tables
    BY DEF ReadEntity
  <2>4. PICK e : /\ req' = [req EXCEPT ![r].id = e.id, ![r].old = e.type,
                                      ![r].pc = pc]
                /\ UNCHANGED tables
    BY <2>1, <2>3
  <2>5. q.pc = "update_entity"
    BY <1>1 DEF ReadEntity
  <2> QED
    BY <2>2, <2>4, <2>5
<1>3. /\ Shape(q) /\ PlanOf(q) /\ q.pc \notin Ended /\ Head(q.plan).do # "items"
      /\ Stands(q.pc, Head(q.plan).do)
  BY <1>1, <1>2, OtherCalls DEF ItemPcs, TriplePcs, Ended
<1>4. PICK k : k = [q EXCEPT !.id = id]
  OBVIOUS
<1>5. /\ Shape(k) /\ k.asked = q.asked /\ k.plan = q.plan /\ k.items = q.items
      /\ k.triples = q.triples
  BY <1>3, <1>4 DEF Shape, Fields
<1>6. PICK m : m = [k EXCEPT !.old = old]
  OBVIOUS
<1>7. /\ Shape(m) /\ m.asked = q.asked /\ m.plan = q.plan /\ m.items = q.items
      /\ m.triples = q.triples
  BY <1>5, <1>6 DEF Shape, Fields
<1>8. PICK n : n = [m EXCEPT !.pc = pc]
  OBVIOUS
<1>9. /\ Shape(n) /\ n.asked = q.asked /\ n.plan = q.plan /\ n.items = q.items
      /\ n.triples = q.triples /\ n.pc = pc
  BY <1>7, <1>8, PcMove DEF Within
<1>10. Stands(n.pc, Head(q.plan).do) /\ n.pc \notin Ended
  BY <1>2, <1>3, <1>9 DEF Stands, Ended, ItemPcs, TriplePcs, ObsKinds
<1>11. PlanOf(n)
  BY <1>3, <1>9, <1>10, StaysPlanned
<1>12. Becomes(r, n)
  BY <1>1, <1>2, <1>4, <1>6, <1>8 DEF Becomes
<1> QED
  BY <1>1, <1>2, <1>9, <1>11, <1>12

LEMMA CheckNameMove ==
    ASSUME Inv, Planned, NEW r \in Requests, CheckName(r), ~Fail(r)
    PROVE  \E n : /\ Becomes(r, n) /\ Within(req[r], n) /\ PlanOf(n)
                  /\ n.pc = "rename" /\ UNCHANGED tables
<1>1. PICK q : q = req[r]
  OBVIOUS
<1>2. /\ q.pc = "check_name" /\ req' = [req EXCEPT ![r].pc = "rename"]
      /\ UNCHANGED tables
  BY <1>1 DEF CheckName
<1>3. /\ Shape(q) /\ PlanOf(q) /\ q.pc \notin Ended /\ Head(q.plan).do # "items"
      /\ Stands(q.pc, Head(q.plan).do)
  BY <1>1, <1>2, OtherCalls DEF ItemPcs, TriplePcs, Ended
<1>4. PICK n : n = [q EXCEPT !.pc = "rename"]
  OBVIOUS
<1>5. /\ Within(q, n) /\ n.pc = "rename" /\ n.items = q.items
      /\ n.triples = q.triples
  BY <1>3, <1>4, PcMove
<1>6. Stands(n.pc, Head(q.plan).do) /\ n.pc \notin Ended
  BY <1>2, <1>3, <1>5 DEF Stands, Ended, ItemPcs, TriplePcs, ObsKinds
<1>7. PlanOf(n)
  BY <1>3, <1>5, <1>6, StaysPlanned DEF Within
<1>8. Becomes(r, n)
  BY <1>1, <1>2, <1>4 DEF Becomes
<1> QED
  BY <1>1, <1>2, <1>5, <1>7, <1>8

\* The observation a request found, and the entity it is of.
Found(r, o, e) ==
    LET c == Call(r)
    IN  /\ o \in Visible(observations, r) /\ e \in Visible(entities, r)
        /\ o.entity = e.id /\ e.project = c.project
        /\ IF ById(c) THEN o.id = c.id ELSE e.name = c.name /\ o.content = c.old

LEMMA FindObservationMove ==
    ASSUME Inv, Planned, NEW r \in Requests, FindObservation(r), ~Fail(r)
    PROVE  \E n, o, e :
              /\ Becomes(r, n) /\ Shape(n) /\ PlanOf(n)
              /\ n.asked = req[r].asked /\ n.plan = req[r].plan
              /\ Found(r, o, e) /\ n.pc = "write_obs" /\ n.id = e.id
              /\ n.obs = o.id /\ n.name = e.name /\ n.old = o.content
              /\ UNCHANGED tables
<1>1. PICK q : q = req[r]
  OBVIOUS
<1>2. PICK o, e, id, obs, name, old :
         /\ q.pc \in ObsKinds /\ Found(r, o, e)
         /\ id = e.id /\ obs = o.id /\ name = e.name /\ old = o.content
         /\ req' = [req EXCEPT ![r].pc = "write_obs", ![r].id = id,
                               ![r].obs = obs, ![r].name = name, ![r].old = old]
         /\ UNCHANGED tables
  <2>1. q.pc \in ObsKinds
    BY <1>1 DEF FindObservation, ObsKinds
  <2>2. PICK p \in Visible(observations, r) \X Visible(entities, r) :
           /\ Found(r, p[1], p[2])
           /\ req' = [req EXCEPT ![r].pc = "write_obs", ![r].id = p[2].id,
                                 ![r].obs = p[1].id, ![r].name = p[2].name,
                                 ![r].old = p[1].content]
           /\ UNCHANGED tables
    BY DEF FindObservation, Found
  <2> QED
    BY <2>1, <2>2
<1>3. /\ Shape(q) /\ PlanOf(q) /\ q.pc \notin Ended /\ Head(q.plan).do # "items"
      /\ Stands(q.pc, Head(q.plan).do)
  BY <1>1, <1>2, OtherCalls DEF ItemPcs, TriplePcs, Ended, ObsKinds
<1>4. PICK k1 : k1 = [q EXCEPT !.pc = "write_obs"]
  OBVIOUS
<1>5. PICK k2 : k2 = [k1 EXCEPT !.id = id]
  OBVIOUS
<1>6. PICK k3 : k3 = [k2 EXCEPT !.obs = obs]
  OBVIOUS
<1>7. PICK k4 : k4 = [k3 EXCEPT !.name = name]
  OBVIOUS
<1>8. PICK n : n = [k4 EXCEPT !.old = old]
  OBVIOUS
<1>9. Becomes(r, n)
  BY <1>1, <1>2, <1>4, <1>5, <1>6, <1>7, <1>8 DEF Becomes
<1> DEFINE Like(k) == /\ Shape(k) /\ k.asked = q.asked /\ k.plan = q.plan
                      /\ k.items = q.items /\ k.triples = q.triples
                      /\ k.pc = "write_obs"
<1>10. Like(k1)
  BY <1>3, <1>4, PcMove DEF Within
<1>11. Like(k2) /\ k2.id = id
  BY <1>5, <1>10 DEF Shape, Fields
<1>12. Like(k3) /\ k3.id = id /\ k3.obs = obs
  BY <1>6, <1>11 DEF Shape, Fields
<1>13. Like(k4) /\ k4.id = id /\ k4.obs = obs /\ k4.name = name
  BY <1>7, <1>12 DEF Shape, Fields
<1>14. Like(n) /\ n.id = id /\ n.obs = obs /\ n.name = name /\ n.old = old
  BY <1>8, <1>13 DEF Shape, Fields
<1>15. Stands(n.pc, Head(q.plan).do) /\ n.pc \notin Ended
  BY <1>2, <1>3, <1>14 DEF Stands, Ended, ItemPcs, TriplePcs, ObsKinds
<1>16. PlanOf(n)
  BY <1>3, <1>14, <1>15, StaysPlanned
<1> QED
  BY <1>1, <1>2, <1>9, <1>14, <1>16

\* n has the id of an entity a reader found, or of none.
LookedUp(r, n) ==
    n.id = Nil \/ \E e \in Visible(Named(Call(r).project, Call(r).name), r) : n.id = e.id

LEMMA LogLookupMove ==
    ASSUME Inv, Planned, NEW r \in Requests, LogLookup(r)
    PROVE  \E n : /\ Becomes(r, n) /\ Within(req[r], n) /\ PlanOf(n)
                  /\ n.pc = "log_insert"
<1>1. PICK q, id : /\ q = req[r] /\ q.pc = "log"
                  /\ req' = [req EXCEPT ![r].pc = "log_insert", ![r].id = id]
  BY DEF LogLookup
<1>2. /\ Shape(q) /\ PlanOf(q) /\ q.pc \notin Ended /\ Head(q.plan).do # "items"
      /\ Stands(q.pc, Head(q.plan).do)
  BY <1>1, OtherCalls DEF ItemPcs, TriplePcs, Ended
<1>3. PICK m : m = [q EXCEPT !.pc = "log_insert"]
  OBVIOUS
<1>4. Within(q, m) /\ m.pc = "log_insert" /\ m.items = q.items /\ m.triples = q.triples
  BY <1>2, <1>3, PcMove
<1>5. PICK n : n = [m EXCEPT !.id = id]
  OBVIOUS
<1>6. Within(m, n) /\ n.pc = m.pc /\ n.items = m.items /\ n.triples = m.triples
  BY <1>4, <1>5 DEF Within, Shape, Fields
<1>7. Within(q, n) /\ n.pc = "log_insert" /\ n.items = q.items /\ n.triples = q.triples
  BY <1>4, <1>6 DEF Within
<1>8. Stands(n.pc, Head(q.plan).do) /\ n.pc \notin Ended
  BY <1>1, <1>2, <1>7 DEF Stands, Ended, ItemPcs, TriplePcs, ObsKinds
<1>9. PlanOf(n)
  BY <1>2, <1>7, <1>8, StaysPlanned DEF Within
<1>10. Becomes(r, n)
  BY <1>1, <1>3, <1>5 DEF Becomes
<1> QED
  BY <1>1, <1>7, <1>9, <1>10

LEMMA ReadGraphEntitiesMove ==
    ASSUME Inv, Planned, NEW r \in Requests, ReadGraphEntities(r)
    PROVE  \E n : /\ Becomes(r, n) /\ Within(req[r], n) /\ PlanOf(n)
                  /\ n.pc = "read_graph_obs" /\ LookedUp(r, n)
<1> DEFINE E == Visible(Named(Call(r).project, Call(r).name), r)
<1>1. PICK q : q = req[r] /\ q.pc = "read_graph"
  BY DEF ReadGraphEntities
<1>2. PICK got \in SUBSET E :
         req' = [req EXCEPT ![r].pc = "read_graph_obs",
                   ![r].id = IF got = {} THEN Nil ELSE (CHOOSE e \in got : TRUE).id,
                   ![r].cut = got # E]
  BY DEF ReadGraphEntities
<1>3. PICK id, cut : /\ id = IF got = {} THEN Nil ELSE (CHOOSE e \in got : TRUE).id
                    /\ cut = (got # E)
  OBVIOUS
<1>4. req' = [req EXCEPT ![r].pc = "read_graph_obs", ![r].id = id, ![r].cut = cut]
  BY <1>2, <1>3
<1>5. id = Nil \/ \E e \in E : id = e.id
  BY <1>3
<1> HIDE DEF E
<1>6. /\ Shape(q) /\ PlanOf(q) /\ q.pc \notin Ended /\ Head(q.plan).do # "items"
      /\ Stands(q.pc, Head(q.plan).do)
  BY <1>1, OtherCalls DEF ItemPcs, TriplePcs, Ended
<1>7. PICK k : k = [q EXCEPT !.pc = "read_graph_obs"]
  OBVIOUS
<1>8. Within(q, k) /\ k.pc = "read_graph_obs" /\ k.items = q.items /\ k.triples = q.triples
  BY <1>6, <1>7, PcMove
<1>9. PICK m : m = [k EXCEPT !.id = id]
  OBVIOUS
<1>10. /\ Within(k, m) /\ m.pc = k.pc /\ m.items = k.items /\ m.triples = k.triples
       /\ m.id = id
  BY <1>8, <1>9 DEF Within, Shape, Fields
<1>11. PICK n : n = [m EXCEPT !.cut = cut]
  OBVIOUS
<1>12. /\ Within(m, n) /\ n.pc = m.pc /\ n.items = m.items /\ n.triples = m.triples
       /\ n.id = m.id
  BY <1>10, <1>11 DEF Within, Shape, Fields
<1>13. /\ Within(q, n) /\ n.pc = "read_graph_obs" /\ n.items = q.items
       /\ n.triples = q.triples
  BY <1>8, <1>10, <1>12 DEF Within
<1>14. Stands(n.pc, Head(q.plan).do) /\ n.pc \notin Ended
  BY <1>1, <1>6, <1>13 DEF Stands, Ended, ItemPcs, TriplePcs, ObsKinds
<1>15. PlanOf(n)
  BY <1>6, <1>13, <1>14, StaysPlanned DEF Within
<1>16. Becomes(r, n)
  BY <1>1, <1>4, <1>7, <1>9, <1>11 DEF Becomes
<1>17. LookedUp(r, n)
  BY <1>5, <1>10, <1>12 DEF LookedUp, E
<1> QED
  BY <1>1, <1>13, <1>15, <1>16, <1>17

\* What the request has seen is all there was, or its result was cut off.
LEMMA ReadGraphObservationsMove ==
    ASSUME Inv, Planned, NEW r \in Requests, ReadGraphObservations(r)
    PROVE  \E n : /\ Becomes(r, n) /\ Shape(n) /\ PlanOf(n)
                  /\ n.asked = req[r].asked /\ n.plan = req[r].plan
                  /\ n.pc = "commit" /\ n.id = req[r].id
                  /\ \/ n.cut
                     \/ n.seen = {o.content : o \in {p \in Visible(observations, r) :
                                                        p.entity = req[r].id}}
<1> DEFINE O == {p \in Visible(observations, r) : p.entity = req[r].id}
<1>1. PICK q : q = req[r] /\ q.pc = "read_graph_obs"
  BY DEF ReadGraphObservations
<1>2. PICK got \in SUBSET O :
         req' = [req EXCEPT ![r].pc = "commit",
                            ![r].seen = {o.content : o \in got},
                            ![r].cut = @ \/ got # O]
  BY DEF ReadGraphObservations
<1>3. PICK S, cut : /\ S = {o.content : o \in got}
                   /\ cut = (q.cut \/ got # O)
  OBVIOUS
<1>4. req' = [req EXCEPT ![r].pc = "commit", ![r].seen = S, ![r].cut = cut]
  BY <1>1, <1>2, <1>3
<1>5. cut \/ S = {o.content : o \in O}
  BY <1>3
<1> HIDE DEF O
<1>6. /\ Shape(q) /\ PlanOf(q) /\ q.pc \notin Ended /\ Head(q.plan).do # "items"
      /\ Stands(q.pc, Head(q.plan).do)
  BY <1>1, OtherCalls DEF ItemPcs, TriplePcs, Ended
<1>7. PICK k : k = [q EXCEPT !.pc = "commit"]
  OBVIOUS
<1>8. /\ Within(q, k) /\ k.pc = "commit" /\ k.items = q.items
      /\ k.triples = q.triples /\ k.id = q.id
  BY <1>6, <1>7, PcMove
<1>9. PICK m : m = [k EXCEPT !.seen = S]
  OBVIOUS
<1>10. /\ Shape(m) /\ m.asked = k.asked /\ m.plan = k.plan /\ m.pc = k.pc
       /\ m.items = k.items /\ m.triples = k.triples /\ m.id = k.id /\ m.seen = S
  BY <1>8, <1>9 DEF Within, Shape, Fields
<1>11. PICK n : n = [m EXCEPT !.cut = cut]
  OBVIOUS
<1>12. /\ Shape(n) /\ n.asked = m.asked /\ n.plan = m.plan /\ n.pc = m.pc
       /\ n.items = m.items /\ n.triples = m.triples /\ n.id = m.id /\ n.seen = S
       /\ n.cut = cut
  BY <1>10, <1>11 DEF Shape, Fields
<1>13. /\ n.asked = q.asked /\ n.plan = q.plan /\ n.pc = "commit"
       /\ n.items = q.items /\ n.triples = q.triples /\ n.id = q.id
  BY <1>8, <1>10, <1>12 DEF Within
<1>14. Stands(n.pc, Head(q.plan).do) /\ n.pc \notin Ended
  BY <1>6, <1>13 DEF Stands, Ended
<1>15. PlanOf(n)
  BY <1>6, <1>12, <1>13, <1>14, StaysPlanned
<1>16. Becomes(r, n)
  BY <1>1, <1>4, <1>7, <1>9, <1>11 DEF Becomes
<1>17. n.cut \/ n.seen = {o.content : o \in O}
  BY <1>5, <1>12
<1> QED
  BY <1>1, <1>12, <1>13, <1>15, <1>16, <1>17 DEF O

\* A request whose call failed.
Failed(r, n) == /\ Shape(n) /\ PlanOf(n) /\ n.pc = "failed"
                /\ n.asked = req[r].asked /\ n.plan = << >>

LEMMA FailedIsPlanned ==
    ASSUME NEW r, req[r].asked \in Plans, Suffix(req[r].plan, req[r].asked),
           NEW n, n = [Fresh EXCEPT !.pc = "failed", !.asked = req[r].asked]
    PROVE  Failed(r, n)
<1>1. /\ Shape(n) /\ n.pc = "failed" /\ n.asked = req[r].asked /\ n.plan = << >>
  BY FailedFields
<1>2. Suffix(<< >>, req[r].asked)
  BY EmptySeq, LenProperties DEF Suffix
<1> QED
  BY <1>1, <1>2 DEF Failed, PlanOf, Ended

LEMMA FailMove ==
    ASSUME Inv, Planned, NEW r \in Requests, Running(r), Fail(r)
    PROVE  \E n : Becomes(r, n) /\ Failed(r, n)
<1>1. PICK n : n = [Fresh EXCEPT !.pc = "failed", !.asked = req[r].asked]
  OBVIOUS
<1>2. Becomes(r, n)
  BY <1>1 DEF Fail, Becomes
<1>3. Failed(r, n)
  BY <1>1, Calling, FailedIsPlanned
<1> QED
  BY <1>2, <1>3

\* The request has returned from its call, and n begins the rest of the plan.
Goes(r, n) ==
    /\ Shape(n) /\ PlanOf(n)
    /\ n = StartCall(req[r].asked, Tail(req[r].plan))
    /\ Suffix(Tail(req[r].plan), req[r].asked)
    /\ n.asked = req[r].asked /\ n.plan = Tail(req[r].plan)

LEMMA CommitMove ==
    ASSUME Inv, Planned, NEW r \in Requests, CommitTx(r)
    PROVE  \E n : Becomes(r, n) /\ (Goes(r, n) \/ Failed(r, n))
<1>1. Running(r)
  BY DEF CommitTx, Running
<1>2. req[r].asked \in Plans /\ Suffix(req[r].plan, req[r].asked) /\ req[r].plan # << >>
  BY <1>1, Calling
<1>3. CASE req' = [req EXCEPT ![r] = StartCall(req[r].asked, Tail(req[r].plan))]
  <2>1. PICK n, plan, asked : /\ asked = req[r].asked /\ plan = Tail(req[r].plan)
                              /\ n = StartCall(asked, plan)
    OBVIOUS
  <2>2. Suffix(plan, asked)
    BY <1>2, <2>1, SuffixTail
  <2>3. PlanOf(n)
    BY <1>2, <2>1, <2>2, StartPlanned
  <2>4. Shape(n) /\ n.asked = asked /\ n.plan = plan
    <3>1. plan \in Seq(Calls)
      BY <2>2 DEF Suffix
    <3>2. n = StartCall(asked, plan)
      BY <2>1
    <3>3. \A m : m = StartCall(asked, plan) =>
                Shape(m) /\ m.asked = asked /\ m.plan = plan
      BY <3>1, StartFields
    <3> QED
      BY <3>2, <3>3
  <2> QED
    BY <1>3, <2>1, <2>2, <2>3, <2>4 DEF Goes, Becomes
<1>4. CASE req' = [req EXCEPT ![r] = [Fresh EXCEPT !.pc = "failed",
                                                   !.asked = req[r].asked]]
  <2>1. PICK n : n = [Fresh EXCEPT !.pc = "failed", !.asked = req[r].asked]
    OBVIOUS
  <2> QED
    BY <1>2, <1>4, <2>1, FailedIsPlanned DEF Becomes
<1> QED
  BY <1>3, <1>4 DEF CommitTx

LEMMA BeginMove ==
    ASSUME Inv, Planned, NEW r \in Requests, NEW plan \in Plans, Begin(r, plan)
    PROVE  \E n : /\ Becomes(r, n) /\ Shape(n) /\ PlanOf(n) /\ n.asked = plan
                  /\ n.plan = plan /\ n = StartCall(plan, plan)
                  /\ req[r].asked = << >>
<1>1. plan \in Seq(Calls)
  BY PlanAssumption
<1>2. Suffix(plan, plan)
  <2>1. PICK m : m = Len(plan) /\ m \in Nat
    BY <1>1, LenProperties
  <2>2. \A i \in 1 .. m : m - m + i = i
    BY <2>1
  <2> QED
    BY <1>1, <2>1, <2>2 DEF Suffix
<1>3. PICK n : n = StartCall(plan, plan)
  OBVIOUS
<1>4. PlanOf(n)
  BY <1>2, <1>3, StartPlanned
<1>5. Shape(n) /\ n.asked = plan /\ n.plan = plan
  BY <1>1, <1>3, StartFields
<1>6. req[r].asked = << >>
  BY DEF Begin, Planned, PlanOf
<1>7. Becomes(r, n)
  BY <1>3 DEF Begin, Becomes
<1> QED
  BY <1>3, <1>4, <1>5, <1>6, <1>7

\* A step of r moves r by the rules of its plan, and r remembers what it was
\* asked.
Moved(r, n) ==
    /\ Becomes(r, n) /\ Shape(n) /\ PlanOf(n)
    /\ req[r].asked = << >> \/ n.asked = req[r].asked

LEMMA StepMove ==
    ASSUME Inv, Planned, NEW r \in Requests, Step(r)
    PROVE  \E n : Moved(r, n)
<1>1. CASE Fail(r)
  <2>1. Running(r)
    BY <1>1 DEF Step, Running, FindEntity, InsertEntity, SnapObservations,
         ClearObservations, InsertObservation, InsertRelation, SnapEntities,
         Cascade, ReadEntity, CheckName, Rename, FindObservation,
         EraseObservation, WriteObservation, EraseRelation, LogLookup,
         LogInsert, ReadGraphEntities, ReadGraphObservations, CommitTx,
         Deadlock, Blockers
  <2> QED
    BY <1>1, <2>1, FailMove DEF Failed, Moved
<1>2. CASE FindEntity(r)
  BY <1>2, FindEntityMove DEF Within, Moved
<1>3. CASE InsertEntity(r) /\ ~Fail(r)
  BY <1>3, InsertEntityMove DEF Within, Moved
<1>4. CASE SnapObservations(r)
  BY <1>4, SnapObservationsMove DEF Within, Moved
<1>5. CASE ClearObservations(r)
  BY <1>5, ClearObservationsMove DEF Within, Moved
<1>6. CASE InsertObservation(r) /\ ~Fail(r)
  BY <1>6, InsertObservationMove DEF Within, Moved
<1>7. CASE InsertRelation(r) /\ ~Fail(r)
  BY <1>7, InsertRelationMove DEF Within, Moved
<1>8. CASE SnapEntities(r)
  BY <1>8, SnapEntitiesMove DEF Within, Moved
<1>9. CASE ReadEntity(r) /\ ~Fail(r)
  BY <1>9, ReadEntityMove DEF Moved
<1>10. CASE CheckName(r) /\ ~Fail(r)
  BY <1>10, CheckNameMove DEF Within, Moved
<1>11. CASE FindObservation(r) /\ ~Fail(r)
  BY <1>11, FindObservationMove DEF Moved
<1>12. CASE (Cascade(r) \/ Rename(r) \/ EraseObservation(r) \/ WriteObservation(r)
              \/ EraseRelation(r) \/ LogInsert(r)) /\ ~Fail(r)
  <2>1. req[r].pc \in {"cascade", "rename", "write_obs", "delete_rel",
                       "delete_rel_by_triple", "log_insert"}
    BY <1>12 DEF Cascade, Rename, EraseObservation, WriteObservation,
         EraseRelation, LogInsert
  <2>2. req' = [req EXCEPT ![r].pc = "commit"]
    BY <1>12 DEF Cascade, Rename, EraseObservation, WriteObservation,
         EraseRelation, LogInsert
  <2> QED
    <3>1. PICK n : Becomes(r, n) /\ Within(req[r], n) /\ PlanOf(n)
      BY <2>1, <2>2, LastMove
    <3> QED
      BY <3>1 DEF Within, Moved
<1>13. CASE LogLookup(r)
  BY <1>13, LogLookupMove DEF Within, Moved
<1>14. CASE ReadGraphEntities(r)
  BY <1>14, ReadGraphEntitiesMove DEF Within, Moved
<1>15. CASE ReadGraphObservations(r)
  BY <1>15, ReadGraphObservationsMove DEF Moved
<1>16. CASE CommitTx(r)
  BY <1>16, CommitMove DEF Goes, Failed, Moved
<1>17. CASE Deadlock(r)
  BY <1>1, <1>17 DEF Deadlock
<1> QED
  BY <1>1, <1>2, <1>3, <1>4, <1>5, <1>6, <1>7, <1>8, <1>9, <1>10, <1>11, <1>12,
     <1>13, <1>14, <1>15, <1>16, <1>17 DEF Step

\* An actor moves and the others stand still, or nothing happens.
LEMMA NextMove ==
    ASSUME Inv, Planned, [Next]_vars
    PROVE  UNCHANGED vars \/ \E r \in Requests : \E n : Moved(r, n)
<1>1. ASSUME NEW r \in Requests, Step(r) PROVE \E n : Moved(r, n)
  BY <1>1, StepMove
<1>2. ASSUME NEW r \in Requests, Abort(r) PROVE \E n : Moved(r, n)
  BY <1>2, FailMove DEF Abort, Failed, Moved
<1>3. ASSUME NEW r \in Requests, NEW plan \in Plans, Begin(r, plan)
      PROVE  \E n : Moved(r, n)
  BY <1>3, BeginMove DEF Moved
<1> QED
  BY <1>1, <1>2, <1>3 DEF Next

LEMMA PlannedNext ==
    ASSUME Inv, Planned, [Next]_vars
    PROVE  Planned'
<1>1. CASE UNCHANGED vars
  BY <1>1 DEF Planned, vars
<1>2. ASSUME NEW r \in Requests, NEW n, Moved(r, n)
      PROVE  Planned'
  <2>1. ASSUME NEW s \in Requests PROVE req'[s] = req[s] \/ req'[s] = n
    BY <1>2 DEF Moved, Becomes, Inv, Requested
  <2> QED
    BY <1>2, <2>1 DEF Planned, Moved
<1> QED
  BY <1>1, <1>2, NextMove

LEMMA InitPlanned == Init => Planned
<1> SUFFICES ASSUME Init, NEW r \in Requests
    PROVE  PlanOf(req[r])
  BY DEF Planned
<1>1. req[r].asked = << >> /\ req[r].plan = << >> /\ req[r].pc = "idle"
  BY DEF Init, Fresh
<1>2. Suffix(<< >>, << >>)
  BY EmptySeq, LenProperties DEF Suffix
<1> QED
  BY <1>1, <1>2 DEF PlanOf, Ended

\* What was asked is never forgotten.
LEMMA AskedStays ==
    ASSUME Inv, Planned, [Next]_vars, NEW r \in Requests
    PROVE  Asked(r) \subseteq Asked(r)' /\ (req[r].asked # << >> => req'[r].asked = req[r].asked)
<1>1. CASE UNCHANGED vars
  BY <1>1 DEF Asked, vars
<1>2. ASSUME NEW s \in Requests, NEW n, Moved(s, n)
      PROVE  req'[r].asked = req[r].asked \/ req[r].asked = << >>
  BY <1>2 DEF Moved, Becomes, Inv, Requested
<1>3. Range(<< >>) = {}
  BY DEF Range
<1>4. req'[r].asked = req[r].asked \/ req[r].asked = << >>
  BY <1>1, <1>2, NextMove DEF vars
<1> QED
  BY <1>3, <1>4 DEF Asked

(* ---- What the statements do to the tables ------------------------------ *)

\* A statement of r takes the committed versions V, which nobody held, and
\* adds the versions N of its own.
Wrote(rows, V, N, r, new) ==
    /\ V \subseteq rows /\ \A v \in V : v.by = Nil /\ v.gone = Nil
    /\ \A n \in N : n.by = r /\ n.gone = Nil
    /\ new = Remove(rows, V, r) \cup N

\* x is v after the statement of r that took V.
After(rows, V, r, C, v, x) ==
    /\ v \in rows /\ x.by = v.by /\ SameOn(C, x, v)
    /\ \/ v \notin V /\ x = v
       \/ v \in V /\ v.by = Nil /\ v.gone = Nil /\ x.gone = r

LEMMA WroteRows ==
    ASSUME NEW rows, NEW C, Rows(rows, C), Columns(C), NEW r \in Requests,
           NEW V, NEW N, NEW new, Wrote(rows, V, N, r, new)
    PROVE  /\ \A x \in new : x \in N \/ \E v : After(rows, V, r, C, v, x)
           /\ \A v \in rows : \E x \in new : After(rows, V, r, C, v, x)
           /\ N \subseteq new
<1>1. /\ Removable(rows, V, r) /\ Nil \notin Requests
      /\ \A v \in V : v.by = Nil /\ v.gone = Nil
      /\ new = Remove(rows, V, r) \cup N
  BY PlanAssumption DEF Wrote, Removable
<1>2. ASSUME NEW x \in Remove(rows, V, r)
      PROVE  \E v : After(rows, V, r, C, v, x)
  <2>1. PICK v \in rows : Removing(v, x, r, v \in V, C)
    BY <1>1, InRemove
  <2> QED
    BY <1>1, <2>1 DEF After, Removing, SameOn
<1>3. ASSUME NEW v \in rows
      PROVE  \E x \in Remove(rows, V, r) : After(rows, V, r, C, v, x)
  <2>1. v \in V => v.by # r
    BY <1>1
  <2>2. PICK x \in Remove(rows, V, r) : Removing(v, x, r, v \in V, C)
    BY <1>1, <2>1, OfRemove
  <2> QED
    BY <1>1, <2>2 DEF After, Removing, SameOn
<1> QED
  BY <1>1, <1>2, <1>3

LEMMA WroteNothing ==
    ASSUME NEW rows, NEW r
    PROVE  Wrote(rows, {}, {}, r, rows)
BY DEF Wrote, Remove

LEMMA WroteMore ==
    ASSUME NEW rows, NEW N, NEW r, \A n \in N : n.by = r /\ n.gone = Nil
    PROVE  Wrote(rows, {}, N, r, rows \cup N)
BY DEF Wrote, Remove

LEMMA WroteLess ==
    ASSUME NEW rows, NEW V \in SUBSET rows, NEW r,
           \A v \in V : v.by = Nil /\ v.gone = Nil
    PROVE  Wrote(rows, V, {}, r, Remove(rows, V, r))
BY DEF Wrote

\* What a request that has written nothing may remove is committed and free.
LEMMA Takes ==
    ASSUME NEW rows, NEW C, Rows(rows, C), NEW X, X \subseteq rows,
           NEW r \in Requests, Untouched(rows, r), Writers(X, r) = {}
    PROVE  \A v \in Visible(X, r) :
              v \in X /\ v \in rows /\ v.by = Nil /\ v.gone = Nil
BY PlanAssumption DEF Rows, Writers, Visible, Untouched

\* A statement of r other than a commit or a rollback.
Writes(r, VE, NE, VO, NO, VR, NR, NH) ==
    /\ Wrote(entities, VE, NE, r, entities')
    /\ Wrote(observations, VO, NO, r, observations')
    /\ Wrote(relations, VR, NR, r, relations')
    /\ history' = history \cup NH /\ \A h \in NH : h.by = r /\ h.gone = Nil

LEMMA QuietWrites ==
    ASSUME NEW r, UNCHANGED tables
    PROVE  Writes(r, {}, {}, {}, {}, {}, {}, {})
BY WroteNothing DEF Writes, tables

LEMMA RecordFields ==
    ASSUME NEW r, NEW entity, NEW name, NEW obs, NEW action, NEW old, NEW new,
           NEW n, n = Record(r, entity, name, obs, action, old, new)
    PROVE  /\ n.by = r /\ n.gone = Nil /\ n.id = nextID /\ n.obs = obs
           /\ n.action = action /\ n.entity = entity /\ n.old = old /\ n.new = new
BY DEF Record

LEMMA InsertEntityWrites ==
    ASSUME NEW r, InsertEntity(r), ~Fail(r)
    PROVE  \E e : /\ Writes(r, {}, {e}, {}, {}, {}, {}, {})
                  /\ e.id = nextID /\ e.project = Call(r).project
                  /\ e.name = Wanted(r).name /\ nextID' = nextID + 1
<1>1. PICK e : e = [by |-> r, gone |-> Nil, id |-> nextID,
                    project |-> Call(r).project, name |-> Wanted(r).name,
                    type |-> Wanted(r).type]
  OBVIOUS
<1>2. /\ entities' = entities \cup {e} /\ observations' = observations
      /\ relations' = relations /\ history' = history /\ nextID' = nextID + 1
  BY <1>1 DEF InsertEntity
<1>3. /\ e.by = r /\ e.gone = Nil /\ e.id = nextID
      /\ e.project = Call(r).project /\ e.name = Wanted(r).name
  BY <1>1
<1>4. Wrote(entities, {}, {e}, r, entities')
  BY <1>2, <1>3, WroteMore
<1> QED
  BY <1>2, <1>3, <1>4, WroteNothing DEF Writes

LEMMA ClearObservationsWrites ==
    ASSUME Inv, NEW r \in Requests, Clean(r), ClearObservations(r)
    PROVE  \E V : /\ Writes(r, {}, {}, V, {}, {}, {}, {})
                  /\ \A v \in V : v \in observations /\ v.id \in req[r].snap
                  /\ nextID' = nextID
<1>1. PICK X : X = WithID(observations, req[r].snap)
  OBVIOUS
<1>2. /\ observations' = Remove(observations, Visible(X, r), r)
      /\ entities' = entities /\ relations' = relations /\ history' = history
      /\ nextID' = nextID
  BY <1>1 DEF ClearObservations
<1>3. X \subseteq observations /\ \A v \in X : v.id \in req[r].snap
  BY <1>1 DEF WithID
<1>4. Writers(X, r) = {}
  BY <1>1 DEF ClearObservations, Blockers
<1>5. \A v \in Visible(X, r) :
         v \in X /\ v \in observations /\ v.by = Nil /\ v.gone = Nil
  BY <1>3, <1>4, Takes DEF Inv, Tables, Clean
<1>6. Wrote(observations, Visible(X, r), {}, r, observations')
  BY <1>2, <1>5, WroteLess
<1> QED
  BY <1>2, <1>3, <1>5, <1>6, WroteNothing DEF Writes

LEMMA InsertObservationWrites ==
    ASSUME NEW r, InsertObservation(r), ~Fail(r)
    PROVE  \E o, H :
              /\ Writes(r, {}, {}, {}, {o}, {}, {}, H)
              /\ o.id = nextID /\ o.entity = req[r].id
              /\ o.content = Head(req[r].contents) /\ nextID' = nextID + 1
              /\ Lives(entities, req[r].id, r)
              /\ \/ H = {} /\ ~Call(r).audited
                 \/ \E h : /\ H = {h} /\ h.action = "observation_created"
                           /\ h.obs = o.id /\ h.new = o.content
<1>1. PICK q, content : q = req[r] /\ content = Head(q.contents)
  OBVIOUS
<1>2. PICK o : o = [by |-> r, gone |-> Nil, id |-> nextID, entity |-> q.id,
                    content |-> content]
  OBVIOUS
<1>3. PICK h : h = Record(r, q.id, Item(r).name, nextID, "observation_created",
                          Nil, content)
  OBVIOUS
<1>4. PICK H : H = IF Call(r).audited THEN {h} ELSE {}
  OBVIOUS
<1>5. /\ observations' = observations \cup {o} /\ entities' = entities
      /\ relations' = relations /\ nextID' = nextID + 1
  BY <1>1, <1>2 DEF InsertObservation
<1>6. history' = history \cup H
  BY <1>1, <1>3, <1>4 DEF InsertObservation
<1>7. /\ o.by = r /\ o.gone = Nil /\ o.id = nextID /\ o.entity = q.id
      /\ o.content = content
  BY <1>2
<1>8. /\ h.by = r /\ h.gone = Nil /\ h.action = "observation_created"
      /\ h.obs = nextID /\ h.new = content
  BY <1>3, RecordFields
<1>9. Wrote(observations, {}, {o}, r, observations')
  BY <1>5, <1>7, WroteMore
<1>10. Lives(entities, q.id, r)
  <2>1. q.pc = "insert_obs" /\ Blockers(r) = {}
    BY <1>1 DEF InsertObservation
  <2>2. Writers(KeyChanged(q.id), r) = {}
    BY <1>1, <2>1 DEF Blockers
  <2>3. Visible(WithID(entities, {q.id}), r) # {}
    BY <1>1 DEF InsertObservation
  <2> QED
    BY <2>2, <2>3, SeenLives
<1>11. Writes(r, {}, {}, {}, {o}, {}, {}, H)
  BY <1>4, <1>5, <1>6, <1>8, <1>9, WroteNothing DEF Writes
<1>12. \/ H = {} /\ ~Call(r).audited
       \/ \E g : /\ H = {g} /\ g.action = "observation_created"
                 /\ g.obs = o.id /\ g.new = o.content
  BY <1>4, <1>7, <1>8
<1> QED
  BY <1>1, <1>5, <1>7, <1>10, <1>11, <1>12

LEMMA InsertRelationWrites ==
    ASSUME NEW r, InsertRelation(r), ~Fail(r)
    PROVE  \E N : /\ Writes(r, {}, {}, {}, {}, {}, N, {})
                  /\ \E x \in relations' :
                        /\ x.by \in {Nil, r} /\ x.from = req[r].id
                        /\ x.to = req[r].id2 /\ x.type = Triple(r).type
<1>1. PICK q, type : q = req[r] /\ type = Triple(r).type
  OBVIOUS
<1>2. PICK new : new = [by |-> r, gone |-> Nil, id |-> nextID, from |-> q.id,
                        to |-> q.id2, type |-> type]
  OBVIOUS
<1>3. /\ new.by = r /\ new.gone = Nil /\ new.from = q.id /\ new.to = q.id2
      /\ new.type = type
  BY <1>2
<1>4. /\ IF Existing(new.from, new.to, new.type, r) = {}
         THEN relations' = relations \cup {new} /\ nextID' = nextID + 1
         ELSE relations' = relations /\ nextID' = nextID
      /\ entities' = entities /\ observations' = observations /\ history' = history
  BY <1>1, <1>2 DEF InsertRelation
<1>5. CASE Existing(new.from, new.to, new.type, r) = {}
  <2>1. relations' = relations \cup {new}
    BY <1>4, <1>5
  <2>2. Writes(r, {}, {}, {}, {}, {}, {new}, {})
    BY <1>3, <1>4, <2>1, WroteMore, WroteNothing DEF Writes
  <2> QED
    BY <1>1, <1>3, <2>1, <2>2
<1>6. CASE Existing(new.from, new.to, new.type, r) # {}
  <2>1. relations' = relations
    BY <1>4, <1>6
  <2>2. Writes(r, {}, {}, {}, {}, {}, {}, {})
    BY <1>4, <2>1, WroteNothing DEF Writes
  <2>3. PICK x \in Visible(SameTriple(new.from, new.to, new.type), r) : TRUE
    BY <1>6 DEF Existing
  <2>4. /\ x \in relations /\ x.by \in {Nil, r} /\ x.from = new.from
        /\ x.to = new.to /\ x.type = new.type
    BY <2>3 DEF Visible, SameTriple
  <2> QED
    BY <1>1, <1>3, <2>1, <2>2, <2>4
<1> QED
  BY <1>5, <1>6

\* The entities go with all their observations.
LEMMA CascadeWrites ==
    ASSUME Inv, NEW r \in Requests, Cascade(r)
    PROVE  \E VE, VO, VR :
              /\ Writes(r, VE, {}, VO, {}, VR, {}, {}) /\ nextID' = nextID
              /\ \A o \in VO : \E e \in VE : e.id = o.entity
              /\ \A e \in VE : \A f \in entities : f.id = e.id => f = e
<1>1. PICK snap, names : snap = req[r].snap /\ names = Call(r).names
  OBVIOUS
<1>2. PICK X : X = WithID(entities, snap)
  OBVIOUS
<1>3. PICK VE : VE = {e \in Visible(X, r) : e.name \in names}
  OBVIOUS
<1>4. PICK ids : ids = {e.id : e \in VE}
  OBVIOUS
<1>5. /\ req[r].pc = "cascade" /\ Blockers(r) = {}
      /\ entities' = Remove(entities, VE, r)
      /\ observations' = Remove(observations, Visible(ObsOf(ids), r), r)
      /\ relations' = Remove(relations, Visible(RelsOf(ids), r), r)
      /\ history' = history /\ nextID' = nextID
  BY <1>1, <1>2, <1>3, <1>4 DEF Cascade, ReferencesTo
<1>6. /\ Writers(X, r) = {} /\ Writers(ObsOf(snap), r) = {}
      /\ Writers(RelsOf(snap), r) = {}
  BY <1>1, <1>2, <1>5 DEF Blockers
<1>7. X \subseteq entities /\ VE \subseteq X /\ ids \subseteq snap
  BY <1>2, <1>3, <1>4 DEF WithID, Visible
<1>8. /\ ObsOf(ids) \subseteq observations /\ ObsOf(ids) \subseteq ObsOf(snap)
      /\ RelsOf(ids) \subseteq relations /\ RelsOf(ids) \subseteq RelsOf(snap)
  BY <1>7 DEF ObsOf, RelsOf
<1>9. Writers(ObsOf(ids), r) = {} /\ Writers(RelsOf(ids), r) = {}
  BY <1>6, <1>8 DEF Writers
<1>10. Clean(r)
  BY <1>5 DEF Inv, Requested, Local, Open
<1>11. \A e \in Visible(X, r) : e \in X /\ e \in entities /\ e.by = Nil /\ e.gone = Nil
  BY <1>6, <1>7, <1>10, Takes DEF Inv, Tables, Clean
<1>12. \A o \in Visible(ObsOf(ids), r) :
          o \in ObsOf(ids) /\ o \in observations /\ o.by = Nil /\ o.gone = Nil
  BY <1>8, <1>9, <1>10, Takes DEF Inv, Tables, Clean
<1>13. \A x \in Visible(RelsOf(ids), r) :
          x \in RelsOf(ids) /\ x \in relations /\ x.by = Nil /\ x.gone = Nil
  BY <1>8, <1>9, <1>10, Takes DEF Inv, Tables, Clean
<1>14. \A e \in VE : e \in entities /\ e.by = Nil /\ e.gone = Nil
  BY <1>3, <1>11
<1>15. Wrote(entities, VE, {}, r, entities')
  BY <1>5, <1>14, WroteLess
<1>16. Wrote(observations, Visible(ObsOf(ids), r), {}, r, observations')
  BY <1>5, <1>12, WroteLess
<1>17. Wrote(relations, Visible(RelsOf(ids), r), {}, r, relations')
  BY <1>5, <1>13, WroteLess
<1>18. Writes(r, VE, {}, Visible(ObsOf(ids), r), {}, Visible(RelsOf(ids), r), {}, {})
  BY <1>5, <1>15, <1>16, <1>17 DEF Writes
<1>19. \A o \in Visible(ObsOf(ids), r) : \E e \in VE : e.id = o.entity
  BY <1>4, <1>12 DEF ObsOf
<1>20. ASSUME NEW e \in VE, NEW f \in entities, f.id = e.id
       PROVE  f = e
  <2>1. Alt(f, e)
    BY <1>14, <1>20 DEF Inv, Keys, Unique, SameOn
  <2>2. f.gone # Nil => e.by # Nil
    BY <2>1, <1>14 DEF Alt, Replaced
  <2>3. f \in X
    BY <1>2, <1>7, <1>20 DEF WithID
  <2>4. f.gone = Nil \/ f.gone = r
    BY <1>6, <2>3 DEF Writers
  <2> QED
    BY <1>10, <1>14, <2>1, <2>3, <2>4 DEF Alt, Replaced, Clean, Untouched
<1> QED
  BY <1>5, <1>18, <1>19, <1>20

LEMMA RenameWrites ==
    ASSUME Inv, NEW r \in Requests, Rename(r), ~Fail(r)
    PROVE  \E VE, NE, H :
              /\ Writes(r, VE, NE, {}, {}, {}, {}, H) /\ nextID' = nextID + 2
              /\ \A n \in NE : /\ n.name = Call(r).newName
                               /\ n.project = Call(r).project
                               /\ \E v \in VE : v.id = n.id /\ v.project = n.project
              /\ \A h \in H : h.action \in {"entity_renamed", "entity_type_changed"}
<1>1. PICK q, c : q = req[r] /\ c = Call(r)
  OBVIOUS
<1>2. PICK X : X = WithID(entities, {q.id})
  OBVIOUS
<1>3. PICK VE : VE = Visible(X, r)
  OBVIOUS
<1>4. PICK NE : NE = {[e EXCEPT !.by = r, !.name = c.newName, !.type = c.newType]
                        : e \in VE}
  OBVIOUS
<1>5. PICK a : a = Record(r, q.id, c.newName, Nil, "entity_renamed", c.name,
                          c.newName)
  OBVIOUS
<1>6. PICK d : d = Record(r, q.id, c.newName, Nil, "entity_type_changed", q.old,
                          c.newType)
  OBVIOUS
<1>7. PICK b : b = [d EXCEPT !.id = @ + 1]
  OBVIOUS
<1>8. PICK H : H = (IF c.newName = c.name THEN {} ELSE {a})
                     \cup (IF c.newType = q.old THEN {} ELSE {b})
  OBVIOUS
<1>9. /\ req[r].pc = "rename" /\ Blockers(r) = {}
      /\ entities' = Remove(entities, VE, r) \cup NE
      /\ observations' = observations /\ relations' = relations
      /\ nextID' = nextID + 2
  BY <1>1, <1>2, <1>3, <1>4 DEF Rename
<1>10. history' = history \cup H
  BY <1>1, <1>5, <1>6, <1>7, <1>8 DEF Rename
<1>11. a.by = r /\ a.gone = Nil /\ a.action = "entity_renamed"
  BY <1>5, RecordFields
<1>12. b.by = r /\ b.gone = Nil /\ b.action = "entity_type_changed"
  <2>1. d.by = r /\ d.gone = Nil /\ d.action = "entity_type_changed"
        /\ d = [f \in DOMAIN d |-> d[f]]
        /\ {"by", "gone", "action"} \subseteq DOMAIN d
    BY <1>6, RecordForm DEF EntryColumns
  <2> QED
    BY <1>7, <2>1
<1>13. \A h \in H : /\ h.by = r /\ h.gone = Nil
                    /\ h.action \in {"entity_renamed", "entity_type_changed"}
  BY <1>8, <1>11, <1>12
<1>14. Writers(X, r) = {} /\ X \subseteq entities
  BY <1>1, <1>2, <1>9 DEF Blockers, WithID
<1>15. Clean(r) /\ InProject(q.id, c.project)
  BY <1>1, <1>9 DEF Inv, Requested, Local, Open, Call
<1>16. \A e \in VE : e \in X /\ e \in entities /\ e.by = Nil /\ e.gone = Nil
  BY <1>3, <1>14, <1>15, Takes DEF Inv, Tables, Clean
<1>17. ASSUME NEW n \in NE
       PROVE  /\ n.by = r /\ n.gone = Nil /\ n.name = c.newName
              /\ n.project = c.project
              /\ \E v \in VE : v.id = n.id /\ v.project = n.project
  <2>1. PICK e \in VE : n = [e EXCEPT !.by = r, !.name = c.newName, !.type = c.newType]
    BY <1>4
  <2>2. /\ e = [f \in DOMAIN e |-> e[f]]
        /\ {"by", "gone", "id", "name", "project", "type"} \subseteq DOMAIN e
    BY <1>16, <2>1 DEF Inv, Tables, Rows, EntityColumns
  <2>3. /\ n.by = r /\ n.gone = e.gone /\ n.name = c.newName
        /\ n.project = e.project /\ n.id = e.id
    BY <2>1, <2>2
  <2>4. e.project = c.project
    BY <1>2, <1>15, <1>16, <2>1 DEF InProject, WithID
  <2> QED
    BY <1>16, <2>3, <2>4
<1>18. Wrote(entities, VE, NE, r, entities')
  BY <1>9, <1>16, <1>17 DEF Wrote
<1>19. Writes(r, VE, NE, {}, {}, {}, {}, H)
  BY <1>9, <1>10, <1>13, <1>18, WroteNothing DEF Writes
<1> QED
  BY <1>1, <1>9, <1>13, <1>17, <1>19

\* What a request at write_obs finds.
LEMMA HeldAtWrite ==
    ASSUME Inv, NEW r \in Requests, req[r].pc = "write_obs", Blockers(r) = {},
           NEW V, V = Visible(WithID(observations, {req[r].obs}), r)
    PROVE  \/ V = {} /\ \A o \in observations : o.id # req[r].obs
           \/ \E o \in observations :
                 /\ V = {o} /\ o.id = req[r].obs /\ o.by = Nil /\ o.gone = Nil
                 /\ \A v \in observations : v.id = req[r].obs => v = o
<1>1. Clean(r) /\ Known(observations, req[r].obs)
  BY DEF Inv, Requested, Local, Open
<1>2. Writers(WithID(observations, {req[r].obs}), r) = {}
  BY DEF Blockers
<1> QED
  BY <1>1, <1>2, HeldObservation

LEMMA EraseObservationWrites ==
    ASSUME Inv, NEW r \in Requests, EraseObservation(r)
    PROVE  \E V, h :
              /\ Writes(r, {}, {}, V, {}, {}, {}, {h}) /\ nextID' = nextID + 1
              /\ \A v \in V : v \in observations /\ v.id = req[r].obs
              /\ h.action = "observation_deleted" /\ h.entity = req[r].id
<1>1. PICK q, V : q = req[r] /\ V = Visible(WithID(observations, {q.obs}), r)
  OBVIOUS
<1>2. PICK h : h = Record(r, q.id, q.name, q.obs, "observation_deleted", q.old, Nil)
  OBVIOUS
<1>3. /\ q.pc = "write_obs" /\ Blockers(r) = {}
      /\ observations' = Remove(observations, V, r)
      /\ history' = history \cup {h} /\ nextID' = nextID + 1
      /\ entities' = entities /\ relations' = relations
  BY <1>1, <1>2 DEF EraseObservation
<1>4. \A v \in V : v \in observations /\ v.id = q.obs /\ v.by = Nil /\ v.gone = Nil
  BY <1>1, <1>3, HeldAtWrite
<1>5. /\ h.by = r /\ h.gone = Nil /\ h.action = "observation_deleted"
      /\ h.entity = q.id
  BY <1>2, RecordFields
<1>6. Wrote(observations, V, {}, r, observations')
  BY <1>3, <1>4, WroteLess
<1>7. Writes(r, {}, {}, V, {}, {}, {}, {h})
  BY <1>3, <1>5, <1>6, WroteNothing DEF Writes
<1> QED
  BY <1>1, <1>3, <1>4, <1>5, <1>7

\* The UPDATE of an observation replaces V by N, and H is what it records.
Overwrites(r, V, N) ==
    \/ V = {} /\ N = {}
    \/ \E o \in observations : \E n :
          /\ V = {o} /\ N = {n} /\ o.id = req[r].obs /\ n.id = o.id
          /\ n.entity = o.entity /\ n.content = Call(r).new
          /\ \A v \in observations : v.id = o.id => v = o

Tells(r, H) ==
    \/ H = {} /\ req[r].old = Call(r).new
    \/ \E h : /\ H = {h} /\ h.action = "observation_updated"
              /\ h.entity = req[r].id /\ h.obs = req[r].obs
              /\ h.new = Call(r).new

LEMMA WriteObservationWrites ==
    ASSUME Inv, NEW r \in Requests, WriteObservation(r), ~Fail(r)
    PROVE  \E V, N, H : /\ Writes(r, {}, {}, V, N, {}, {}, H)
                       /\ nextID' = nextID + 1
                       /\ Overwrites(r, V, N) /\ Tells(r, H)
<1>1. PICK q, V, new : /\ q = req[r] /\ V = Visible(WithID(observations, {q.obs}), r)
                      /\ new = Call(r).new
  OBVIOUS
<1>2. PICK h : h = Record(r, q.id, q.name, q.obs, "observation_updated", q.old, new)
  OBVIOUS
<1>3. PICK H : H = IF q.old = new THEN {} ELSE {h}
  OBVIOUS
<1>4. PICK N : N = {[o EXCEPT !.by = r, !.content = new] : o \in V}
  OBVIOUS
<1>5. /\ q.pc = "write_obs" /\ Blockers(r) = {}
      /\ observations' = Remove(observations, V, r) \cup N
      /\ nextID' = nextID + 1
      /\ entities' = entities /\ relations' = relations
  BY <1>1, <1>4 DEF WriteObservation, Current
<1>6. history' = history \cup H
  BY <1>1, <1>2, <1>3 DEF WriteObservation, UpdateEntry
<1>7. \/ V = {}
      \/ \E o \in observations :
            /\ V = {o} /\ o.id = q.obs /\ o.by = Nil /\ o.gone = Nil
            /\ \A v \in observations : v.id = q.obs => v = o
  BY <1>1, <1>5, HeldAtWrite
<1>8. /\ h.by = r /\ h.gone = Nil /\ h.action = "observation_updated"
      /\ h.entity = q.id /\ h.obs = q.obs /\ h.new = new
  BY <1>2, RecordFields
<1>9. \/ V = {} /\ N = {}
      \/ \E o \in observations : \E n :
            /\ V = {o} /\ N = {n} /\ o.id = q.obs /\ n.id = o.id
            /\ n.entity = o.entity /\ n.content = Call(r).new
            /\ \A v \in observations : v.id = o.id => v = o
            /\ o.by = Nil /\ o.gone = Nil /\ n.by = r /\ n.gone = Nil
  <2>1. CASE V = {}
    BY <1>4, <2>1
  <2>2. CASE V # {}
    <3>1. PICK o \in observations :
             /\ V = {o} /\ o.id = q.obs /\ o.by = Nil /\ o.gone = Nil
             /\ \A v \in observations : v.id = q.obs => v = o
      BY <1>7, <2>2
    <3>2. /\ o = [f \in DOMAIN o |-> o[f]]
          /\ {"by", "gone", "id", "entity", "content"} \subseteq DOMAIN o
      BY DEF Inv, Tables, Rows, ObservationColumns
    <3>3. PICK n : n = [o EXCEPT !.by = r, !.content = new]
      OBVIOUS
    <3>4. /\ n.by = r /\ n.gone = o.gone /\ n.id = o.id /\ n.entity = o.entity
          /\ n.content = new
      BY <3>2, <3>3
    <3>5. N = {n}
      BY <1>4, <3>1, <3>3
    <3> QED
      BY <1>1, <3>1, <3>4, <3>5
  <2> QED
    BY <2>1, <2>2
<1>10. Wrote(observations, V, N, r, observations')
  BY <1>5, <1>9 DEF Wrote
<1>11. Writes(r, {}, {}, V, N, {}, {}, H)
  BY <1>3, <1>5, <1>6, <1>8, <1>10, WroteNothing DEF Writes
<1>12. Tells(r, H)
  BY <1>1, <1>3, <1>8 DEF Tells
<1>13. Overwrites(r, V, N)
  BY <1>1, <1>9 DEF Overwrites
<1> QED
  BY <1>5, <1>11, <1>12, <1>13

LEMMA EraseRelationWrites ==
    ASSUME Inv, NEW r \in Requests, EraseRelation(r), ~Fail(r)
    PROVE  \E V : Writes(r, {}, {}, {}, {}, V, {}, {}) /\ nextID' = nextID
<1>1. PICK X : X = Matches(r)
  OBVIOUS
<1>2. /\ req[r].pc \in {"delete_rel", "delete_rel_by_triple"} /\ Blockers(r) = {}
      /\ relations' = Remove(relations, Visible(X, r), r)
      /\ entities' = entities /\ observations' = observations
      /\ history' = history /\ nextID' = nextID
  BY <1>1 DEF EraseRelation
<1>3. X \subseteq relations
  BY <1>1 DEF Matches
<1>4. Writers(X, r) = {}
  BY <1>1, <1>2 DEF Blockers
<1>5. Clean(r)
  BY <1>2 DEF Inv, Requested, Local, Open
<1>6. \A v \in Visible(X, r) :
         v \in X /\ v \in relations /\ v.by = Nil /\ v.gone = Nil
  BY <1>3, <1>4, <1>5, Takes DEF Inv, Tables, Clean
<1>7. Wrote(relations, Visible(X, r), {}, r, relations')
  BY <1>2, <1>6, WroteLess
<1> QED
  BY <1>2, <1>7, WroteNothing DEF Writes

LEMMA LogInsertWrites ==
    ASSUME Inv, NEW r \in Requests, LogInsert(r)
    PROVE  \E h : /\ Writes(r, {}, {}, {}, {}, {}, {}, {h}) /\ nextID' = nextID + 1
                  /\ h.action = Call(r).action /\ h.obs = Nil
                  /\ h.action \in {"checkpoint_saved", "session_start"}
<1>1. PICK h : h = Record(r, req[r].id, Call(r).name, Nil, Call(r).action, Nil, Nil)
  OBVIOUS
<1>2. /\ req[r].pc = "log_insert" /\ history' = history \cup {h}
      /\ nextID' = nextID + 1
      /\ entities' = entities /\ observations' = observations
      /\ relations' = relations
  BY <1>1 DEF LogInsert
<1>3. h.by = r /\ h.gone = Nil /\ h.action = Call(r).action /\ h.obs = Nil
  BY <1>1, RecordFields
<1>4. Call(r).action \in {"checkpoint_saved", "session_start"}
  <2>1. Call(r) \in Calls /\ Call(r).do = "log"
    BY <1>2, HasPlan DEF Inv, Requested, Local
  <2> QED
    BY <2>1, PlanAssumption
<1>5. Writes(r, {}, {}, {}, {}, {}, {}, {h})
  BY <1>2, <1>3, WroteNothing DEF Writes
<1> QED
  BY <1>2, <1>3, <1>4, <1>5

(* ---- A save removes nothing of its own --------------------------------- *)

\* A request that is about to replace observations has written nothing yet.
Due(q) ==
    \/ q.pc \in {"snap_obs", "clear_obs"}
    \/ q.pc \in {"find_item", "insert_item"} /\ Head(q.plan).replace

Ready(q, r) == Due(q) => Clean(r)

PlanInv == Inv /\ Planned /\ \A r \in Requests : Ready(req[r], r)

\* Nothing of s appears in a table that r changes.
LEMMA WroteLeaves ==
    ASSUME NEW rows, NEW C, Rows(rows, C), Columns(C), NEW r \in Requests,
           NEW V, NEW N, NEW new, Wrote(rows, V, N, r, new),
           NEW s \in Requests, s # r, Untouched(rows, s)
    PROVE  Untouched(new, s)
<1>1. \A x \in new : x \in N \/ \E v : After(rows, V, r, C, v, x)
  BY WroteRows
<1>2. \A n \in N : n.by = r /\ n.gone = Nil
  BY DEF Wrote
<1> QED
  BY <1>1, <1>2, PlanAssumption DEF After, Untouched

LEMMA WritesLeave ==
    ASSUME Inv, NEW r \in Requests, NEW VE, NEW NE, NEW VO, NEW NO, NEW VR, NEW NR,
           NEW NH, Writes(r, VE, NE, VO, NO, VR, NR, NH),
           NEW s \in Requests, s # r, Clean(s)
    PROVE  Clean(s)'
<1>1. /\ Rows(entities, EntityColumns) /\ Rows(observations, ObservationColumns)
      /\ Rows(relations, RelationColumns)
  BY DEF Inv, Tables
<1>2. Untouched(entities', s)
  BY <1>1, ColumnsOfTables, WroteLeaves DEF Writes, Clean
<1>3. Untouched(observations', s)
  BY <1>1, ColumnsOfTables, WroteLeaves DEF Writes, Clean
<1>4. Untouched(relations', s)
  BY <1>1, ColumnsOfTables, WroteLeaves DEF Writes, Clean
<1>5. Untouched(history', s)
  BY PlanAssumption DEF Writes, Clean, Untouched
<1> QED
  BY <1>2, <1>3, <1>4, <1>5 DEF Clean

LEMMA TailIsShorter ==
    ASSUME NEW S, NEW s \in Seq(S), s # << >>
    PROVE  Tail(s) # s
<1>1. Len(Tail(s)) = Len(s) - 1
  BY HeadTailProperties
<1>2. Len(s) \in Nat
  BY LenProperties
<1>3. PICK n : n = Len(s)
  OBVIOUS
<1>4. n - 1 # n
  BY <1>2, <1>3
<1> QED
  BY <1>1, <1>3, <1>4

\* The loop over the items of a save ends with its one item.
LEMMA SaveFollows ==
    ASSUME NEW q, PlanOf(q), q.pc \in ItemPcs, NEW n, PlanOf(n), Within(q, n),
           NEW contents, Followed(q, n, contents), Head(q.plan).replace
    PROVE  n.pc \in {"insert_obs", "commit"}
<1>1. PICK c : c = Head(q.plan)
  OBVIOUS
<1>2. c.do = "items" /\ c.replace /\ q.items = c.items /\ q.items # << >>
      /\ q.items \in Seq(Range(c.items))
  BY <1>1, AtItem DEF Loops
<1>3. CASE contents # << >>
  BY <1>3 DEF Followed
<1>4. CASE contents = << >>
  <2>1. n.items = Tail(q.items) /\ n.pc \in {"find_item", "find_from", "commit"}
    BY <1>4, LoopPcs DEF Followed
  <2>2. Loops(n, c)
    BY <1>1, <1>2, <2>1 DEF PlanOf, Within, Ended
  <2>3. n.pc # "find_from"
    BY <1>2, <2>2 DEF Loops, ItemPcs
  <2>4. n.pc = "find_item" => n.items = q.items
    BY <1>2, <2>2 DEF Loops, ItemPcs
  <2>5. Tail(q.items) # q.items
    BY <1>2, TailIsShorter
  <2> QED
    BY <2>1, <2>3, <2>4, <2>5
<1> QED
  BY <1>3, <1>4

\* r moves to n by a statement, and is ready if n has to be.
ReadyAfter(r, n) == Moved(r, n) /\ Ready(n, r)'

LEMMA ReadyStays ==
    ASSUME PlanInv, NEW r \in Requests, NEW n, ReadyAfter(r, n), Inv',
           \A s \in Requests : s # r /\ Clean(s) => Clean(s)'
    PROVE  PlanInv'
<1>1. /\ req'[r] = n
      /\ \A s \in Requests : s # r => req'[s] = req[s]
  BY DEF ReadyAfter, Moved, Becomes, PlanInv, Inv, Requested
<1>2. Planned'
  BY <1>1 DEF Planned, PlanInv, ReadyAfter, Moved
<1>3. ASSUME NEW s \in Requests PROVE Ready(req[s], s)'
  BY <1>1 DEF PlanInv, ReadyAfter, Ready
<1> QED
  BY <1>2, <1>3 DEF PlanInv

LEMMA QuietReady ==
    ASSUME PlanInv, Inv', NEW r \in Requests, NEW n, Moved(r, n),
           UNCHANGED tables, Ready(n, r)
    PROVE  PlanInv'
<1>1. \A s \in Requests : Clean(s) => Clean(s)'
  BY DEF tables, Clean, Untouched
<1>2. Ready(n, r)'
  BY <1>1 DEF Ready, Due
<1> QED
  BY <1>1, <1>2, ReadyStays DEF ReadyAfter

LEMMA WriteReady ==
    ASSUME PlanInv, Inv', NEW r \in Requests, NEW n, Moved(r, n), ~Due(n),
           NEW VE, NEW NE, NEW VO, NEW NO, NEW VR, NEW NR, NEW NH,
           Writes(r, VE, NE, VO, NO, VR, NR, NH)
    PROVE  PlanInv'
<1>1. \A s \in Requests : s # r /\ Clean(s) => Clean(s)'
  BY WritesLeave DEF PlanInv
<1>2. Ready(n, r)'
  BY DEF Ready, Due
<1> QED
  BY <1>1, <1>2, ReadyStays DEF ReadyAfter

LEMMA FailReady ==
    ASSUME PlanInv, Inv', NEW r \in Requests, Running(r), Fail(r)
    PROVE  PlanInv'
<1>1. PICK n : Becomes(r, n) /\ Failed(r, n)
  BY FailMove DEF PlanInv
<1>2. \A s \in Requests : s # r /\ Clean(s) => Clean(s)'
  BY RollbackTables DEF PlanInv, Fail, UndoHistory
<1>3. Moved(r, n)
  BY <1>1 DEF Moved, Failed
<1>4. Ready(n, r)'
  BY <1>1 DEF Failed, Ready, Due
<1> QED
  BY <1>2, <1>3, <1>4, ReadyStays DEF ReadyAfter

LEMMA CommitReady ==
    ASSUME PlanInv, Inv', NEW r \in Requests, CommitTx(r)
    PROVE  PlanInv'
<1>1. PICK n : Becomes(r, n) /\ (Goes(r, n) \/ Failed(r, n))
  BY CommitMove DEF PlanInv
<1>2. Clean(r)' /\ \A s \in Requests : s # r /\ Clean(s) => Clean(s)'
  BY CommitTables DEF PlanInv, CommitTx
<1>3. Moved(r, n)
  BY <1>1 DEF Moved, Failed, Goes
<1>4. Ready(n, r)'
  BY <1>2 DEF Ready
<1> QED
  BY <1>2, <1>3, <1>4, ReadyStays DEF ReadyAfter

LEMMA FindEntityReady ==
    ASSUME PlanInv, Inv', NEW r \in Requests, FindEntity(r)
    PROVE  PlanInv'
<1>1. PICK n, E : /\ Becomes(r, n) /\ Within(req[r], n) /\ PlanOf(n)
                  /\ \/ \E e \in E : Resolved(req[r], n, e.id)
                     \/ E = {} /\ NotFound(req[r], n)
  BY FindEntityMove DEF PlanInv
<1>2. Moved(r, n) /\ UNCHANGED tables
  BY <1>1 DEF Moved, Within, FindEntity
<1>3. Due(n) => Due(req[r])
  <2>1. CASE NotFound(req[r], n)
    BY <1>1, <2>1 DEF NotFound, Due, Within
  <2>2. CASE \E e \in E : Resolved(req[r], n, e.id)
    <3>1. PICK id : Resolved(req[r], n, id)
      BY <2>2
    <3>2. \A items, triples :
             LoopPc(items, triples) \in {"find_item", "find_from", "commit"}
      BY LoopPcs
    <3> QED
      BY <1>1, <3>1, <3>2 DEF Resolved, Followed, Due, Within, FindEntity
  <2> QED
    BY <1>1, <2>1, <2>2
<1> QED
  BY <1>2, <1>3, QuietReady DEF PlanInv, Ready

LEMMA InsertEntityReady ==
    ASSUME PlanInv, Inv', NEW r \in Requests, InsertEntity(r), ~Fail(r)
    PROVE  PlanInv'
<1>1. PICK n : /\ Becomes(r, n) /\ Within(req[r], n) /\ PlanOf(n)
               /\ Resolved(req[r], n, nextID)
  BY InsertEntityMove DEF PlanInv
<1>2. PICK e : Writes(r, {}, {e}, {}, {}, {}, {}, {})
  BY InsertEntityWrites
<1>3. Moved(r, n)
  BY <1>1 DEF Moved, Within
<1>4. ~Due(n)
  <2>1. PICK q : q = req[r]
    OBVIOUS
  <2>2. q.pc \in {"insert_item", "insert_from", "insert_to"} /\ PlanOf(q)
    BY <2>1 DEF InsertEntity, PlanInv, Planned
  <2>3. CASE q.pc = "insert_item"
    <3>1. Followed(q, n, Head(q.items).obs)
      BY <1>1, <2>1, <2>3 DEF Resolved
    <3>2. n.pc \in {"insert_obs", "find_item", "find_from", "commit"}
      BY <3>1, LoopPcs DEF Followed
    <3>3. Head(q.plan).replace => n.pc \in {"insert_obs", "commit"}
      BY <1>1, <2>1, <2>2, <2>3, <3>1, SaveFollows DEF ItemPcs
    <3> QED
      BY <1>1, <2>1, <3>2, <3>3 DEF Due, Within
  <2>4. CASE q.pc # "insert_item"
    BY <1>1, <2>1, <2>2, <2>4 DEF Resolved, Due
  <2> QED
    BY <2>3, <2>4
<1> QED
  BY <1>2, <1>3, <1>4, WriteReady

LEMMA SnapObservationsReady ==
    ASSUME PlanInv, Inv', NEW r \in Requests, SnapObservations(r)
    PROVE  PlanInv'
<1>1. PICK n : /\ Becomes(r, n) /\ Within(req[r], n) /\ PlanOf(n)
               /\ n.pc = "clear_obs"
  BY SnapObservationsMove DEF PlanInv
<1>2. Moved(r, n) /\ UNCHANGED tables /\ Due(req[r])
  BY <1>1 DEF Moved, Within, SnapObservations, Due
<1> QED
  BY <1>2, QuietReady DEF PlanInv, Ready

LEMMA ClearObservationsReady ==
    ASSUME PlanInv, Inv', NEW r \in Requests, ClearObservations(r)
    PROVE  PlanInv'
<1>1. PICK n : /\ Becomes(r, n) /\ Within(req[r], n) /\ PlanOf(n)
               /\ Followed(req[r], n, req[r].contents)
  BY ClearObservationsMove DEF PlanInv
<1>2. Due(req[r]) /\ PlanOf(req[r]) /\ req[r].pc \in ItemPcs
      /\ req[r].pc = "clear_obs"
  BY DEF PlanInv, Planned, ClearObservations, Due, ItemPcs
<1>3. Head(req[r].plan).replace
  BY <1>2, AtItem DEF Loops
<1>4. PICK V : Writes(r, {}, {}, V, {}, {}, {}, {})
  BY <1>2, ClearObservationsWrites DEF PlanInv, Ready
<1>5. n.pc \in {"insert_obs", "commit"}
  BY <1>1, <1>2, <1>3, SaveFollows
<1>6. Moved(r, n) /\ ~Due(n)
  BY <1>1, <1>5 DEF Moved, Within, Due
<1> QED
  BY <1>4, <1>6, WriteReady

LEMMA InsertObservationReady ==
    ASSUME PlanInv, Inv', NEW r \in Requests, InsertObservation(r), ~Fail(r)
    PROVE  PlanInv'
<1>1. PICK n : /\ Becomes(r, n) /\ Within(req[r], n) /\ PlanOf(n)
               /\ Followed(req[r], n, Tail(req[r].contents))
  BY InsertObservationMove DEF PlanInv
<1>2. PlanOf(req[r]) /\ req[r].pc \in ItemPcs
  BY DEF PlanInv, Planned, InsertObservation, ItemPcs
<1>3. PICK o, H : Writes(r, {}, {}, {}, {o}, {}, {}, H)
  BY InsertObservationWrites
<1>4. n.pc \in {"insert_obs", "find_item", "find_from", "commit"}
  BY <1>1, LoopPcs DEF Followed
<1>5. Head(req[r].plan).replace => n.pc \in {"insert_obs", "commit"}
  BY <1>1, <1>2, SaveFollows
<1>6. Moved(r, n) /\ ~Due(n)
  BY <1>1, <1>4, <1>5 DEF Moved, Within, Due
<1> QED
  BY <1>3, <1>6, WriteReady

LEMMA OtherReady ==
    ASSUME PlanInv, Inv', NEW r \in Requests, NEW n, Becomes(r, n), Shape(n),
           PlanOf(n), n.asked = req[r].asked,
           n.pc \notin {"snap_obs", "clear_obs", "find_item", "insert_item"},
           \/ UNCHANGED tables
           \/ \E VE, NE, VO, NO, VR, NR, NH :
                 Writes(r, VE, NE, VO, NO, VR, NR, NH)
    PROVE  PlanInv'
BY WriteReady, QuietReady DEF Moved, Due, Ready

LEMMA InsertRelationReady ==
    ASSUME PlanInv, Inv', NEW r \in Requests, InsertRelation(r), ~Fail(r)
    PROVE  PlanInv'
<1>1. PICK n : /\ Becomes(r, n) /\ Within(req[r], n) /\ PlanOf(n)
               /\ n.pc \in {"find_from", "commit"}
  BY InsertRelationMove DEF PlanInv
<1>2. PICK N : Writes(r, {}, {}, {}, {}, {}, N, {})
  BY InsertRelationWrites
<1> QED
  BY <1>1, <1>2, OtherReady DEF Within

\* The statements outside the loops.
Single(r) ==
    \/ SnapEntities(r) \/ Cascade(r) \/ ReadEntity(r) \/ CheckName(r) \/ Rename(r)
    \/ FindObservation(r) \/ EraseObservation(r) \/ WriteObservation(r)
    \/ EraseRelation(r) \/ LogLookup(r) \/ LogInsert(r)
    \/ ReadGraphEntities(r) \/ ReadGraphObservations(r)

\* Where a request stands after one of them.
Followers == {"cascade", "check_name", "rename", "write_obs", "log_insert",
              "read_graph_obs", "commit"}

LEMMA SingleMove ==
    ASSUME PlanInv, NEW r \in Requests, Single(r), ~Fail(r)
    PROVE  \E n : /\ Becomes(r, n) /\ Shape(n) /\ PlanOf(n)
                  /\ n.asked = req[r].asked /\ n.plan = req[r].plan
                  /\ n.pc \in Followers
<1>0. Inv /\ Planned
  BY DEF PlanInv
<1>1. CASE SnapEntities(r)
  BY <1>0, <1>1, SnapEntitiesMove DEF Within, Followers
<1>2. CASE ReadEntity(r)
  BY <1>0, <1>2, ReadEntityMove DEF Followers
<1>3. CASE CheckName(r)
  BY <1>0, <1>3, CheckNameMove DEF Within, Followers
<1>4. CASE FindObservation(r)
  <2>1. PICK n, o, e : /\ Becomes(r, n) /\ Shape(n) /\ PlanOf(n)
                       /\ n.asked = req[r].asked /\ n.plan = req[r].plan
                       /\ n.pc = "write_obs"
    BY <1>0, <1>4, FindObservationMove
  <2> QED
    BY <2>1 DEF Followers
<1>5. CASE LogLookup(r)
  BY <1>0, <1>5, LogLookupMove DEF Within, Followers
<1>6. CASE ReadGraphEntities(r)
  BY <1>0, <1>6, ReadGraphEntitiesMove DEF Within, Followers
<1>7. CASE ReadGraphObservations(r)
  BY <1>0, <1>7, ReadGraphObservationsMove DEF Followers
<1>8. CASE /\ req[r].pc \in {"cascade", "rename", "write_obs", "delete_rel",
                             "delete_rel_by_triple", "log_insert"}
           /\ req' = [req EXCEPT ![r].pc = "commit"]
  BY <1>0, <1>8, LastMove DEF Within, Followers
<1>9. Cascade(r) => /\ req[r].pc = "cascade"
                    /\ req' = [req EXCEPT ![r].pc = "commit"]
  BY DEF Cascade
<1>10. Rename(r) => /\ req[r].pc = "rename"
                    /\ req' = [req EXCEPT ![r].pc = "commit"]
  BY DEF Rename
<1>11. EraseObservation(r) => /\ req[r].pc = "write_obs"
                              /\ req' = [req EXCEPT ![r].pc = "commit"]
  BY DEF EraseObservation
<1>12. WriteObservation(r) => /\ req[r].pc = "write_obs"
                              /\ req' = [req EXCEPT ![r].pc = "commit"]
  BY DEF WriteObservation
<1>13. EraseRelation(r) => /\ req[r].pc \in {"delete_rel", "delete_rel_by_triple"}
                           /\ req' = [req EXCEPT ![r].pc = "commit"]
  BY DEF EraseRelation
<1>14. LogInsert(r) => /\ req[r].pc = "log_insert"
                       /\ req' = [req EXCEPT ![r].pc = "commit"]
  BY DEF LogInsert
<1> QED
  BY <1>1, <1>2, <1>3, <1>4, <1>5, <1>6, <1>7, <1>8, <1>9, <1>10, <1>11, <1>12,
     <1>13, <1>14 DEF Single

LEMMA SingleWrites ==
    ASSUME Inv, NEW r \in Requests, Single(r), ~Fail(r)
    PROVE  \/ UNCHANGED tables
           \/ \E VE, NE, VO, NO, VR, NR, NH :
                 Writes(r, VE, NE, VO, NO, VR, NR, NH)
<1>1. CASE Cascade(r)
  BY <1>1, CascadeWrites
<1>2. CASE Rename(r)
  BY <1>2, RenameWrites
<1>3. CASE EraseObservation(r)
  BY <1>3, EraseObservationWrites
<1>4. CASE WriteObservation(r)
  BY <1>4, WriteObservationWrites
<1>5. CASE EraseRelation(r)
  BY <1>5, EraseRelationWrites
<1>6. CASE LogInsert(r)
  BY <1>6, LogInsertWrites
<1>7. CASE \/ SnapEntities(r) \/ ReadEntity(r) \/ CheckName(r)
           \/ FindObservation(r) \/ LogLookup(r) \/ ReadGraphEntities(r)
           \/ ReadGraphObservations(r)
  BY <1>7 DEF SnapEntities, ReadEntity, CheckName, FindObservation, LogLookup,
     ReadGraphEntities, ReadGraphObservations
<1> QED
  BY <1>1, <1>2, <1>3, <1>4, <1>5, <1>6, <1>7 DEF Single

LEMMA SingleReady ==
    ASSUME PlanInv, Inv', NEW r \in Requests, Single(r), ~Fail(r)
    PROVE  PlanInv'
<1>1. PICK n : /\ Becomes(r, n) /\ Shape(n) /\ PlanOf(n)
               /\ n.asked = req[r].asked /\ n.pc \in Followers
  BY SingleMove
<1>2. \/ UNCHANGED tables
      \/ \E VE, NE, VO, NO, VR, NR, NH : Writes(r, VE, NE, VO, NO, VR, NR, NH)
  BY SingleWrites DEF PlanInv
<1> QED
  BY <1>1, <1>2, OtherReady DEF Followers

LEMMA BeginReady ==
    ASSUME PlanInv, Inv', NEW r \in Requests, NEW plan \in Plans, Begin(r, plan)
    PROVE  PlanInv'
<1>1. PICK n : /\ Becomes(r, n) /\ Shape(n) /\ PlanOf(n) /\ n.asked = plan
               /\ req[r].asked = << >>
  BY BeginMove DEF PlanInv
<1>2. Clean(r) /\ UNCHANGED tables
  BY DEF PlanInv, Inv, Requested, Local, Begin, Open
<1> QED
  BY <1>1, <1>2, QuietReady DEF Moved, Ready

\* What a request does outside the loops, and what it does in them.
LEMMA Steps ==
    ASSUME NEW r, Step(r) \/ Abort(r), ~Fail(r)
    PROVE  \/ FindEntity(r) \/ InsertEntity(r) \/ SnapObservations(r)
           \/ ClearObservations(r) \/ InsertObservation(r) \/ InsertRelation(r)
           \/ CommitTx(r) \/ Single(r)
BY DEF Step, Abort, Deadlock, Single

LEMMA FailsRunning ==
    ASSUME NEW r, Step(r) \/ Abort(r)
    PROVE  Running(r)
BY DEF Step, Abort, Running, FindEntity, InsertEntity, SnapObservations,
   ClearObservations, InsertObservation, InsertRelation, SnapEntities,
   Cascade, ReadEntity, CheckName, Rename, FindObservation,
   EraseObservation, WriteObservation, EraseRelation, LogLookup,
   LogInsert, ReadGraphEntities, ReadGraphObservations, CommitTx,
   Deadlock, Blockers

LEMMA PlanInvNext ==
    ASSUME PlanInv, [Next]_vars
    PROVE  PlanInv'
<1>1. Inv'
  BY NextInv DEF PlanInv
<1>2. CASE UNCHANGED vars
  <2>1. \A s \in Requests : Clean(s) => Clean(s)'
    BY <1>2 DEF vars, Clean, Untouched
  <2>2. Planned' /\ \A s \in Requests : Ready(req[s], s)'
    BY <1>2, <2>1 DEF vars, PlanInv, Planned, Ready, Due
  <2> QED
    BY <1>1, <2>2 DEF PlanInv
<1>3. ASSUME NEW r \in Requests, Step(r) \/ Abort(r) PROVE PlanInv'
  <2>1. CASE Fail(r)
    BY <1>1, <1>3, <2>1, FailsRunning, FailReady
  <2>2. CASE ~Fail(r)
    BY <1>1, <1>3, <2>2, Steps, FindEntityReady, InsertEntityReady,
       SnapObservationsReady, ClearObservationsReady, InsertObservationReady,
       InsertRelationReady, SingleReady, CommitReady
  <2> QED
    BY <2>1, <2>2
<1>4. ASSUME NEW r \in Requests, NEW plan \in Plans, Begin(r, plan) PROVE PlanInv'
  BY <1>1, <1>4, BeginReady
<1> QED
  BY <1>2, <1>3, <1>4 DEF Next

LEMMA PlanInvHolds == Spec => []PlanInv
<1>1. Init => PlanInv
  <2>1. Init => Inv
    BY InitInv
  <2>2. Init => \A r \in Requests : ~Due(req[r])
    BY DEF Init, Fresh, Due
  <2> QED
    BY <2>1, <2>2, InitPlanned DEF PlanInv, Ready
<1>2. PlanInv /\ [Next]_vars => PlanInv'
  BY PlanInvNext
<1> QED
  BY <1>1, <1>2, PTL DEF Spec

(* ---- The audit trail ---------------------------------------------------- *)

\* Where this content of observation id comes from, as the transaction by sees it.
Accounted(id, content, by) ==
    \/ \E h \in history : h.obs = id /\ h.new = content /\ h.by \in {Nil, by}
    \/ \E s \in SeedObservations : s.id = id /\ s.content = content
    \/ Imported(content)

\* The observation whose creation h records, while h is not committed.
Backed(h) ==
    \E o \in observations : o.id = h.obs /\ o.content = h.new /\ o.by = h.by

Audit ==
    /\ \A h \in history : h.gone = Nil
    /\ \A h \in history :
          h.action = "observation_created" /\ h.by # Nil => Backed(h)
    /\ \A o \in observations : Accounted(o.id, o.content, o.by)
    /\ \A r \in Requests :
          req[r].pc = "write_obs" => Accounted(req[r].obs, req[r].old, Nil)

LEMMA ImportedStays ==
    ASSUME PlanInv, [Next]_vars, NEW content, Imported(content)
    PROVE  Imported(content)'
BY AskedStays DEF PlanInv, Imported

LEMMA AccountedGrows ==
    ASSUME PlanInv, [Next]_vars, history \subseteq history',
           NEW id, NEW content, NEW by, Accounted(id, content, by)
    PROVE  Accounted(id, content, by)'
<1>1. Imported(content) => Imported(content)'
  BY ImportedStays
<1> QED
  BY <1>1 DEF Accounted

\* The others stand where they were.
LEMMA OthersRest ==
    ASSUME Inv, NEW r \in Requests, NEW n, Becomes(r, n)
    PROVE  req'[r] = n /\ \A s \in Requests : s # r => req'[s] = req[s]
BY DEF Becomes, Inv, Requested

\* A statement that adds the observations NO and the entries NH.
LEMMA AuditWrites ==
    ASSUME PlanInv, Audit, [Next]_vars, NEW r \in Requests, NEW n, Becomes(r, n),
           NEW VE, NEW NE, NEW VO, NEW NO, NEW VR, NEW NR, NEW NH,
           Writes(r, VE, NE, VO, NO, VR, NR, NH),
           \A o \in NO : Accounted(o.id, o.content, r)',
           \A h \in NH : h.action = "observation_created" =>
              \E o \in NO : o.id = h.obs /\ o.content = h.new,
           n.pc = "write_obs" => Accounted(n.obs, n.old, Nil)'
    PROVE  Audit'
<1>1. history \subseteq history' /\ history' = history \cup NH
      /\ \A h \in NH : h.by = r /\ h.gone = Nil
  BY DEF Writes
<1>2. \A id, content, by :
         Accounted(id, content, by) => Accounted(id, content, by)'
  BY <1>1, AccountedGrows
<1>3. /\ \A x \in observations' :
            x \in NO \/ \E v : After(observations, VO, r, ObservationColumns, v, x)
      /\ \A v \in observations :
            \E x \in observations' :
               After(observations, VO, r, ObservationColumns, v, x)
      /\ NO \subseteq observations' /\ \A o \in NO : o.by = r
  <2>1. /\ Rows(observations, ObservationColumns) /\ Columns(ObservationColumns)
        /\ Wrote(observations, VO, NO, r, observations')
    BY ColumnsOfTables DEF PlanInv, Inv, Tables, Writes
  <2>2. \A o \in NO : o.by = r
    BY <2>1 DEF Wrote
  <2> QED
    BY <2>1, <2>2, WroteRows
<1>4. \A v, x : After(observations, VO, r, ObservationColumns, v, x) =>
         v \in observations /\ x.id = v.id /\ x.content = v.content /\ x.by = v.by
  BY DEF After, SameOn, ObservationColumns
<1>5. \A x \in observations' : Accounted(x.id, x.content, x.by)'
  <2>1. ASSUME NEW x \in observations' PROVE Accounted(x.id, x.content, x.by)'
    <3>1. CASE x \in NO
      BY <1>3, <3>1
    <3>2. CASE x \notin NO
      BY <1>2, <1>3, <1>4, <3>2 DEF Audit
    <3> QED
      BY <3>1, <3>2
  <2> QED
    BY <2>1
<1>6. ASSUME NEW h \in history', h.action = "observation_created", h.by # Nil
      PROVE  Backed(h)'
  <2>1. CASE h \in NH
    BY <1>1, <1>3, <2>1, <1>6 DEF Backed
  <2>2. CASE h \in history
    <3>1. PICK v \in observations : v.id = h.obs /\ v.content = h.new /\ v.by = h.by
      BY <2>2, <1>6 DEF Audit, Backed
    <3> QED
      BY <1>3, <1>4, <3>1 DEF Backed
  <2> QED
    BY <1>1, <2>1, <2>2
<1>7. ASSUME NEW s \in Requests, req'[s].pc = "write_obs"
      PROVE  Accounted(req[s].obs, req[s].old, Nil)'
  <2>1. req'[r] = n /\ \A p \in Requests : p # r => req'[p] = req[p]
    BY OthersRest DEF PlanInv
  <2>2. CASE s = r
    BY <1>7, <2>1, <2>2 DEF Accounted, Imported, Asked
  <2>3. CASE s # r
    <3>1. Accounted(req[s].obs, req[s].old, Nil)
      BY <1>7, <2>1, <2>3 DEF Audit
    <3>2. PICK obs, old : obs = req[s].obs /\ old = req[s].old
      OBVIOUS
    <3>3. Accounted(obs, old, Nil)'
      BY <1>2, <3>1, <3>2
    <3>4. obs = req'[s].obs /\ old = req'[s].old
      BY <2>1, <2>3, <3>2
    <3> QED
      BY <3>3, <3>4
  <2> QED
    BY <2>2, <2>3
<1>8. \A h \in history' : h.gone = Nil
  BY <1>1 DEF Audit
<1> QED
  BY <1>5, <1>6, <1>7, <1>8 DEF Audit

\* A statement that adds no observation and records no creation.
LEMMA AuditStays ==
    ASSUME PlanInv, Audit, [Next]_vars, NEW r \in Requests, NEW n, Becomes(r, n),
           NEW VE, NEW NE, NEW VO, NEW VR, NEW NR, NEW NH,
           Writes(r, VE, NE, VO, {}, VR, NR, NH),
           \A h \in NH : h.action # "observation_created", n.pc # "write_obs"
    PROVE  Audit'
BY AuditWrites

LEMMA AuditFails ==
    ASSUME PlanInv, Audit, [Next]_vars, NEW r \in Requests, Running(r), Fail(r)
    PROVE  Audit'
<1>1. PICK n : Becomes(r, n) /\ Failed(r, n)
  BY FailMove DEF PlanInv
<1>2. /\ observations' = Rollback(observations, r)
      /\ history' = Rollback(history, r) /\ Nil \notin Requests
  BY PlanAssumption DEF Fail, UndoHistory
<1>3. /\ Rows(observations, ObservationColumns) /\ Columns(ObservationColumns)
      /\ Rows(history, EntryColumns) /\ Columns(EntryColumns)
  BY ColumnsOfTables DEF PlanInv, Inv, Tables
<1>4. \A h : h \in history' <=> h \in history /\ h.by # r
  <2>1. ASSUME NEW h \in history, h.by # r PROVE h \in history'
    <3>1. PICK x \in Rollback(history, r) : RollingBack(h, x, r, EntryColumns)
      BY <1>3, <2>1, OfRollback
    <3>2. h.gone # r
      BY <1>2 DEF Audit
    <3> QED
      BY <1>2, <3>1, <3>2 DEF RollingBack
  <2>2. ASSUME NEW x \in history' PROVE x \in history /\ x.by # r
    <3>1. PICK h \in history : RollingBack(h, x, r, EntryColumns)
      BY <1>2, <1>3, InRollback
    <3>2. h.gone # r
      BY <1>2 DEF Audit
    <3> QED
      BY <3>1, <3>2 DEF RollingBack
  <2> QED
    BY <2>1, <2>2
<1>5. \A x \in observations' : \E v \in observations :
         v.by # r /\ x.id = v.id /\ x.content = v.content /\ x.by = v.by
  BY <1>2, <1>3, InRollback DEF RollingBack, ObservationColumns
<1>6. \A v \in observations : v.by # r => \E x \in observations' :
         x.id = v.id /\ x.content = v.content /\ x.by = v.by
  BY <1>2, <1>3, OfRollback DEF RollingBack, ObservationColumns
<1>7. ASSUME NEW id, NEW content, NEW by, by # r, Accounted(id, content, by)
      PROVE  Accounted(id, content, by)'
  <2>1. Imported(content) => Imported(content)'
    BY ImportedStays
  <2>2. \A h \in history : h.by \in {Nil, by} => h \in history'
    BY <1>2, <1>4, <1>7
  <2> QED
    BY <1>7, <2>1, <2>2 DEF Accounted
<1>8. ASSUME NEW x \in observations' PROVE Accounted(x.id, x.content, x.by)'
  BY <1>5, <1>7 DEF Audit
<1>9. ASSUME NEW h \in history', h.action = "observation_created", h.by # Nil
      PROVE  Backed(h)'
  <2>1. Backed(h) /\ h.by # r
    BY <1>4, <1>9 DEF Audit
  <2> QED
    BY <1>6, <2>1 DEF Backed
<1>10. ASSUME NEW s \in Requests, req'[s].pc = "write_obs"
       PROVE  Accounted(req[s].obs, req[s].old, Nil)'
  <2>1. req'[s] = req[s]
    BY <1>1, <1>10, OthersRest DEF PlanInv, Failed
  <2>2. PICK obs, old : obs = req[s].obs /\ old = req[s].old
    OBVIOUS
  <2>3. Accounted(obs, old, Nil)'
    BY <1>2, <1>7, <1>10, <2>1, <2>2 DEF Audit
  <2> QED
    BY <2>1, <2>2, <2>3
<1> QED
  BY <1>4, <1>8, <1>9, <1>10 DEF Audit

LEMMA GoesPc ==
    ASSUME NEW r, NEW n, Goes(r, n) \/ Failed(r, n)
    PROVE  n.pc \in {"done", "failed", "find_item", "find_from", "commit"} \cup Kinds
<1>1. CASE Goes(r, n)
  <2>1. PICK asked, plan : asked = req[r].asked /\ plan = Tail(req[r].plan)
    OBVIOUS
  <2>2. plan \in Seq(Calls) /\ n = StartCall(asked, plan)
    BY <1>1, <2>1 DEF Goes, Suffix
  <2> QED
    BY <2>2, StartsCall
<1>2. CASE Failed(r, n)
  BY <1>2 DEF Failed
<1> QED
  BY <1>1, <1>2

\* Whose a row of by is once r is committed.
Settled(by, r) == IF by = r THEN Nil ELSE by

LEMMA AuditCommits ==
    ASSUME PlanInv, Audit, [Next]_vars, NEW r \in Requests, CommitTx(r)
    PROVE  Audit'
<1>1. PICK n : Becomes(r, n) /\ (Goes(r, n) \/ Failed(r, n))
  BY CommitMove DEF PlanInv
<1>2. /\ observations' = Commit(observations, r)
      /\ history' = Commit(history, r) /\ Nil \notin Requests
  BY PlanAssumption DEF CommitTx
<1>3. /\ Rows(observations, ObservationColumns) /\ Columns(ObservationColumns)
      /\ Rows(history, EntryColumns) /\ Columns(EntryColumns)
  BY ColumnsOfTables DEF PlanInv, Inv, Tables
<1>4. \A x \in history' : \E h \in history :
         /\ x.gone = Nil /\ x.obs = h.obs /\ x.new = h.new /\ x.action = h.action
         /\ x.by = Settled(h.by, r)
  BY <1>2, <1>3, InCommit DEF Committing, EntryColumns, Settled, Audit
<1>5. ASSUME NEW h \in history PROVE \E x \in history' :
         x.obs = h.obs /\ x.new = h.new /\ x.by = Settled(h.by, r)
  <2>1. h.gone # r
    BY <1>2 DEF Audit
  <2> QED
    BY <1>2, <1>3, <2>1, OfCommit DEF Committing, EntryColumns, Settled
<1>6. \A x \in observations' : \E v \in observations :
         x.id = v.id /\ x.content = v.content /\ x.by = Settled(v.by, r)
  BY <1>2, <1>3, InCommit DEF Committing, ObservationColumns, Settled
<1>7. ASSUME NEW v \in observations, v.by # Nil PROVE \E x \in observations' :
         x.id = v.id /\ x.content = v.content /\ x.by = Settled(v.by, r)
  <2>1. v.gone # r
    BY <1>2, <1>3, <1>7 DEF Rows
  <2> QED
    BY <1>2, <1>3, <2>1, OfCommit DEF Committing, ObservationColumns, Settled
<1>8. ASSUME NEW id, NEW content, NEW by, Accounted(id, content, by)
      PROVE  Accounted(id, content, Settled(by, r))'
  <2>1. Imported(content) => Imported(content)'
    BY ImportedStays
  <2>2. ASSUME NEW h \in history, h.obs = id, h.new = content, h.by \in {Nil, by}
        PROVE  \E x \in history' : /\ x.obs = id /\ x.new = content
                                   /\ x.by \in {Nil, Settled(by, r)}
    BY <1>2, <1>5, <2>2 DEF Settled
  <2> QED
    BY <1>8, <2>1, <2>2 DEF Accounted
<1>9. ASSUME NEW x \in observations' PROVE Accounted(x.id, x.content, x.by)'
  <2>1. PICK v \in observations :
           x.id = v.id /\ x.content = v.content /\ x.by = Settled(v.by, r)
    BY <1>6
  <2> QED
    BY <1>8, <2>1 DEF Audit
<1>10. ASSUME NEW x \in history', x.action = "observation_created", x.by # Nil
       PROVE  Backed(x)'
  <2>1. PICK h \in history :
           /\ x.obs = h.obs /\ x.new = h.new /\ x.action = h.action
           /\ x.by = Settled(h.by, r)
    BY <1>4
  <2>2. h.by # Nil
    BY <1>10, <2>1 DEF Settled
  <2>3. PICK v \in observations : v.id = h.obs /\ v.content = h.new /\ v.by = h.by
    BY <1>10, <2>1, <2>2 DEF Audit, Backed
  <2> QED
    BY <1>7, <2>1, <2>2, <2>3 DEF Backed
<1>11. ASSUME NEW s \in Requests, req'[s].pc = "write_obs"
       PROVE  Accounted(req[s].obs, req[s].old, Nil)'
  <2>1. req'[s] = req[s]
    BY <1>1, <1>11, OthersRest, GoesPc DEF PlanInv, Kinds
  <2>2. PICK obs, old : obs = req[s].obs /\ old = req[s].old
    OBVIOUS
  <2>3. Accounted(obs, old, Settled(Nil, r))'
    BY <1>8, <1>11, <2>1, <2>2 DEF Audit
  <2>4. Settled(Nil, r) = Nil
    BY DEF Settled
  <2> QED
    BY <2>1, <2>2, <2>3, <2>4
<1>12. \A x \in history' : x.gone = Nil
  BY <1>4
<1> QED
  BY <1>9, <1>10, <1>11, <1>12 DEF Audit

LEMMA AuditInsertObservation ==
    ASSUME PlanInv, Audit, [Next]_vars, NEW r \in Requests,
           InsertObservation(r), ~Fail(r)
    PROVE  Audit'
<1>1. PICK n : /\ Becomes(r, n) /\ Followed(req[r], n, Tail(req[r].contents))
               /\ Head(req[r].contents) \in Range(Head(req[r].items).obs)
  BY InsertObservationMove DEF PlanInv
<1>2. PICK o, H :
         /\ Writes(r, {}, {}, {}, {o}, {}, {}, H)
         /\ o.content = Head(req[r].contents)
         /\ \/ H = {} /\ ~Call(r).audited
            \/ \E h : /\ H = {h} /\ h.action = "observation_created"
                      /\ h.obs = o.id /\ h.new = o.content
  BY InsertObservationWrites
<1>3. n.pc # "write_obs"
  BY <1>1, LoopPcs DEF Followed
<1>4. CASE H = {} /\ ~Call(r).audited
  <2>1. req[r].pc \in ItemPcs /\ PlanOf(req[r])
    BY DEF InsertObservation, ItemPcs, PlanInv, Planned
  <2>2. /\ Call(r) \in Asked(r) /\ Call(r).do = "items"
        /\ Head(req[r].items) \in Range(Call(r).items)
    BY <2>1, AtItem DEF Call, Asked
  <2>3. Imported(o.content)
    BY <1>1, <1>2, <1>4, <2>2 DEF Imported
  <2>4. Accounted(o.id, o.content, r)'
    BY <2>3, ImportedStays DEF Accounted
  <2> QED
    BY <1>1, <1>2, <1>3, <1>4, <2>4, AuditWrites
<1>5. CASE \E h : /\ H = {h} /\ h.action = "observation_created"
                  /\ h.obs = o.id /\ h.new = o.content
  <2>1. PICK h : H = {h} /\ h.obs = o.id /\ h.new = o.content
    BY <1>5
  <2>2. h \in history' /\ h.by = r
    BY <1>2, <2>1 DEF Writes
  <2>3. Accounted(o.id, o.content, r)'
    BY <2>1, <2>2 DEF Accounted
  <2> QED
    BY <1>1, <1>2, <1>3, <2>1, <2>3, AuditWrites
<1> QED
  BY <1>2, <1>4, <1>5

LEMMA AuditWriteObservation ==
    ASSUME PlanInv, Audit, [Next]_vars, NEW r \in Requests,
           WriteObservation(r), ~Fail(r)
    PROVE  Audit'
<1>1. PICK V, N, H : /\ Writes(r, {}, {}, V, N, {}, {}, H)
                     /\ Overwrites(r, V, N) /\ Tells(r, H)
  BY WriteObservationWrites DEF PlanInv
<1>2. req[r].pc = "write_obs" /\ req' = [req EXCEPT ![r].pc = "commit"]
  BY DEF WriteObservation
<1>3. PICK n : Becomes(r, n) /\ n.pc = "commit"
  BY <1>2, LastMove DEF PlanInv
<1>4. PICK q, new : q = req[r] /\ new = Call(r).new
  OBVIOUS
<1>5. Accounted(q.obs, new, r)'
  <2>1. CASE H = {} /\ q.old = new
    <3>1. Accounted(q.obs, q.old, Nil)
      BY <1>2, <1>4 DEF Audit
    <3>2. Accounted(q.obs, new, Nil)'
      BY <1>1, <2>1, <3>1, AccountedGrows DEF Writes
    <3> QED
      BY <3>2 DEF Accounted
  <2>2. CASE \E h : H = {h} /\ h.obs = q.obs /\ h.new = new
    BY <1>1, <2>2 DEF Accounted, Writes
  <2> QED
    BY <1>1, <1>4, <2>1, <2>2 DEF Tells
<1>6. \A o \in N : o.id = q.obs /\ o.content = new
  BY <1>1, <1>4 DEF Overwrites
<1>7. \A o \in N : Accounted(o.id, o.content, r)'
  BY <1>5, <1>6
<1>8. \A h \in H : h.action # "observation_created"
  BY <1>1 DEF Tells
<1> QED
  BY <1>1, <1>3, <1>7, <1>8, AuditWrites

LEMMA AuditFindObservation ==
    ASSUME PlanInv, Audit, [Next]_vars, NEW r \in Requests,
           FindObservation(r), ~Fail(r)
    PROVE  Audit'
<1>1. PICK n, o, e : /\ Becomes(r, n) /\ Found(r, o, e)
                     /\ n.obs = o.id /\ n.old = o.content /\ UNCHANGED tables
  BY FindObservationMove DEF PlanInv
<1>2. Clean(r)
  BY DEF FindObservation, PlanInv, Inv, Requested, Local, Open
<1>3. o \in observations /\ o.by = Nil
  BY <1>1, <1>2 DEF Found, Visible, Clean, Untouched
<1>4. Accounted(n.obs, n.old, Nil)
  BY <1>1, <1>3 DEF Audit
<1>5. Accounted(n.obs, n.old, Nil)'
  BY <1>1, <1>4, AccountedGrows DEF tables
<1>6. Writes(r, {}, {}, {}, {}, {}, {}, {})
  BY <1>1, QuietWrites
<1> QED
  BY <1>1, <1>5, <1>6, AuditWrites

\* The last statement of a call, outside the loops.
Last(r) == \/ Cascade(r) \/ Rename(r) \/ EraseObservation(r) \/ WriteObservation(r)
           \/ EraseRelation(r) \/ LogInsert(r)

LEMMA LastIsLast ==
    ASSUME PlanInv, NEW r \in Requests, Last(r), ~Fail(r)
    PROVE  \E n : /\ Becomes(r, n) /\ Within(req[r], n) /\ PlanOf(n)
                  /\ n.pc = "commit" /\ n.id = req[r].id
<1>1. req[r].pc \in {"cascade", "rename", "write_obs", "delete_rel",
                     "delete_rel_by_triple", "log_insert"}
  BY DEF Last, Cascade, Rename, EraseObservation, WriteObservation, EraseRelation,
     LogInsert
<1>2. req' = [req EXCEPT ![r].pc = "commit"]
  BY DEF Last, Cascade, Rename, EraseObservation, WriteObservation, EraseRelation,
     LogInsert
<1> QED
  BY <1>1, <1>2, LastMove DEF PlanInv

LEMMA AuditLast ==
    ASSUME PlanInv, Audit, [Next]_vars, NEW r \in Requests, Last(r), ~Fail(r),
           ~WriteObservation(r)
    PROVE  Audit'
<1>1. PICK n : Becomes(r, n) /\ n.pc # "write_obs"
  BY LastIsLast
<1>2. CASE Cascade(r)
  <2>1. PICK VE, VO, VR : Writes(r, VE, {}, VO, {}, VR, {}, {})
    BY <1>2, CascadeWrites DEF PlanInv
  <2> QED
    BY <1>1, <2>1, AuditStays
<1>3. CASE Rename(r)
  <2>1. PICK VE, NE, H :
           /\ Writes(r, VE, NE, {}, {}, {}, {}, H)
           /\ \A h \in H : h.action \in {"entity_renamed", "entity_type_changed"}
    BY <1>3, RenameWrites DEF PlanInv
  <2>2. \A h \in H : h.action # "observation_created"
    BY <2>1
  <2> QED
    BY <1>1, <2>1, <2>2, AuditStays
<1>4. CASE EraseObservation(r)
  <2>1. PICK V, h : Writes(r, {}, {}, V, {}, {}, {}, {h})
                    /\ h.action = "observation_deleted"
    BY <1>4, EraseObservationWrites DEF PlanInv
  <2>2. \A g \in {h} : g.action # "observation_created"
    BY <2>1
  <2> QED
    BY <1>1, <2>1, <2>2, AuditStays
<1>5. CASE EraseRelation(r)
  <2>1. PICK V : Writes(r, {}, {}, {}, {}, V, {}, {})
    BY <1>5, EraseRelationWrites DEF PlanInv
  <2> QED
    BY <1>1, <2>1, AuditStays
<1>6. CASE LogInsert(r)
  <2>1. PICK h : Writes(r, {}, {}, {}, {}, {}, {}, {h})
                 /\ h.action \in {"checkpoint_saved", "session_start"}
    BY <1>6, LogInsertWrites DEF PlanInv
  <2>2. \A g \in {h} : g.action # "observation_created"
    BY <2>1
  <2> QED
    BY <1>1, <2>1, <2>2, AuditStays
<1> QED
  BY <1>2, <1>3, <1>4, <1>5, <1>6 DEF Last

LEMMA AuditQuiet ==
    ASSUME PlanInv, Audit, [Next]_vars, NEW r \in Requests, NEW n, Becomes(r, n),
           n.pc # "write_obs", UNCHANGED tables
    PROVE  Audit'
<1>1. Writes(r, {}, {}, {}, {}, {}, {}, {})
  BY QuietWrites
<1> QED
  BY <1>1, AuditStays

\* The statements that only read.
Reads(r) ==
    \/ SnapEntities(r) \/ ReadEntity(r) \/ CheckName(r)
    \/ LogLookup(r) \/ ReadGraphEntities(r) \/ ReadGraphObservations(r)

LEMMA ReadsMove ==
    ASSUME PlanInv, NEW r \in Requests, Reads(r), ~Fail(r)
    PROVE  \E n : /\ Becomes(r, n) /\ Shape(n) /\ PlanOf(n)
                  /\ n.asked = req[r].asked /\ n.plan = req[r].plan
                  /\ n.pc \in Followers \ {"write_obs"} /\ UNCHANGED tables
<1>0. Inv /\ Planned
  BY DEF PlanInv
<1>1. CASE SnapEntities(r)
  BY <1>0, <1>1, SnapEntitiesMove DEF Within, Followers, SnapEntities
<1>2. CASE ReadEntity(r)
  BY <1>0, <1>2, ReadEntityMove DEF Followers
<1>3. CASE CheckName(r)
  BY <1>0, <1>3, CheckNameMove DEF Within, Followers
<1>4. CASE LogLookup(r)
  BY <1>0, <1>4, LogLookupMove DEF Within, Followers, LogLookup
<1>5. CASE ReadGraphEntities(r)
  BY <1>0, <1>5, ReadGraphEntitiesMove DEF Within, Followers, ReadGraphEntities
<1>6. CASE ReadGraphObservations(r)
  BY <1>0, <1>6, ReadGraphObservationsMove DEF Followers, ReadGraphObservations
<1> QED
  BY <1>1, <1>2, <1>3, <1>4, <1>5, <1>6 DEF Reads

LEMMA AuditReads ==
    ASSUME PlanInv, Audit, [Next]_vars, NEW r \in Requests, Reads(r), ~Fail(r)
    PROVE  Audit'
BY ReadsMove, AuditQuiet

LEMMA AuditLoops ==
    ASSUME PlanInv, Audit, [Next]_vars, NEW r \in Requests, ~Fail(r),
           \/ FindEntity(r) \/ InsertEntity(r) \/ SnapObservations(r)
           \/ ClearObservations(r) \/ InsertRelation(r)
    PROVE  Audit'
<1>0. Inv /\ Planned
  BY DEF PlanInv
<1>1. CASE FindEntity(r)
  <2>1. PICK n, E : /\ Becomes(r, n)
                    /\ \/ \E e \in E : Resolved(req[r], n, e.id)
                       \/ E = {} /\ NotFound(req[r], n)
    BY <1>0, <1>1, FindEntityMove
  <2>2. n.pc # "write_obs"
    BY <2>1, LoopPcs DEF Resolved, NotFound, Followed
  <2> QED
    BY <1>1, <2>1, <2>2, AuditQuiet DEF FindEntity
<1>2. CASE InsertEntity(r)
  <2>1. PICK n : Becomes(r, n) /\ Resolved(req[r], n, nextID)
    BY <1>0, <1>2, InsertEntityMove
  <2>2. PICK e : Writes(r, {}, {e}, {}, {}, {}, {}, {})
    BY <1>2, InsertEntityWrites
  <2>3. n.pc # "write_obs"
    BY <2>1, LoopPcs DEF Resolved, Followed
  <2> QED
    BY <2>1, <2>2, <2>3, AuditStays
<1>3. CASE SnapObservations(r)
  <2>1. PICK n : Becomes(r, n) /\ n.pc # "write_obs"
    BY <1>0, <1>3, SnapObservationsMove
  <2> QED
    BY <1>3, <2>1, AuditQuiet DEF SnapObservations
<1>4. CASE ClearObservations(r)
  <2>1. PICK n : Becomes(r, n) /\ Followed(req[r], n, req[r].contents)
    BY <1>0, <1>4, ClearObservationsMove
  <2>2. n.pc # "write_obs"
    BY <2>1, LoopPcs DEF Followed
  <2>3. Clean(r)
    BY <1>4 DEF ClearObservations, PlanInv, Ready, Due
  <2>4. PICK V : Writes(r, {}, {}, V, {}, {}, {}, {})
    BY <1>0, <1>4, <2>3, ClearObservationsWrites
  <2> QED
    BY <2>1, <2>2, <2>4, AuditStays
<1>5. CASE InsertRelation(r)
  <2>1. PICK n : Becomes(r, n) /\ n.pc # "write_obs"
    BY <1>0, <1>5, InsertRelationMove
  <2>2. PICK N : Writes(r, {}, {}, {}, {}, {}, N, {})
    BY <1>5, InsertRelationWrites
  <2> QED
    BY <2>1, <2>2, AuditStays
<1> QED
  BY <1>1, <1>2, <1>3, <1>4, <1>5

LEMMA AuditBegins ==
    ASSUME PlanInv, Audit, [Next]_vars, NEW r \in Requests, NEW plan \in Plans,
           Begin(r, plan)
    PROVE  Audit'
<1>1. PICK n : Becomes(r, n) /\ n = StartCall(plan, plan)
  BY BeginMove DEF PlanInv
<1>2. n.pc # "write_obs"
  <2>1. plan \in Seq(Calls)
    BY PlanAssumption
  <2> QED
    BY <1>1, <2>1, StartsCall DEF Kinds
<1> QED
  BY <1>1, <1>2, AuditQuiet DEF Begin

LEMMA StepWrites ==
    ASSUME PlanInv, NEW r \in Requests, Step(r) \/ Abort(r), ~Fail(r), ~CommitTx(r)
    PROVE  \/ UNCHANGED tables
           \/ \E VE, NE, VO, NO, VR, NR, NH :
                 Writes(r, VE, NE, VO, NO, VR, NR, NH)
<1>0. Inv
  BY DEF PlanInv
<1>1. CASE FindEntity(r) \/ SnapObservations(r)
  BY <1>1 DEF FindEntity, SnapObservations
<1>2. CASE InsertEntity(r)
  BY <1>2, InsertEntityWrites
<1>3. CASE ClearObservations(r)
  <2>1. Clean(r)
    BY <1>3 DEF ClearObservations, PlanInv, Ready, Due
  <2>2. PICK V : Writes(r, {}, {}, V, {}, {}, {}, {})
    BY <1>0, <1>3, <2>1, ClearObservationsWrites
  <2> QED
    BY <2>2
<1>4. CASE InsertObservation(r)
  <2>1. PICK o, H : Writes(r, {}, {}, {}, {o}, {}, {}, H)
    BY <1>4, InsertObservationWrites
  <2> QED
    BY <2>1
<1>5. CASE InsertRelation(r)
  <2>1. PICK N : Writes(r, {}, {}, {}, {}, {}, N, {})
    BY <1>5, InsertRelationWrites
  <2> QED
    BY <2>1
<1>6. CASE Single(r)
  BY <1>0, <1>6, SingleWrites
<1> QED
  BY <1>1, <1>2, <1>3, <1>4, <1>5, <1>6, Steps

LEMMA AuditNext ==
    ASSUME PlanInv, Audit, [Next]_vars
    PROVE  Audit'
<1>1. CASE UNCHANGED vars
  BY <1>1 DEF vars, Audit, Accounted, Backed, Imported, Asked
<1>2. ASSUME NEW r \in Requests, Step(r) \/ Abort(r) PROVE Audit'
  <2>1. CASE Fail(r)
    BY <1>2, <2>1, FailsRunning, AuditFails
  <2>2. CASE ~Fail(r)
    BY <1>2, <2>2, Steps, AuditLoops, AuditInsertObservation,
       AuditWriteObservation, AuditFindObservation, AuditLast, AuditCommits,
       AuditReads DEF Single, Reads, Last
  <2> QED
    BY <2>1, <2>2
<1>3. ASSUME NEW r \in Requests, NEW plan \in Plans, Begin(r, plan) PROVE Audit'
  BY <1>3, AuditBegins
<1> QED
  BY <1>1, <1>2, <1>3 DEF Next

LEMMA InitAudit == Init => Audit
<1> SUFFICES ASSUME Init PROVE Audit
  OBVIOUS
<1>1. history = {} /\ \A r \in Requests : req[r].pc # "write_obs"
  BY DEF Init, Fresh
<1>2. ASSUME NEW o \in observations PROVE Accounted(o.id, o.content, o.by)
  <2>1. PICK s \in SeedObservations : o.id = s.id /\ o.content = s.content
    BY DEF Init
  <2> QED
    BY <2>1 DEF Accounted
<1> QED
  BY <1>1, <1>2 DEF Audit

LEMMA CreationsNext ==
    ASSUME PlanInv, Audit, [Next]_vars
    PROVE  \A h \in Trail' \ Trail : h.action = "observation_created" =>
              \E o \in Obs' : o.id = h.obs /\ o.content = h.new
<1>1. CASE Trail' \subseteq Trail
  BY <1>1
<1>2. ASSUME NEW r \in Requests, NEW VE, NEW NE, NEW VO, NEW NO, NEW VR, NEW NR,
             NEW NH, Writes(r, VE, NE, VO, NO, VR, NR, NH)
      PROVE  Trail' \subseteq Trail
  BY <1>2, PlanAssumption DEF Writes, Trail, Committed
<1>3. ASSUME NEW r \in Requests, Fail(r) PROVE Trail' \subseteq Trail
  <2>1. history' = Rollback(history, r) /\ Nil \notin Requests
    BY <1>3, PlanAssumption DEF Fail, UndoHistory
  <2>2. Rows(history, EntryColumns) /\ Columns(EntryColumns)
    BY ColumnsOfTables DEF PlanInv, Inv, Tables
  <2>3. ASSUME NEW x \in history', x.by = Nil PROVE x \in history
    <3>1. PICK h \in history : RollingBack(h, x, r, EntryColumns)
      BY <2>1, <2>2, InRollback
    <3>2. h.gone # r
      BY <2>1 DEF Audit
    <3> QED
      BY <3>1, <3>2 DEF RollingBack
  <2> QED
    BY <2>3 DEF Trail, Committed
<1>4. ASSUME NEW r \in Requests, CommitTx(r),
             NEW x \in Trail', x \notin Trail, x.action = "observation_created"
      PROVE  \E o \in Obs' : o.id = x.obs /\ o.content = x.new
  <2>1. /\ observations' = Commit(observations, r)
        /\ history' = Commit(history, r) /\ Nil \notin Requests
    BY <1>4, PlanAssumption DEF CommitTx
  <2>2. /\ Rows(observations, ObservationColumns) /\ Columns(ObservationColumns)
        /\ Rows(history, EntryColumns) /\ Columns(EntryColumns)
    BY ColumnsOfTables DEF PlanInv, Inv, Tables
  <2>3. x \in history' /\ x.by = Nil /\ x \notin {h \in history : h.by = Nil}
    BY <1>4 DEF Trail, Committed
  <2>4. PICK h \in history : Committing(h, x, r, EntryColumns)
    BY <2>1, <2>2, <2>3, InCommit
  <2>5. h.by = r
    BY <2>3, <2>4 DEF Committing
  <2>6. h.obs = x.obs /\ h.new = x.new /\ h.action = x.action
    BY <2>4 DEF Committing, EntryColumns
  <2>7. PICK v \in observations : v.id = h.obs /\ v.content = h.new /\ v.by = r
    BY <1>4, <2>1, <2>5, <2>6 DEF Audit, Backed
  <2>8. v.gone # r
    BY <2>1, <2>2, <2>7 DEF Rows
  <2>9. PICK o \in observations' : Committing(v, o, r, ObservationColumns)
    BY <2>1, <2>2, <2>8, OfCommit
  <2> QED
    BY <2>6, <2>7, <2>9 DEF Committing, ObservationColumns, Obs, Committed
<1>5. ASSUME NEW r \in Requests, Step(r) \/ Abort(r), ~Fail(r), ~CommitTx(r)
      PROVE  \/ UNCHANGED tables
             \/ \E VE, NE, VO, NO, VR, NR, NH :
                   Writes(r, VE, NE, VO, NO, VR, NR, NH)
  BY <1>5, StepWrites
<1>6. CASE UNCHANGED tables
  BY <1>6 DEF tables, Trail, Committed
<1> QED
  <2>1. ASSUME NEW r \in Requests, Step(r) \/ Abort(r)
        PROVE  \A h \in Trail' \ Trail : h.action = "observation_created" =>
                  \E o \in Obs' : o.id = h.obs /\ o.content = h.new
    BY <1>2, <1>3, <1>4, <1>5, <1>6, <2>1
  <2>2. ASSUME NEW r \in Requests, NEW plan \in Plans, Begin(r, plan)
        PROVE  UNCHANGED tables
    BY <2>2 DEF Begin
  <2>3. UNCHANGED vars => UNCHANGED tables
    BY DEF vars, tables
  <2> QED
    BY <1>6, <2>1, <2>2, <2>3 DEF Next

\* The creation of an observation enters the trail together with it (the two
\* INSERTs of CreateEntities and AddObservations in one transaction).
THEOREM CreationsArePaired == Spec => CreationsAreReal
<1>1. PlanInv /\ Audit /\ [Next]_vars => Audit'
  BY AuditNext
<1>2. PlanInv /\ Audit /\ [Next]_vars
      => [\A h \in Trail' \ Trail : h.action = "observation_created" =>
             \E o \in Obs' : o.id = h.obs /\ o.content = h.new]_vars
  BY CreationsNext
<1> QED
  BY <1>1, <1>2, InitAudit, PlanInvHolds, PTL DEF Spec, CreationsAreReal

\* Whatever an observation says is in the trail, unless the database started
\* with it or Import wrote it, failed and concurrent edits included.
THEOREM ContentsAreAudited == Spec => []ContentIsAudited
<1>1. PlanInv /\ Audit /\ [Next]_vars => Audit'
  BY AuditNext
<1>2. Audit => ContentIsAudited
  <2> SUFFICES ASSUME Audit, NEW o \in Obs
               PROVE  \/ \E h \in Trail : h.obs = o.id /\ h.new = o.content
                      \/ \E s \in SeedObservations :
                            s.id = o.id /\ s.content = o.content
                      \/ Imported(o.content)
    BY DEF ContentIsAudited
  <2>1. o \in observations /\ o.by = Nil
    BY DEF Obs, Committed
  <2>2. Accounted(o.id, o.content, Nil)
    BY <2>1 DEF Audit
  <2> QED
    BY <2>2 DEF Accounted, Trail, Committed
<1> QED
  BY <1>1, <1>2, InitAudit, PlanInvHolds, PTL DEF Spec

(* ---- What succeeded is stored ------------------------------------------- *)

\* What s sees once it is committed, as long as nothing is removed.
EntAt(id, project, name, s) ==
    \E e \in entities : /\ e.id = id /\ e.project = project /\ e.name = name
                        /\ e.by \in {Nil, s}

Holds(project, name, content, s) ==
    \E e \in entities, o \in observations :
        /\ e.project = project /\ e.name = name /\ e.by \in {Nil, s}
        /\ o.entity = e.id /\ o.content = content /\ o.by \in {Nil, s}

Links(project, t, s) ==
    \E e, f \in entities, x \in relations :
        /\ e.project = project /\ e.name = t.from /\ e.by \in {Nil, s} /\ x.from = e.id
        /\ f.project = project /\ f.name = t.to /\ f.by \in {Nil, s} /\ x.to = f.id
        /\ x.type = t.type /\ x.by \in {Nil, s}

ItemHeld(c, item, s) ==
    \A content \in Range(item.obs) : Holds(c.project, item.name, content, s)

CallHeld(c, s) ==
    /\ \A item \in Range(c.items) : ItemHeld(c, item, s)
    /\ \A t \in Range(c.triples) : Links(c.project, t, s)

\* Where the loops of a call stand: what is not stored is still to come.
ItemsDone(q, c, s) ==
    \A item \in Range(c.items) : item \in Range(q.items) \/ ItemHeld(c, item, s)

TriplesDone(q, c, s) ==
    \A t \in Range(c.triples) : t \in Range(q.triples) \/ Links(c.project, t, s)

AtObs(q, c, s) ==
    q.pc = "insert_obs" =>
       /\ EntAt(q.id, c.project, Head(q.items).name, s)
       /\ \A content \in Range(Head(q.items).obs) :
             \/ content \in Range(q.contents)
             \/ Holds(c.project, Head(q.items).name, content, s)

AtRel(q, c, s) ==
    /\ q.pc \in {"find_to", "insert_to", "insert_rel"} =>
          EntAt(q.id, c.project, Head(q.triples).from, s)
    /\ q.pc = "insert_rel" => EntAt(q.id2, c.project, Head(q.triples).to, s)

Underway(q, c, s) ==
    ItemsDone(q, c, s) /\ TriplesDone(q, c, s) /\ AtObs(q, c, s) /\ AtRel(q, c, s)

Here(q, s) ==
    q.pc \notin Ended /\ Head(q.plan).do = "items" => Underway(q, Head(q.plan), s)

\* The calls the request has behind it.
Past(q) ==
    q.pc \notin {"idle", "failed"} =>
       \A i \in 1 .. Len(q.asked) - Len(q.plan) :
          q.asked[i].do = "items" => CallHeld(q.asked[i], Nil)

Present(rows) == \A v \in rows : v.gone = Nil

NoRemovals == \A r \in Requests : \A c \in Asked(r) : ~Removes(c)

Durable ==
    /\ Present(entities) /\ Present(observations) /\ Present(relations)
    /\ \A r \in Requests : Past(req[r]) /\ Here(req[r], r)

\* What s saw is, as it was, what u sees.
RowsPass(rows, new, C, s, u) ==
    \A v \in rows : v.by \in {Nil, s} =>
        \E x \in new : x.by \in {Nil, u} /\ SameOn(C, x, v)

Passes(s, u) ==
    /\ RowsPass(entities, entities', EntityColumns, s, u)
    /\ RowsPass(observations, observations', ObservationColumns, s, u)
    /\ RowsPass(relations, relations', RelationColumns, s, u)

Stays(s) == Passes(s, s)

LEMMA EntPasses ==
    ASSUME NEW s, NEW u, Passes(s, u), NEW e \in entities, e.by \in {Nil, s}
    PROVE  \E x \in entities' : /\ x.by \in {Nil, u} /\ x.id = e.id
                                /\ x.project = e.project /\ x.name = e.name
BY DEF Passes, RowsPass, SameOn, EntityColumns

LEMMA ObPasses ==
    ASSUME NEW s, NEW u, Passes(s, u), NEW o \in observations, o.by \in {Nil, s}
    PROVE  \E x \in observations' : /\ x.by \in {Nil, u} /\ x.entity = o.entity
                                    /\ x.content = o.content
BY DEF Passes, RowsPass, SameOn, ObservationColumns

LEMMA RelPasses ==
    ASSUME NEW s, NEW u, Passes(s, u), NEW y \in relations, y.by \in {Nil, s}
    PROVE  \E x \in relations' : /\ x.by \in {Nil, u} /\ x.from = y.from
                                 /\ x.to = y.to /\ x.type = y.type
BY DEF Passes, RowsPass, SameOn, RelationColumns

LEMMA HoldsPasses ==
    ASSUME NEW s, NEW u, Passes(s, u), NEW project, NEW name, NEW content,
           Holds(project, name, content, s)
    PROVE  Holds(project, name, content, u)'
<1>1. PICK e \in entities, o \in observations :
         /\ e.project = project /\ e.name = name /\ e.by \in {Nil, s}
         /\ o.entity = e.id /\ o.content = content /\ o.by \in {Nil, s}
  BY DEF Holds
<1>2. PICK x \in entities' : /\ x.by \in {Nil, u} /\ x.id = e.id
                             /\ x.project = project /\ x.name = name
  BY <1>1, EntPasses
<1>3. PICK y \in observations' : /\ y.by \in {Nil, u} /\ y.entity = e.id
                                 /\ y.content = content
  BY <1>1, ObPasses
<1> QED
  BY <1>2, <1>3 DEF Holds

LEMMA LinksPasses ==
    ASSUME NEW s, NEW u, Passes(s, u), NEW project, NEW t, Links(project, t, s)
    PROVE  Links(project, t, u)'
<1>1. PICK e, f \in entities, x \in relations :
        /\ e.project = project /\ e.name = t.from /\ e.by \in {Nil, s} /\ x.from = e.id
        /\ f.project = project /\ f.name = t.to /\ f.by \in {Nil, s} /\ x.to = f.id
        /\ x.type = t.type /\ x.by \in {Nil, s}
  BY DEF Links
<1>2. PICK a \in entities' : /\ a.by \in {Nil, u} /\ a.id = e.id
                             /\ a.project = project /\ a.name = t.from
  BY <1>1, EntPasses
<1>3. PICK b \in entities' : /\ b.by \in {Nil, u} /\ b.id = f.id
                             /\ b.project = project /\ b.name = t.to
  BY <1>1, EntPasses
<1>4. PICK y \in relations' : /\ y.by \in {Nil, u} /\ y.from = x.from
                              /\ y.to = x.to /\ y.type = t.type
  BY <1>1, RelPasses
<1> QED
  BY <1>1, <1>2, <1>3, <1>4 DEF Links

LEMMA EntAtStays ==
    ASSUME NEW s, Stays(s), NEW id, NEW project, NEW name, EntAt(id, project, name, s)
    PROVE  EntAt(id, project, name, s)'
BY EntPasses DEF Stays, EntAt

LEMMA CallHeldPasses ==
    ASSUME NEW s, NEW u, Passes(s, u), NEW c, CallHeld(c, s)
    PROVE  CallHeld(c, u)'
BY HoldsPasses, LinksPasses DEF CallHeld, ItemHeld

LEMMA HereStays ==
    ASSUME NEW s, Stays(s), NEW q, Here(q, s)
    PROVE  Here(q, s)'
<1> SUFFICES ASSUME NEW c, c = Head(q.plan), q.pc \notin Ended, c.do = "items"
             PROVE  Underway(q, c, s)'
  BY DEF Here
<1>1. Underway(q, c, s)
  BY DEF Here
<1>2. ItemsDone(q, c, s)'
  BY <1>1, HoldsPasses DEF Stays, Underway, ItemsDone, ItemHeld
<1>3. TriplesDone(q, c, s)'
  BY <1>1, LinksPasses DEF Stays, Underway, TriplesDone
<1>4. AtObs(q, c, s)'
  BY <1>1, HoldsPasses, EntAtStays DEF Stays, Underway, AtObs
<1>5. AtRel(q, c, s)'
  BY <1>1, EntAtStays DEF Underway, AtRel
<1> QED
  BY <1>2, <1>3, <1>4, <1>5 DEF Underway

LEMMA PastStays ==
    ASSUME Stays(Nil), NEW q, Past(q)
    PROVE  Past(q)'
BY CallHeldPasses DEF Stays, Past

LEMMA OnlyAdds ==
    ASSUME PlanInv, NoRemovals, NEW r \in Requests, Running(r)
    PROVE  /\ Call(r).do \in {"items", "log", "read_graph"}
           /\ Call(r).do = "items" => ~Call(r).replace
<1>1. Call(r) \in Asked(r)
  <2>1. Suffix(req[r].plan, req[r].asked) /\ req[r].plan # << >>
        /\ Call(r) = Head(req[r].plan)
    BY Calling DEF PlanInv
  <2> QED
    BY <2>1, NextCall DEF Asked
<1> QED
  BY <1>1 DEF NoRemovals, Removes

LEMMA WhatRuns ==
    ASSUME PlanInv, NoRemovals, NEW r \in Requests, Step(r) \/ Abort(r), ~Fail(r)
    PROVE  \/ FindEntity(r) \/ InsertEntity(r) \/ InsertObservation(r)
           \/ InsertRelation(r) \/ CommitTx(r) \/ LogInsert(r)
           \/ LogLookup(r) \/ ReadGraphEntities(r) \/ ReadGraphObservations(r)
<1>1. Running(r) /\ req[r].pc \notin Ended
  BY FailsRunning DEF Running, Ended
<1>2. /\ Call(r).do \in {"items", "log", "read_graph"}
      /\ Call(r).do = "items" => ~Call(r).replace
  BY <1>1, OnlyAdds
<1>3. PlanOf(req[r]) /\ Call(r) = Head(req[r].plan) /\ Stands(req[r].pc, Call(r).do)
  BY <1>1, Calling DEF PlanInv
<1>4. req[r].pc \notin {"snap_obs", "clear_obs"}
  BY <1>1, <1>2, <1>3 DEF PlanOf, Loops, Stands, ItemPcs, TriplePcs, ObsKinds
<1>5. req[r].pc \notin {"delete_entities", "cascade", "update_entity", "check_name",
                        "rename", "delete_obs", "update_obs", "write_obs",
                        "delete_obs_by_content", "update_obs_by_content",
                        "delete_rel", "delete_rel_by_triple"}
  BY <1>2, <1>3 DEF Stands, ItemPcs, TriplePcs, ObsKinds
<1> QED
  BY <1>4, <1>5, Steps DEF Single, SnapObservations, ClearObservations, SnapEntities,
     Cascade, ReadEntity, CheckName, Rename, FindObservation, EraseObservation,
     WriteObservation, EraseRelation

LEMMA DurableSteps ==
    ASSUME PlanInv, Durable, NEW r \in Requests, NEW n, Becomes(r, n),
           (Present(entities) /\ Present(observations) /\ Present(relations))',
           Stays(Nil), \A s \in Requests : s # r => Stays(s),
           Past(n)', Here(n, r)'
    PROVE  Durable'
<1>1. req'[r] = n /\ \A s \in Requests : s # r => req'[s] = req[s]
  BY OthersRest DEF PlanInv
<1>2. ASSUME NEW s \in Requests PROVE (Past(req[s]) /\ Here(req[s], s))'
  <2>1. CASE s = r
    BY <1>1, <2>1 DEF Past, Here, Underway, ItemsDone, TriplesDone, AtObs, AtRel
  <2>2. CASE s # r
    <3>1. PICK q : q = req[s]
      OBVIOUS
    <3>2. Past(q) /\ Here(q, s)
      BY <3>1 DEF Durable
    <3>3. Past(q)' /\ Here(q, s)'
      BY <2>2, <3>2, PastStays, HereStays
    <3>4. q = req'[s]
      BY <1>1, <2>2, <3>1
    <3> QED
      BY <3>3, <3>4
  <2> QED
    BY <2>1, <2>2
<1> QED
  BY <1>2 DEF Durable

\* Rows are only added.
Adds(r, NE, NO, NR) ==
    \E NH : Writes(r, {}, NE, {}, NO, {}, NR, NH)

LEMMA AddedStay ==
    ASSUME NEW rows, NEW N, NEW r, NEW new, Wrote(rows, {}, N, r, new), Present(rows)
    PROVE  Present(new) /\ rows \subseteq new /\ N \subseteq new
           /\ \A C, s : RowsPass(rows, new, C, s, s)
BY DEF Wrote, Remove, Present, RowsPass, SameOn

LEMMA AddsStay ==
    ASSUME Durable, NEW r, NEW NE, NEW NO, NEW NR, Adds(r, NE, NO, NR)
    PROVE  /\ (Present(entities) /\ Present(observations) /\ Present(relations))'
           /\ \A s : Stays(s)
           /\ NE \subseteq entities' /\ NO \subseteq observations'
           /\ NR \subseteq relations'
<1>1. /\ Wrote(entities, {}, NE, r, entities')
      /\ Wrote(observations, {}, NO, r, observations')
      /\ Wrote(relations, {}, NR, r, relations')
  BY DEF Adds, Writes
<1>2. /\ Present(entities') /\ NE \subseteq entities'
      /\ \A s : RowsPass(entities, entities', EntityColumns, s, s)
  BY <1>1, AddedStay DEF Durable
<1>3. /\ Present(observations') /\ NO \subseteq observations'
      /\ \A s : RowsPass(observations, observations', ObservationColumns, s, s)
  BY <1>1, AddedStay DEF Durable
<1>4. /\ Present(relations') /\ NR \subseteq relations'
      /\ \A s : RowsPass(relations, relations', RelationColumns, s, s)
  BY <1>1, AddedStay DEF Durable
<1>5. \A s : Stays(s)
  BY <1>2, <1>3, <1>4 DEF Stays, Passes
<1> QED
  BY <1>2, <1>3, <1>4, <1>5 DEF Present

\* Within a call the past is the same.
LEMMA PastWithin ==
    ASSUME NEW q, NEW n, n.asked = q.asked, n.plan = q.plan,
           q.pc \notin Ended, Past(q)'
    PROVE  Past(n)'
BY DEF Past, Ended

LEMMA DurableAdds ==
    ASSUME PlanInv, Durable, NEW r \in Requests, NEW n, Becomes(r, n),
           n.asked = req[r].asked, n.plan = req[r].plan, Running(r),
           NEW NE, NEW NO, NEW NR, Adds(r, NE, NO, NR), Here(n, r)'
    PROVE  Durable'
<1>1. /\ (Present(entities) /\ Present(observations) /\ Present(relations))'
      /\ \A s : Stays(s)
  BY AddsStay
<1>2. PICK q : q = req[r]
  OBVIOUS
<1>3. Past(q)'
  BY <1>1, <1>2, PastStays DEF Durable
<1>4. Past(n)'
  BY <1>2, <1>3, PastWithin DEF Running, Ended
<1> QED
  BY <1>1, <1>4, DurableSteps

WantedName(q) ==
    CASE q.pc \in {"find_item", "insert_item"} -> Head(q.items).name
      [] q.pc \in {"find_from", "insert_from"} -> Head(q.triples).from
      [] OTHER -> Head(q.triples).to

LEMMA WantedIs ==
    ASSUME NEW r, req[r].pc \in Seeking
    PROVE  Wanted(r).name = WantedName(req[r])
BY DEF Wanted, WantedName, Seeking, Item, Triple

\* The loop goes on behind the current item once that is stored.
LEMMA ItemBehind ==
    ASSUME NEW q, NEW c, NEW n, NEW r, NEW contents,
           q.items \in Seq(Range(c.items)), q.items # << >>,
           Followed(q, n, contents), ItemsDone(q, c, r)', TriplesDone(q, c, r)',
           contents = << >> => ItemHeld(c, Head(q.items), r)'
    PROVE  /\ ItemsDone(n, c, r)' /\ TriplesDone(n, c, r)'
           /\ contents = << >> => n.pc \in {"find_item", "find_from", "commit"}
<1>1. Range(q.items) = {Head(q.items)} \cup Range(Tail(q.items))
  BY HeadAndTail
<1>2. TriplesDone(n, c, r)'
  BY DEF Followed, TriplesDone
<1>3. CASE contents # << >>
  BY <1>2, <1>3 DEF Followed, ItemsDone
<1>4. CASE contents = << >>
  BY <1>1, <1>2, <1>4, LoopPcs DEF Followed, ItemsDone
<1> QED
  BY <1>3, <1>4

\* The entity r was looking for is there, with this id.
LEMMA ResolvedHere ==
    ASSUME NEW r, NEW q, PlanOf(q), q.pc \in Seeking, NEW n, Within(q, n),
           NEW id, Resolved(q, n, id), NEW c, c = Head(q.plan), ~c.replace,
           Underway(q, c, r)', EntAt(id, c.project, WantedName(q), r)'
    PROVE  Here(n, r)'
<1>1. ItemsDone(q, c, r)' /\ TriplesDone(q, c, r)' /\ AtRel(q, c, r)'
  BY DEF Underway
<1>2. CASE q.pc \in {"find_item", "insert_item"}
  <2>1. /\ q.items \in Seq(Range(c.items)) /\ q.items # << >>
        /\ Head(q.items).obs \in Seq(Range(Head(q.items).obs))
    BY <1>2, AtItem DEF Loops, ItemPcs
  <2>2. Followed(q, n, Head(q.items).obs) /\ n.id = id
    BY <1>2 DEF Resolved
  <2>3. Head(q.items).obs = << >> => ItemHeld(c, Head(q.items), r)'
    BY DEF ItemHeld, Range
  <2>4. /\ ItemsDone(n, c, r)' /\ TriplesDone(n, c, r)'
        /\ Head(q.items).obs = << >> => n.pc \in {"find_item", "find_from", "commit"}
    BY <1>1, <2>1, <2>2, <2>3, ItemBehind
  <2>5. AtObs(n, c, r)' /\ AtRel(n, c, r)'
    <3>1. CASE Head(q.items).obs = << >>
      BY <2>4, <3>1 DEF AtObs, AtRel
    <3>2. CASE Head(q.items).obs # << >>
      BY <1>2, <2>2, <3>2 DEF AtObs, AtRel, Followed, WantedName
    <3> QED
      BY <3>1, <3>2
  <2> QED
    BY <2>4, <2>5 DEF Here, Underway, Within
<1>3. CASE q.pc \notin {"find_item", "insert_item"}
  <2>1. n.items = q.items /\ n.triples = q.triples
        /\ n.pc \in {"find_to", "insert_rel"}
    BY <1>3 DEF Resolved
  <2>2. ItemsDone(n, c, r)' /\ TriplesDone(n, c, r)' /\ AtObs(n, c, r)'
    BY <1>1, <2>1 DEF ItemsDone, TriplesDone, AtObs
  <2>3. AtRel(n, c, r)'
    BY <1>1, <1>3, <2>1 DEF AtRel, Resolved, WantedName, Seeking
  <2> QED
    BY <2>2, <2>3 DEF Here, Underway, Within
<1> QED
  BY <1>2, <1>3

LEMMA InLoop ==
    ASSUME PlanInv, Durable, NoRemovals, NEW r \in Requests, NEW q, q = req[r],
           q.pc \in ItemPcs \cup TriplePcs, NEW c, c = Call(r)
    PROVE  /\ PlanOf(q) /\ c = Head(q.plan) /\ c.do = "items" /\ ~c.replace
           /\ Underway(q, c, r) /\ Running(r)
<1>1. Running(r) /\ q.pc \notin Ended
  BY DEF Running, ItemPcs, TriplePcs, Ended
<1>2. PlanOf(q) /\ c = Head(q.plan) /\ Stands(q.pc, c.do)
  BY <1>1, Calling DEF PlanInv
<1>3. c.do = "items"
  BY <1>2, AtItem, AtTriple
<1>4. ~c.replace
  BY <1>1, <1>3, OnlyAdds
<1>5. Underway(q, c, r)
  BY <1>1, <1>2, <1>3 DEF Durable, Here
<1> QED
  BY <1>1, <1>2, <1>3, <1>4, <1>5

LEMMA UnderwayStays ==
    ASSUME NEW s, Stays(s), NEW q, q.pc \notin Ended, NEW c, c = Head(q.plan),
           c.do = "items", Underway(q, c, s)
    PROVE  Underway(q, c, s)'
<1>1. Here(q, s)
  BY DEF Here
<1>2. Here(q, s)'
  BY <1>1, HereStays
<1> QED
  BY <1>2 DEF Here

LEMMA QuietAdds ==
    ASSUME NEW r, UNCHANGED tables
    PROVE  Adds(r, {}, {}, {})
BY QuietWrites DEF Adds

LEMMA DurableFindEntity ==
    ASSUME PlanInv, Durable, NoRemovals, NEW r \in Requests, FindEntity(r)
    PROVE  Durable'
<1>1. PICK n, E : /\ E = Visible(Named(Call(r).project, Wanted(r).name), r)
                  /\ Becomes(r, n) /\ Within(req[r], n) /\ PlanOf(n)
                  /\ \/ \E e \in E : Resolved(req[r], n, e.id)
                     \/ E = {} /\ NotFound(req[r], n)
  BY FindEntityMove DEF PlanInv
<1>2. PICK q, c : q = req[r] /\ c = Call(r)
  OBVIOUS
<1>3. q.pc \in {"find_item", "find_from", "find_to"} /\ UNCHANGED tables
  BY <1>2 DEF FindEntity
<1>4. /\ PlanOf(q) /\ c = Head(q.plan) /\ c.do = "items" /\ ~c.replace
      /\ Underway(q, c, r) /\ Running(r)
  BY <1>2, <1>3, InLoop DEF ItemPcs, TriplePcs
<1>5. Adds(r, {}, {}, {}) /\ Stays(r)
  BY <1>3, QuietAdds, AddsStay
<1>6. Underway(q, c, r)'
  BY <1>3, <1>4, <1>5, UnderwayStays DEF Ended
<1>7. Here(n, r)'
  <2>1. CASE NotFound(q, n)
    <3>1. /\ ItemsDone(q, c, r)' /\ TriplesDone(q, c, r)' /\ AtRel(q, c, r)'
      BY <1>6 DEF Underway
    <3>2. /\ ItemsDone(n, c, r)' /\ TriplesDone(n, c, r)' /\ AtRel(n, c, r)'
          /\ AtObs(n, c, r)'
      BY <2>1, <3>1 DEF NotFound, ItemsDone, TriplesDone, AtRel, AtObs
    <3> QED
      BY <1>1, <1>2, <1>4, <3>2 DEF Here, Underway, Within
  <2>2. CASE \E e \in E : Resolved(q, n, e.id)
    <3>1. PICK e \in E : Resolved(q, n, e.id)
      BY <2>2
    <3>2. PICK id : id = e.id
      OBVIOUS
    <3>3. Wanted(r).name = WantedName(q)
      BY <1>2, <1>3, WantedIs DEF Seeking
    <3>4. EntAt(id, c.project, WantedName(q), r)
      BY <1>1, <1>2, <3>1, <3>2, <3>3 DEF EntAt, Visible, Named
    <3>5. EntAt(id, c.project, WantedName(q), r)'
      BY <1>5, <3>4, EntAtStays
    <3> QED
      BY <1>1, <1>2, <1>3, <1>4, <1>6, <3>1, <3>2, <3>5, ResolvedHere DEF Seeking
  <2> QED
    BY <1>1, <1>2, <2>1, <2>2
<1> QED
  BY <1>1, <1>4, <1>5, <1>7, DurableAdds DEF Within

LEMMA DurableInsertEntity ==
    ASSUME PlanInv, Durable, NoRemovals, NEW r \in Requests, InsertEntity(r), ~Fail(r)
    PROVE  Durable'
<1>1. PICK n : /\ Becomes(r, n) /\ Within(req[r], n) /\ PlanOf(n)
               /\ Resolved(req[r], n, nextID)
  BY InsertEntityMove DEF PlanInv
<1>2. PICK q, c : q = req[r] /\ c = Call(r)
  OBVIOUS
<1>3. q.pc \in {"insert_item", "insert_from", "insert_to"}
  BY <1>2 DEF InsertEntity
<1>4. /\ PlanOf(q) /\ c = Head(q.plan) /\ c.do = "items" /\ ~c.replace
      /\ Underway(q, c, r) /\ Running(r)
  BY <1>2, <1>3, InLoop DEF ItemPcs, TriplePcs
<1>5. PICK e : /\ Writes(r, {}, {e}, {}, {}, {}, {}, {})
               /\ e.id = nextID /\ e.project = c.project /\ e.name = Wanted(r).name
  BY <1>2, InsertEntityWrites
<1>6. Adds(r, {e}, {}, {})
  BY <1>5 DEF Adds
<1>7. Stays(r) /\ e \in entities' /\ e.by = r
  BY <1>5, <1>6, AddsStay DEF Writes, Wrote
<1>8. Underway(q, c, r)'
  BY <1>3, <1>4, <1>7, UnderwayStays DEF Ended
<1>9. PICK id : id = nextID
  OBVIOUS
<1>10. Wanted(r).name = WantedName(q)
  BY <1>2, <1>3, WantedIs DEF Seeking
<1>11. EntAt(id, c.project, WantedName(q), r)'
  BY <1>5, <1>7, <1>9, <1>10 DEF EntAt
<1>12. Here(n, r)'
  BY <1>1, <1>2, <1>3, <1>4, <1>8, <1>9, <1>11, ResolvedHere DEF Seeking
<1> QED
  BY <1>1, <1>4, <1>6, <1>12, DurableAdds DEF Within

LEMMA DurableInsertObservation ==
    ASSUME PlanInv, Durable, NoRemovals, NEW r \in Requests,
           InsertObservation(r), ~Fail(r)
    PROVE  Durable'
<1>1. PICK q, c : q = req[r] /\ c = Call(r)
  OBVIOUS
<1>2. PICK n : /\ Becomes(r, n) /\ Within(q, n) /\ PlanOf(n) /\ n.id = q.id
               /\ Followed(q, n, Tail(q.contents))
               /\ Range(q.contents)
                     = {Head(q.contents)} \cup Range(Tail(q.contents))
  BY <1>1, InsertObservationMove DEF PlanInv
<1>3. q.pc = "insert_obs"
  BY <1>1 DEF InsertObservation
<1>4. /\ PlanOf(q) /\ c = Head(q.plan) /\ c.do = "items" /\ ~c.replace
      /\ Underway(q, c, r) /\ Running(r)
  BY <1>1, <1>3, InLoop DEF ItemPcs, TriplePcs
<1>5. PICK o, H : /\ Writes(r, {}, {}, {}, {o}, {}, {}, H)
                  /\ o.entity = q.id /\ o.content = Head(q.contents)
  BY <1>1, InsertObservationWrites
<1>6. Adds(r, {}, {o}, {})
  BY <1>5 DEF Adds
<1>7. Stays(r) /\ o \in observations' /\ o.by = r
  BY <1>5, <1>6, AddsStay DEF Writes, Wrote
<1>8. Underway(q, c, r)'
  BY <1>3, <1>4, <1>7, UnderwayStays DEF Ended
<1>9. PICK item, content : item = Head(q.items) /\ content = Head(q.contents)
  OBVIOUS
<1>10. Holds(c.project, item.name, content, r)'
  <2>1. EntAt(q.id, c.project, item.name, r)'
    BY <1>3, <1>8, <1>9 DEF Underway, AtObs
  <2> QED
    BY <1>5, <1>7, <1>9, <2>1 DEF EntAt, Holds
<1>11. \A x \in Range(item.obs) :
          \/ x \in Range(Tail(q.contents))
          \/ Holds(c.project, item.name, x, r)'
  BY <1>2, <1>3, <1>8, <1>9, <1>10 DEF Underway, AtObs
<1>12. Tail(q.contents) = << >> => ItemHeld(c, item, r)'
  BY <1>11 DEF ItemHeld, Range
<1>13. q.items \in Seq(Range(c.items)) /\ q.items # << >>
  BY <1>3, <1>4, AtItem DEF ItemPcs, Loops
<1>14. ItemsDone(q, c, r)' /\ TriplesDone(q, c, r)'
  BY <1>8 DEF Underway
<1>15. /\ ItemsDone(n, c, r)' /\ TriplesDone(n, c, r)'
       /\ Tail(q.contents) = << >> => n.pc \in {"find_item", "find_from", "commit"}
  BY <1>2, <1>9, <1>12, <1>13, <1>14, ItemBehind
<1>16. AtObs(n, c, r)' /\ AtRel(n, c, r)'
  <2>1. CASE Tail(q.contents) = << >>
    BY <1>15, <2>1 DEF AtObs, AtRel
  <2>2. CASE Tail(q.contents) # << >>
    <3>1. EntAt(q.id, c.project, item.name, r)'
      BY <1>3, <1>8, <1>9 DEF Underway, AtObs
    <3>2. n.pc = "insert_obs" /\ n.items = q.items /\ n.contents = Tail(q.contents)
      BY <1>2, <2>2 DEF Followed
    <3> QED
      BY <1>2, <1>9, <1>11, <3>1, <3>2 DEF AtObs, AtRel
  <2> QED
    BY <2>1, <2>2
<1>17. Here(n, r)'
  BY <1>2, <1>4, <1>15, <1>16 DEF Here, Underway, Within
<1> QED
  BY <1>1, <1>2, <1>4, <1>6, <1>17, DurableAdds DEF Within

LEMMA DurableInsertRelation ==
    ASSUME PlanInv, Durable, NoRemovals, NEW r \in Requests,
           InsertRelation(r), ~Fail(r)
    PROVE  Durable'
<1>1. PICK q, c, t : q = req[r] /\ c = Call(r) /\ t = Head(q.triples)
  OBVIOUS
<1>2. PICK n : /\ Becomes(r, n) /\ Within(q, n) /\ PlanOf(n)
               /\ n.items = q.items /\ n.triples = Tail(q.triples)
               /\ n.pc \in {"find_from", "commit"}
               /\ Range(q.triples) = {t} \cup Range(Tail(q.triples))
  BY <1>1, InsertRelationMove DEF PlanInv
<1>3. q.pc = "insert_rel" /\ Triple(r) = t
  BY <1>1 DEF InsertRelation, Triple
<1>4. /\ PlanOf(q) /\ c = Head(q.plan) /\ c.do = "items" /\ ~c.replace
      /\ Underway(q, c, r) /\ Running(r)
  BY <1>1, <1>3, InLoop DEF ItemPcs, TriplePcs
<1>5. PICK N : /\ Writes(r, {}, {}, {}, {}, {}, N, {})
               /\ \E x \in relations' :
                     /\ x.by \in {Nil, r} /\ x.from = q.id
                     /\ x.to = q.id2 /\ x.type = t.type
  BY <1>1, <1>3, InsertRelationWrites
<1>6. Adds(r, {}, {}, N)
  BY <1>5 DEF Adds
<1>7. Stays(r)
  BY <1>6, AddsStay
<1>8. Underway(q, c, r)'
  BY <1>3, <1>4, <1>7, UnderwayStays DEF Ended
<1>9. EntAt(q.id, c.project, t.from, r)' /\ EntAt(q.id2, c.project, t.to, r)'
  BY <1>1, <1>3, <1>8 DEF Underway, AtRel
<1>10. Links(c.project, t, r)'
  BY <1>5, <1>9 DEF EntAt, Links
<1>11. TriplesDone(n, c, r)'
  BY <1>2, <1>8, <1>10 DEF Underway, TriplesDone
<1>12. ItemsDone(n, c, r)' /\ AtObs(n, c, r)' /\ AtRel(n, c, r)'
  BY <1>2, <1>8 DEF Underway, ItemsDone, AtObs, AtRel
<1>13. Here(n, r)'
  BY <1>2, <1>4, <1>11, <1>12 DEF Here, Underway, Within
<1> QED
  BY <1>1, <1>2, <1>4, <1>6, <1>13, DurableAdds DEF Within

LEMMA DurableOther ==
    ASSUME PlanInv, Durable, NoRemovals, NEW r \in Requests, ~Fail(r),
           \/ LogInsert(r) \/ LogLookup(r) \/ ReadGraphEntities(r)
           \/ ReadGraphObservations(r)
    PROVE  Durable'
<1>1. req[r].pc \in {"log", "log_insert", "read_graph", "read_graph_obs"}
  BY DEF LogInsert, LogLookup, ReadGraphEntities, ReadGraphObservations
<1>2. PICK n : /\ Becomes(r, n) /\ n.asked = req[r].asked /\ n.plan = req[r].plan
  BY SingleMove DEF Single
<1>3. Running(r) /\ Call(r) = Head(req[r].plan) /\ Call(r).do # "items"
  <2>1. PICK pcs : pcs = {"log", "log_insert", "read_graph", "read_graph_obs"}
    OBVIOUS
  <2>2. req[r].pc \in pcs /\ pcs \cap (ItemPcs \cup TriplePcs \cup Ended) = {}
        /\ "commit" \notin pcs
    BY <1>1, <2>1 DEF ItemPcs, TriplePcs, Ended
  <2> QED
    BY <2>2, OtherCalls DEF PlanInv
<1>4. Adds(r, {}, {}, {})
  <2>1. CASE LogInsert(r)
    <3>1. PICK h : Writes(r, {}, {}, {}, {}, {}, {}, {h})
      BY <2>1, LogInsertWrites DEF PlanInv
    <3> QED
      BY <3>1 DEF Adds
  <2>2. CASE ~LogInsert(r)
    BY <2>2, QuietAdds DEF LogLookup, ReadGraphEntities, ReadGraphObservations
  <2> QED
    BY <2>1, <2>2
<1>5. Here(n, r)'
  BY <1>2, <1>3 DEF Here
<1> QED
  BY <1>2, <1>3, <1>4, <1>5, DurableAdds

LEMMA RollbackStays ==
    ASSUME NEW rows, NEW C, Rows(rows, C), Columns(C), Present(rows),
           NEW r \in Requests, Nil \notin Requests
    PROVE  /\ Present(Rollback(rows, r))
           /\ \A s : s # r => RowsPass(rows, Rollback(rows, r), C, s, s)
<1>1. Present(Rollback(rows, r))
  BY InRollback DEF RollingBack, Present
<1>2. ASSUME NEW s, s # r, NEW v \in rows, v.by \in {Nil, s}
      PROVE  \E x \in Rollback(rows, r) : x.by \in {Nil, s} /\ SameOn(C, x, v)
  <2>1. v.by # r
    BY <1>2
  <2>2. PICK x \in Rollback(rows, r) : RollingBack(v, x, r, C)
    BY <2>1, OfRollback
  <2> QED
    BY <1>2, <2>2 DEF RollingBack, SameOn
<1> QED
  BY <1>1, <1>2 DEF RowsPass

LEMMA CommitPasses ==
    ASSUME NEW rows, NEW C, Rows(rows, C), Columns(C), Present(rows),
           NEW r \in Requests, Nil \notin Requests
    PROVE  /\ Present(Commit(rows, r)) /\ RowsPass(rows, Commit(rows, r), C, r, Nil)
           /\ \A s : s # r => RowsPass(rows, Commit(rows, r), C, s, s)
<1>1. Present(Commit(rows, r))
  BY InCommit DEF Committing, Present
<1>2. ASSUME NEW v \in rows
      PROVE  \E x \in Commit(rows, r) :
                x.by = (IF v.by = r THEN Nil ELSE v.by) /\ SameOn(C, x, v)
  <2>1. v.gone # r
    BY DEF Present
  <2>2. PICK x \in Commit(rows, r) : Committing(v, x, r, C)
    BY <2>1, OfCommit
  <2> QED
    BY <2>2 DEF Committing, SameOn
<1> QED
  BY <1>1, <1>2 DEF RowsPass

LEMMA DurableFails ==
    ASSUME PlanInv, Durable, NEW r \in Requests, Running(r), Fail(r)
    PROVE  Durable'
<1>1. PICK n : Becomes(r, n) /\ Failed(r, n)
  BY FailMove DEF PlanInv
<1>2. /\ Rows(entities, EntityColumns) /\ Columns(EntityColumns)
      /\ Rows(observations, ObservationColumns) /\ Columns(ObservationColumns)
      /\ Rows(relations, RelationColumns) /\ Columns(RelationColumns)
      /\ Nil \notin Requests
  BY ColumnsOfTables, PlanAssumption DEF PlanInv, Inv, Tables
<1>3. /\ Present(entities') /\ Present(observations') /\ Present(relations')
      /\ \A s : s # r => Stays(s)
  BY <1>2, RollbackStays DEF Durable, Fail, Stays, Passes
<1>4. Past(n)' /\ Here(n, r)'
  BY <1>1 DEF Failed, Past, Here, Ended
<1>5. (Present(entities) /\ Present(observations) /\ Present(relations))'
  BY <1>3 DEF Present
<1>6. Stays(Nil)
  BY <1>2, <1>3
<1> QED
  BY <1>1, <1>3, <1>4, <1>5, <1>6, DurableSteps

\* A call that begins has everything to come.
LEMMA StartHere ==
    ASSUME NEW asked, NEW plan \in Seq(Calls), NEW r, NEW n, n = StartCall(asked, plan)
    PROVE  Here(n, r)'
<1> SUFFICES ASSUME n.pc \notin Ended, Head(n.plan).do = "items"
             PROVE  Underway(n, Head(n.plan), r)'
  BY DEF Here
<1>1. n.plan = plan /\ plan # << >>
  BY StartFields DEF Ended
<1>2. /\ n.items = Head(plan).items /\ n.triples = Head(plan).triples
      /\ n.pc = LoopPc(n.items, n.triples)
  BY <1>1, StartFields
<1>3. n.pc \in {"find_item", "find_from", "commit"}
  BY <1>2, LoopPcs
<1> QED
  BY <1>1, <1>2, <1>3 DEF Underway, ItemsDone, TriplesDone, AtObs, AtRel

LEMMA DurableCommits ==
    ASSUME PlanInv, Durable, NEW r \in Requests, CommitTx(r)
    PROVE  Durable'
<1>1. PICK n : Becomes(r, n) /\ (Goes(r, n) \/ Failed(r, n))
  BY CommitMove DEF PlanInv
<1>2. /\ Rows(entities, EntityColumns) /\ Columns(EntityColumns)
      /\ Rows(observations, ObservationColumns) /\ Columns(ObservationColumns)
      /\ Rows(relations, RelationColumns) /\ Columns(RelationColumns)
      /\ Nil \notin Requests
  BY ColumnsOfTables, PlanAssumption DEF PlanInv, Inv, Tables
<1>3. /\ Present(entities') /\ Present(observations') /\ Present(relations')
      /\ (\A s : s # r => Stays(s)) /\ Passes(r, Nil)
  BY <1>2, CommitPasses DEF Durable, CommitTx, Stays, Passes
<1>4. (Present(entities) /\ Present(observations) /\ Present(relations))'
  BY <1>3 DEF Present
<1>5. Stays(Nil)
  BY <1>2, <1>3
<1>6. CASE Failed(r, n)
  <2>1. Past(n)' /\ Here(n, r)'
    BY <1>6 DEF Failed, Past, Here, Ended
  <2> QED
    BY <1>1, <1>3, <1>4, <1>5, <2>1, DurableSteps
<1>7. CASE Goes(r, n)
  <2>1. PICK q, c : q = req[r] /\ c = Head(q.plan)
    OBVIOUS
  <2>2. q.pc = "commit" /\ Running(r)
    BY <2>1 DEF CommitTx, Running
  <2>3. PlanOf(q) /\ q.plan # << >> /\ Suffix(q.plan, q.asked)
    BY <2>1, <2>2, Calling DEF PlanInv
  <2>4. Here(n, r)'
    <3>1. PICK asked, plan : asked = q.asked /\ plan = Tail(q.plan)
      OBVIOUS
    <3>2. plan \in Seq(Calls) /\ n = StartCall(asked, plan)
      BY <1>7, <2>1, <3>1 DEF Goes, Suffix
    <3> QED
      BY <3>2, StartHere
  <2>5. c.do = "items" => CallHeld(c, r)
    <3> SUFFICES ASSUME c.do = "items" PROVE CallHeld(c, r)
      OBVIOUS
    <3>1. q.items = << >> /\ q.triples = << >>
      BY <2>1, <2>2, <2>3 DEF PlanOf, Loops, Ended
    <3>2. Range(q.items) = {} /\ Range(q.triples) = {}
      BY <3>1 DEF Range
    <3>3. Underway(q, c, r)
      BY <2>1, <2>2 DEF Durable, Here, Ended
    <3> QED
      BY <3>2, <3>3 DEF Underway, ItemsDone, TriplesDone, CallHeld
  <2>6. c.do = "items" => CallHeld(c, Nil)'
    BY <1>3, <2>5, CallHeldPasses
  <2>7. Past(q)'
    BY <1>5, <2>1, PastStays DEF Durable
  <2>8. Past(n)'
    <3> SUFFICES ASSUME NEW i \in 1 .. Len(n.asked) - Len(n.plan),
                        n.asked[i].do = "items"
                 PROVE  CallHeld(n.asked[i], Nil)'
      BY DEF Past
    <3>1. PICK a, p : a = Len(q.asked) /\ p = Len(q.plan)
      OBVIOUS
    <3>2. n.asked = q.asked /\ n.plan = Tail(q.plan)
      BY <1>7, <2>1 DEF Goes
    <3>3. a \in Nat /\ p \in Nat /\ Len(n.asked) = a /\ Len(n.plan) = p - 1
      <4>1. q.asked \in Seq(Calls) /\ q.plan \in Seq(Calls)
        BY <2>3 DEF Suffix
      <4>2. Len(Tail(q.plan)) = Len(q.plan) - 1
        BY <2>3, <4>1, HeadTailProperties
      <4> QED
        BY <3>1, <3>2, <4>1, <4>2, LenProperties
    <3>4. c = q.asked[a - p + 1]
      BY <2>1, <2>3, <3>1, NextCall
    <3>5. i \in 1 .. a - p \/ i = a - p + 1
      BY <3>3
    <3>6. CASE i = a - p + 1
      BY <2>6, <3>2, <3>4, <3>6
    <3>7. CASE i \in 1 .. a - p
      BY <2>2, <2>7, <3>1, <3>2, <3>7 DEF Past
    <3> QED
      BY <3>5, <3>6, <3>7
  <2> QED
    BY <1>1, <1>3, <1>4, <1>5, <2>4, <2>8, DurableSteps
<1> QED
  BY <1>1, <1>6, <1>7

LEMMA DurableBegins ==
    ASSUME PlanInv, Durable, NEW r \in Requests, NEW plan \in Plans, Begin(r, plan)
    PROVE  Durable'
<1>1. PICK n : Becomes(r, n) /\ n.asked = plan /\ n.plan = plan
               /\ n = StartCall(plan, plan)
  BY BeginMove DEF PlanInv
<1>2. plan \in Seq(Calls)
  BY PlanAssumption
<1>3. Here(n, r)'
  BY <1>1, <1>2, StartHere
<1>4. Past(n)'
  <2>1. Len(plan) \in Nat
    BY <1>2, LenProperties
  <2>2. 1 .. Len(plan) - Len(plan) = {}
    BY <2>1
  <2> QED
    BY <1>1, <2>2 DEF Past
<1>5. Adds(r, {}, {}, {})
  BY QuietAdds DEF Begin
<1>6. /\ (Present(entities) /\ Present(observations) /\ Present(relations))'
      /\ \A s : Stays(s)
  BY <1>5, AddsStay
<1> QED
  BY <1>1, <1>3, <1>4, <1>6, DurableSteps

LEMMA DurableNext ==
    ASSUME PlanInv, Durable, NoRemovals, [Next]_vars
    PROVE  Durable'
<1>1. CASE UNCHANGED vars
  <2>1. ASSUME NEW r \in Requests PROVE (Past(req[r]) /\ Here(req[r], r))'
    <3>1. PICK q : q = req[r]
      OBVIOUS
    <3>2. Past(q) /\ Here(q, r)
      BY <3>1 DEF Durable
    <3>3. Adds(r, {}, {}, {})
      BY <1>1, QuietAdds DEF vars, tables
    <3>4. \A s : Stays(s)
      BY <3>3, AddsStay
    <3>5. Past(q)' /\ Here(q, r)'
      BY <3>2, <3>4, PastStays, HereStays
    <3> QED
      BY <1>1, <3>1, <3>5 DEF vars
  <2> QED
    BY <1>1, <2>1 DEF vars, Durable, Present
<1>2. ASSUME NEW r \in Requests, Step(r) \/ Abort(r) PROVE Durable'
  <2>1. CASE Fail(r)
    BY <1>2, <2>1, FailsRunning, DurableFails
  <2>2. CASE ~Fail(r)
    BY <1>2, <2>2, WhatRuns, DurableFindEntity, DurableInsertEntity,
       DurableInsertObservation, DurableInsertRelation, DurableOther, DurableCommits
  <2> QED
    BY <2>1, <2>2
<1>3. ASSUME NEW r \in Requests, NEW plan \in Plans, Begin(r, plan) PROVE Durable'
  BY <1>3, DurableBegins
<1> QED
  BY <1>1, <1>2, <1>3 DEF Next

LEMMA InitDurable == Init => Durable
<1> SUFFICES ASSUME Init PROVE Durable
  OBVIOUS
<1>1. Present(entities) /\ Present(observations) /\ Present(relations)
  BY DEF Init, Present
<1>2. \A r \in Requests : req[r].pc = "idle"
  BY DEF Init, Fresh
<1> QED
  BY <1>1, <1>2 DEF Durable, Past, Here, Ended

\* What a call stored is what its caller finds, once the request is done.
LEMMA DurableMeansStored ==
    ASSUME PlanInv, NoRemovals => Durable
    PROVE  DoneIsDurable
<1> SUFFICES ASSUME NoRemovals, NEW r \in Requests, req[r].pc = "done",
                    NEW c \in Asked(r), c.do = "items"
             PROVE  AllStored(c)
  BY DEF DoneIsDurable, NoRemovals
<1>1. PICK q : q = req[r]
  OBVIOUS
<1>2. Past(q) /\ PlanOf(q)
  BY <1>1 DEF Durable, PlanInv, Planned
<1>3. q.plan = << >> /\ q.asked \in Seq(Calls) /\ Len(q.plan) = 0
  <2>1. q.plan = << >> /\ Suffix(q.plan, q.asked)
    BY <1>1, <1>2 DEF PlanOf
  <2> QED
    BY <2>1, EmptySeq DEF Suffix
<1>4. PICK i \in 1 .. Len(q.asked) : c = q.asked[i]
  BY <1>1, <1>3, LenProperties DEF Asked, Range
<1>5. i \in 1 .. Len(q.asked) - Len(q.plan)
  BY <1>3, <1>4, LenProperties
<1>6. CallHeld(c, Nil)
  BY <1>1, <1>2, <1>4, <1>5 DEF Past
<1>7. \A project, name, content :
         Holds(project, name, content, Nil) => Stored(project, name, content)
  BY DEF Holds, Stored, Ents, Obs, Committed
<1>8. \A project, t : Links(project, t, Nil) => Related(project, t)
  BY DEF Links, Related, Ents, Rels, Committed
<1> QED
  BY <1>6, <1>7, <1>8 DEF CallHeld, ItemHeld, AllStored

LEMMA NoRemovalsBefore ==
    ASSUME PlanInv, [Next]_vars, NoRemovals'
    PROVE  NoRemovals
BY AskedStays DEF PlanInv, NoRemovals, Removes

\* A request that was answered without an error has stored what it was given,
\* whatever ran at the same time, as long as nobody asks for a removal.
THEOREM ResultsAreDurable == Spec => []DoneIsDurable
<1>1. Init => (NoRemovals => Durable)
  BY InitDurable
<1>2. PlanInv /\ (NoRemovals => Durable) /\ [Next]_vars => (NoRemovals => Durable)'
  BY DurableNext, NoRemovalsBefore
<1>3. PlanInv /\ (NoRemovals => Durable) => DoneIsDurable
  BY DurableMeansStored
<1> QED
  BY <1>1, <1>2, <1>3, PlanInvHolds, PTL DEF Spec

(* ---- Checkpoints -------------------------------------------------------- *)

\* A save that replaces, or has replaced, the checkpoint with the id it found.
Replacing(q) ==
    q.pc \notin Ended /\ Head(q.plan).do = "items" /\ Head(q.plan).replace

Holding(q) == Replacing(q) /\ q.pc \in {"insert_obs", "commit"}

SaveItem(q) == Head(q.plan).items[1]

Edits == {"observation_updated", "observation_deleted"}

\* r sees an edit of an observation of the entity in the trail.
EditedBy(id, r) ==
    \E h \in history : h.by \in {Nil, r} /\ h.entity = id /\ h.action \in Edits

\* Transaction r removes the entity.
Doomed(id, r) == \A e \in entities : e.id = id => e.by = Nil /\ e.gone = r

Absent(id) == \A e \in entities : e.id # id

\* Transaction r has written the content of v again.
Renewed(v, r) ==
    \E w \in observations : w.by = r /\ w.id = v.id /\ w.content = v.content

Kept(saves, id) == Edited(id) \/ Absent(id) \/ HoldsOne(saves, id, Contents(id))

\* What holds of every version of an entity ...
Owned(e) ==
    e.by # Nil => \/ NamedByHand(e.project, e.name)
                  \/ Holding(req[e.by]) /\ req[e.by].id = e.id

Spared(e) == e.gone # Nil => ~Replacing(req[e.gone])

WholeIn(e) ==
    e.by = Nil => \/ NamedByHand(e.project, e.name)
                  \/ Kept(SavesOf(e.project, e.name), e.id)

\* ... and of an observation: why it goes, and what replaces it.
Marked(v) ==
    v.gone # Nil => \/ Holding(req[v.gone]) /\ req[v.gone].id = v.entity
                    \/ Doomed(v.entity, v.gone)
                    \/ EditedBy(v.entity, v.gone)
                    \/ Renewed(v, v.gone)

Rewrites(w, v) ==
    w.by # Nil /\ v.by = Nil /\ w.id = v.id =>
       w.content = v.content \/ EditedBy(v.entity, w.by)

\* What holds of a request: a save works on the checkpoint of that name ...
NamesOf(q) ==
    Replacing(q) /\ q.pc \in {"snap_obs", "clear_obs", "insert_obs", "commit"} =>
       /\ InProject(q.id, Head(q.plan).project)
       /\ \A e \in entities : e.id = q.id =>
             e.name = SaveItem(q).name \/ NamedByHand(e.project, e.name)

Put(r, id, content) ==
    \E o \in observations : o.by = r /\ o.entity = id /\ o.content = content

\* ... and has put what is not to come into it;
ProgressOf(q, r) ==
    Holding(q) => \A content \in Range(SaveItem(q).obs) :
                     \/ q.pc = "insert_obs" /\ content \in Range(q.contents)
                     \/ Put(r, q.id, content)

\* it deletes observations of that entity only;
SnapOf(q) ==
    q.pc = "clear_obs" =>
       \A i \in q.snap : /\ i \in 1 .. nextID - 1
                         /\ \A o \in observations : o.id = i => o.entity = q.id

\* an edit knows the content it read, or the trail shows another edit;
ReadOf(q) ==
    q.pc = "write_obs" =>
       \A o \in observations : o.id = q.obs =>
          /\ o.entity = q.id
          /\ o.by = Nil => o.content = q.old \/ Edited(q.id)

\* a reader reads a whole checkpoint, or what was left when its result was cut
\* off.
ReaderOf(q) ==
    q.pc = "read_graph_obs" =>
       \/ q.id = Nil
       \/ /\ InProject(q.id, Head(q.plan).project)
          /\ \/ NamedByHand(Head(q.plan).project, Head(q.plan).name)
             \/ Kept(SavesIn(Head(q.plan).project), q.id)

SeenOf(q) ==
    q.pc = "commit" /\ Head(q.plan).do = "read_graph" =>
       \/ q.cut \/ q.id = Nil
       \/ q.seen = {} /\ InProject(q.id, Head(q.plan).project) /\ Absent(q.id)
       \/ NamedByHand(Head(q.plan).project, Head(q.plan).name) \/ Edited(q.id)
       \/ HoldsOne(SavesIn(Head(q.plan).project), q.id, q.seen)

Serves(q, r) ==
    /\ NamesOf(q) /\ ProgressOf(q, r) /\ SnapOf(q) /\ ReadOf(q)
    /\ ReaderOf(q) /\ SeenOf(q)

SaveInv ==
    /\ \A e \in entities : Owned(e) /\ Spared(e) /\ WholeIn(e)
    /\ \A v \in observations : Marked(v)
    /\ \A w, v \in observations : Rewrites(w, v)
    /\ \A r \in Requests : Serves(req[r], r)

\* What the requests were asked for stays.
LEMMA SaveIsAsked ==
    ASSUME NEW r, IsSave(r)
    PROVE  req[r].asked # << >>
<1>1. PICK asked : asked = req[r].asked
  OBVIOUS
<1>2. Len(asked) = 4
  BY <1>1 DEF IsSave, IsSavePlan
<1>3. Len(<< >>) = 0
  OBVIOUS
<1> QED
  BY <1>1, <1>2, <1>3

LEMMA SavesGrow ==
    ASSUME PlanInv, [Next]_vars
    PROVE  /\ \A r \in Requests : IsSave(r) =>
                 IsSave(r)' /\ SavedContents(r)' = SavedContents(r)
           /\ \A project : SavesIn(project) \subseteq SavesIn(project)'
           /\ \A project, name : SavesOf(project, name) \subseteq SavesOf(project, name)'
<1>1. \A r \in Requests : IsSave(r) => req'[r].asked = req[r].asked
  BY SaveIsAsked, AskedStays DEF PlanInv
<1>2. \A r \in Requests : IsSave(r) =>
         IsSave(r)' /\ SavedContents(r)' = SavedContents(r)
  BY <1>1 DEF IsSave, SavedContents
<1>3. \A project : SavesIn(project) \subseteq SavesIn(project)'
  BY <1>1, <1>2 DEF SavesIn
<1>4. ASSUME NEW project, NEW name, NEW r \in SavesOf(project, name)
      PROVE  r \in SavesOf(project, name)'
  <2>1. r \in Requests /\ IsSave(r) /\ r \in SavesIn(project)
    BY DEF SavesOf, SavesIn
  <2>2. r \in SavesIn(project)' /\ req'[r].asked = req[r].asked
    BY <1>1, <1>3, <2>1
  <2> QED
    BY <2>2 DEF SavesOf
<1> QED
  BY <1>2, <1>3, <1>4

LEMMA HandStays ==
    ASSUME PlanInv, [Next]_vars, NEW project, NEW name, NamedByHand(project, name)
    PROVE  NamedByHand(project, name)'
BY AskedStays DEF PlanInv, NamedByHand

LEMMA HoldsOneGrows ==
    ASSUME PlanInv, [Next]_vars, NEW saves, \A r \in saves : r \in Requests /\ IsSave(r),
           NEW more, saves \subseteq more, NEW id, NEW S, NEW T, S \subseteq T,
           HoldsOne(saves, id, S)
    PROVE  HoldsOne(more, id, T)'
<1>1. \A r \in saves : SavedContents(r)' = SavedContents(r)
  BY SavesGrow
<1> QED
  BY <1>1 DEF HoldsOne, SeedContents

LEMMA SavesInHold ==
    ASSUME PlanInv, [Next]_vars, NEW project, NEW id, NEW S, NEW T, S \subseteq T,
           HoldsOne(SavesIn(project), id, S)
    PROVE  HoldsOne(SavesIn(project), id, T)'
<1>1. PICK saves, more : saves = SavesIn(project) /\ more = SavesIn(project)'
  OBVIOUS
<1>2. saves \subseteq more /\ \A r \in saves : r \in Requests /\ IsSave(r)
  BY <1>1, SavesGrow DEF SavesIn
<1>3. HoldsOne(more, id, T)'
  BY <1>1, <1>2, HoldsOneGrows
<1> QED
  BY <1>1, <1>3 DEF HoldsOne

LEMMA SavesOfHold ==
    ASSUME PlanInv, [Next]_vars, NEW project, NEW name, NEW id, NEW S, NEW T,
           S \subseteq T, HoldsOne(SavesOf(project, name), id, S)
    PROVE  HoldsOne(SavesOf(project, name), id, T)'
<1>1. PICK saves, more : saves = SavesOf(project, name) /\ more = SavesOf(project, name)'
  OBVIOUS
<1>2. saves \subseteq more /\ \A r \in saves : r \in Requests /\ IsSave(r)
  <2>1. saves \subseteq more
    BY <1>1, SavesGrow
  <2> QED
    BY <1>1, <2>1 DEF SavesOf, SavesIn
<1>3. HoldsOne(more, id, T)'
  BY <1>1, <1>2, HoldsOneGrows
<1> QED
  BY <1>1, <1>3 DEF HoldsOne

\* A save of that project puts all its contents under the id.
Brings(r, id) ==
    /\ IsSave(r) /\ InProject(id, req[r].asked[1].project)
    /\ \A e \in entities : e.id = id =>
          e.name = req[r].asked[1].items[1].name \/ NamedByHand(e.project, e.name)
    /\ SavedContents(r) \subseteq Contents(id)'

\* How a step of r changes the graph that the others work on.
EntFrom(r, x) ==
    \/ \E v \in entities : /\ x.id = v.id /\ x.project = v.project /\ x.name = v.name
                           /\ \/ x.by = v.by
                              \/ /\ x.by = Nil /\ v.by = r
                                 /\ NamedByHand(v.project, v.name) \/ Brings(r, v.id)
    \/ /\ x.by = r
       /\ \/ x.id = nextID
          \/ /\ NamedByHand(x.project, x.name)'
             /\ \E v \in entities : v.id = x.id /\ v.project = x.project

ObFrom(r, x) ==
    \/ \E v \in observations :
          /\ x.id = v.id /\ x.entity = v.entity /\ x.content = v.content
          /\ \/ x.by = v.by
             \/ /\ x.by = Nil /\ v.by = r
                /\ \A id : EditedBy(id, r) => Edited(id)'
    \/ /\ x.by = r
       /\ x.id = nextID \/ \E v \in observations : v.id = x.id /\ v.entity = x.entity

ObKept(r, v) ==
    v.by \notin {Nil, r} => \E x \in observations' :
       x.by = v.by /\ x.id = v.id /\ x.entity = v.entity /\ x.content = v.content

\* What becomes of the committed contents of an entity.
Passing(r, id) ==
    \/ Contents(id) \subseteq Contents(id)'
    \/ Brings(r, id)
    \/ Absent(id)'
    \/ Edited(id)'

Frame(r) ==
    /\ nextID \in Nat /\ nextID' \in Nat /\ nextID' >= nextID
    /\ \A x \in entities' : EntFrom(r, x)
    /\ \A x \in observations' : ObFrom(r, x)
    /\ \A v \in observations : ObKept(r, v)
    /\ \A id : /\ Edited(id) => Edited(id)'
               /\ \A s \in Requests : s # r /\ EditedBy(id, s) => EditedBy(id, s)'
    /\ \A id : Passing(r, id)

LEMMA OlderIds ==
    ASSUME NEW r, Frame(r), NEW i \in 1 .. nextID - 1
    PROVE  i \in 1 .. nextID' - 1 /\ i # nextID
<1>1. PICK m, n : m = nextID /\ n = nextID' /\ m \in Nat /\ n \in Nat /\ n >= m
  BY DEF Frame
<1>2. i \in 1 .. m - 1
  BY <1>1
<1>3. i \in 1 .. n - 1
  BY <1>1, <1>2, Widen
<1>4. i # m
  BY <1>1, <1>2
<1> QED
  BY <1>1, <1>3, <1>4

LEMMA InProjectKept ==
    ASSUME NEW r, Frame(r), NEW id, NEW project, InProject(id, project)
    PROVE  InProject(id, project)'
<1>1. id \in 1 .. nextID - 1
  BY DEF InProject
<1>2. id \in 1 .. nextID' - 1 /\ id # nextID
  BY <1>1, OlderIds
<1>3. ASSUME NEW x \in entities', x.id = id PROVE x.project = project
  <2>1. EntFrom(r, x)
    BY DEF Frame
  <2> QED
    BY <1>2, <1>3, <2>1 DEF EntFrom, InProject
<1> QED
  BY <1>2, <1>3 DEF InProject

LEMMA AbsentStays ==
    ASSUME NEW r, Frame(r), NEW id, id \in 1 .. nextID - 1, Absent(id)
    PROVE  Absent(id)'
<1>1. id # nextID
  BY DEF Frame
<1> QED
  BY <1>1 DEF Frame, EntFrom, Absent

LEMMA NamesStay ==
    ASSUME PlanInv, [Next]_vars, NEW r \in Requests, Frame(r), NEW q, NamesOf(q)
    PROVE  NamesOf(q)'
<1> SUFFICES ASSUME Replacing(q),
                    q.pc \in {"snap_obs", "clear_obs", "insert_obs", "commit"}
             PROVE  /\ InProject(q.id, Head(q.plan).project)'
                    /\ \A x \in entities' : x.id = q.id =>
                          \/ x.name = SaveItem(q).name
                          \/ NamedByHand(x.project, x.name)'
  BY DEF NamesOf, Replacing, SaveItem
<1>1. InProject(q.id, Head(q.plan).project)
  BY DEF NamesOf
<1>2. InProject(q.id, Head(q.plan).project)'
  BY <1>1, InProjectKept
<1>3. q.id # nextID
  BY <1>1 DEF InProject, Frame
<1>4. ASSUME NEW x \in entities', x.id = q.id
      PROVE  x.name = SaveItem(q).name \/ NamedByHand(x.project, x.name)'
  <2>1. EntFrom(r, x)
    BY DEF Frame
  <2>2. CASE \E v \in entities : x.id = v.id /\ x.project = v.project /\ x.name = v.name
    <3>1. PICK v \in entities :
             x.id = v.id /\ x.project = v.project /\ x.name = v.name
      BY <2>2
    <3>2. v.name = SaveItem(q).name \/ NamedByHand(v.project, v.name)
      BY <1>4, <3>1 DEF NamesOf
    <3>3. PICK project, name : project = v.project /\ name = v.name
      OBVIOUS
    <3>4. NamedByHand(project, name) => NamedByHand(project, name)'
      BY HandStays
    <3>5. CASE v.name = SaveItem(q).name
      BY <3>1, <3>5
    <3>6. CASE NamedByHand(project, name)
      <4>1. NamedByHand(project, name)' /\ project = x.project /\ name = x.name
        BY <3>1, <3>3, <3>4, <3>6
      <4> QED
        BY <4>1
    <3> QED
      BY <3>2, <3>3, <3>5, <3>6
  <2> QED
    BY <1>3, <1>4, <2>1, <2>2 DEF EntFrom
<1> QED
  BY <1>2, <1>4

LEMMA PutStays ==
    ASSUME NEW r, Frame(r), NEW s \in Requests, s # r, NEW id, NEW content,
           Put(s, id, content)
    PROVE  Put(s, id, content)'
BY PlanAssumption DEF Put, Frame, ObKept, PlanAssumption

LEMMA ProgressStays ==
    ASSUME NEW r, Frame(r), NEW s \in Requests, s # r, NEW q, ProgressOf(q, s)
    PROVE  ProgressOf(q, s)'
BY PutStays DEF ProgressOf, Holding, Replacing, SaveItem

LEMMA SnapStays ==
    ASSUME NEW r, Frame(r), NEW q, SnapOf(q)
    PROVE  SnapOf(q)'
<1> SUFFICES ASSUME q.pc = "clear_obs", NEW i \in q.snap
             PROVE  /\ i \in 1 .. nextID' - 1
                    /\ \A x \in observations' : x.id = i => x.entity = q.id
  BY DEF SnapOf
<1>1. i \in 1 .. nextID - 1 /\ \A o \in observations : o.id = i => o.entity = q.id
  BY DEF SnapOf
<1>2. i \in 1 .. nextID' - 1 /\ i # nextID
  BY <1>1, OlderIds
<1> QED
  BY <1>1, <1>2 DEF Frame, ObFrom

\* Whole checkpoints stay whole.
LEMMA KeptInStays ==
    ASSUME PlanInv, [Next]_vars, NEW r \in Requests, Frame(r), NEW id, NEW project,
           InProject(id, project), Kept(SavesIn(project), id)
    PROVE  Kept(SavesIn(project), id)'
<1>1. CASE Edited(id)
  BY <1>1 DEF Frame, Kept
<1>2. CASE Absent(id)
  BY <1>2, AbsentStays DEF InProject, Kept
<1>3. CASE HoldsOne(SavesIn(project), id, Contents(id)) /\ ~Absent(id)
  <2>1. Passing(r, id)
    BY DEF Frame
  <2>2. CASE Contents(id) \subseteq Contents(id)'
    <3>1. PICK S, T : S = Contents(id) /\ T = Contents(id)'
      OBVIOUS
    <3>2. HoldsOne(SavesIn(project), id, T)'
      BY <1>3, <2>2, <3>1, SavesInHold
    <3> QED
      BY <3>1, <3>2 DEF Kept, HoldsOne
  <2>3. CASE Brings(r, id)
    <3>1. PICK e \in entities : e.id = id
      BY <1>3 DEF Absent
    <3>2. req[r].asked[1].project = project /\ IsSave(r)
      BY <2>3, <3>1 DEF Brings, InProject
    <3>3. r \in SavesIn(project)'
      BY <3>2, SavesGrow DEF SavesIn
    <3>4. SavedContents(r)' \subseteq Contents(id)'
      BY <2>3, <3>2, SavesGrow DEF Brings
    <3> QED
      BY <3>3, <3>4 DEF Kept, HoldsOne
  <2> QED
    BY <2>1, <2>2, <2>3 DEF Passing, Kept
<1> QED
  BY <1>1, <1>2, <1>3 DEF Kept

LEMMA ReaderStays ==
    ASSUME PlanInv, [Next]_vars, NEW r \in Requests, Frame(r), NEW q, ReaderOf(q)
    PROVE  ReaderOf(q)'
<1> SUFFICES ASSUME q.pc = "read_graph_obs", q.id # Nil
             PROVE  /\ InProject(q.id, Head(q.plan).project)'
                    /\ \/ NamedByHand(Head(q.plan).project, Head(q.plan).name)'
                       \/ Kept(SavesIn(Head(q.plan).project), q.id)'
  BY DEF ReaderOf
<1>1. PICK id, project, name : id = q.id /\ project = Head(q.plan).project
                               /\ name = Head(q.plan).name
  OBVIOUS
<1>2. /\ InProject(id, project)
      /\ NamedByHand(project, name) \/ Kept(SavesIn(project), id)
  BY <1>1 DEF ReaderOf
<1>3. /\ InProject(id, project)'
      /\ NamedByHand(project, name)' \/ Kept(SavesIn(project), id)'
  BY <1>2, InProjectKept, HandStays, KeptInStays
<1> QED
  BY <1>1, <1>3

LEMMA SeenStays ==
    ASSUME PlanInv, [Next]_vars, NEW r \in Requests, Frame(r), NEW q, SeenOf(q)
    PROVE  SeenOf(q)'
<1> SUFFICES ASSUME q.pc = "commit", Head(q.plan).do = "read_graph",
                    ~q.cut, q.id # Nil
             PROVE  \/ /\ q.seen = {}
                       /\ InProject(q.id, Head(q.plan).project)' /\ Absent(q.id)'
                    \/ NamedByHand(Head(q.plan).project, Head(q.plan).name)'
                    \/ Edited(q.id)'
                    \/ HoldsOne(SavesIn(Head(q.plan).project), q.id, q.seen)'
  BY DEF SeenOf
<1>1. PICK id, project, name, seen :
         id = q.id /\ project = Head(q.plan).project
         /\ name = Head(q.plan).name /\ seen = q.seen
  OBVIOUS
<1>2. \/ seen = {} /\ InProject(id, project) /\ Absent(id)
      \/ NamedByHand(project, name) \/ Edited(id)
      \/ HoldsOne(SavesIn(project), id, seen)
  BY <1>1 DEF SeenOf
<1>3. InProject(id, project) /\ Absent(id) => InProject(id, project)' /\ Absent(id)'
  <2>1. InProject(id, project) => id \in 1 .. nextID - 1
    BY DEF InProject
  <2> QED
    BY <2>1, InProjectKept, AbsentStays
<1>4. \/ seen = {} /\ InProject(id, project)' /\ Absent(id)'
      \/ NamedByHand(project, name)' \/ Edited(id)'
      \/ HoldsOne(SavesIn(project), id, seen)'
  BY <1>2, <1>3, HandStays, SavesInHold DEF Frame
<1> QED
  BY <1>1, <1>4

\* What a save brings makes the checkpoint of that name whole.
LEMMA BroughtIsWhole ==
    ASSUME PlanInv, [Next]_vars, NEW r \in Requests, NEW e \in entities,
           Brings(r, e.id), NEW project, NEW name, project = e.project, name = e.name
    PROVE  NamedByHand(project, name)' \/ Kept(SavesOf(project, name), e.id)'
<1>1. PICK id : id = e.id
  OBVIOUS
<1>2. /\ IsSave(r) /\ req[r].asked[1].project = project
      /\ req[r].asked[1].items[1].name = name \/ NamedByHand(project, name)
      /\ SavedContents(r) \subseteq Contents(id)'
  BY <1>1 DEF Brings, InProject
<1>3. CASE NamedByHand(project, name)
  BY <1>3, HandStays
<1>4. CASE req[r].asked[1].items[1].name = name
  <2>1. r \in SavesOf(project, name)
    BY <1>2, <1>4 DEF SavesOf, SavesIn
  <2>2. r \in SavesOf(project, name)' /\ SavedContents(r)' = SavedContents(r)
    BY <1>2, <2>1, SavesGrow
  <2>3. HoldsOne(SavesOf(project, name), id, Contents(id))'
    BY <1>2, <2>2 DEF HoldsOne
  <2>4. Kept(SavesOf(project, name), id)'
    BY <2>3 DEF Kept
  <2> QED
    BY <1>1, <2>4
<1> QED
  BY <1>2, <1>3, <1>4

LEMMA KeptOfStays ==
    ASSUME PlanInv, [Next]_vars, NEW r \in Requests, Frame(r), NEW e \in entities,
           NEW project, NEW name, project = e.project, name = e.name,
           e.id \in 1 .. nextID - 1, NEW id, id = e.id, Kept(SavesOf(project, name), id)
    PROVE  NamedByHand(project, name)' \/ Kept(SavesOf(project, name), id)'
<1>1. CASE Edited(id)
  BY <1>1 DEF Frame, Kept
<1>2. CASE HoldsOne(SavesOf(project, name), id, Contents(id))
  <2>1. Passing(r, id)
    BY DEF Frame
  <2>2. CASE Contents(id) \subseteq Contents(id)'
    <3>1. PICK S, T : S = Contents(id) /\ T = Contents(id)'
      OBVIOUS
    <3>2. HoldsOne(SavesOf(project, name), id, T)'
      BY <1>2, <2>2, <3>1, SavesOfHold
    <3> QED
      BY <3>1, <3>2 DEF Kept, HoldsOne
  <2>3. CASE Brings(r, id)
    BY <2>3, BroughtIsWhole
  <2> QED
    BY <2>1, <2>2, <2>3 DEF Passing, Kept
<1> QED
  BY <1>1, <1>2 DEF Kept, Absent

LEMMA WholeStays ==
    ASSUME PlanInv, [Next]_vars, NEW r \in Requests, Frame(r),
           \A e \in entities : WholeIn(e)
    PROVE  \A x \in entities' : WholeIn(x)'
<1> SUFFICES ASSUME NEW x \in entities', x.by = Nil
             PROVE  \/ NamedByHand(x.project, x.name)'
                    \/ Kept(SavesOf(x.project, x.name), x.id)'
  BY DEF WholeIn
<1>1. x.by # r
  BY PlanAssumption
<1>2. EntFrom(r, x)
  BY DEF Frame
<1>3. PICK e \in entities :
         /\ x.id = e.id /\ x.project = e.project /\ x.name = e.name
         /\ \/ x.by = e.by
            \/ /\ x.by = Nil /\ e.by = r
               /\ NamedByHand(e.project, e.name) \/ Brings(r, e.id)
  BY <1>1, <1>2 DEF EntFrom
<1>4. PICK id, project, name : id = e.id /\ project = e.project /\ name = e.name
  OBVIOUS
<1>5. e.id \in 1 .. nextID - 1
  BY DEF PlanInv, Inv, Tables, Numbered
<1>6. NamedByHand(project, name)' \/ Kept(SavesOf(project, name), id)'
  <2>1. CASE NamedByHand(project, name)
    BY <2>1, HandStays
  <2>2. CASE Brings(r, e.id)
    BY <1>4, <2>2, BroughtIsWhole
  <2>3. CASE e.by = Nil
    <3>1. NamedByHand(project, name) \/ Kept(SavesOf(project, name), id)
      BY <1>4, <2>3 DEF WholeIn
    <3> QED
      BY <1>4, <1>5, <2>1, <3>1, KeptOfStays
  <2> QED
    BY <1>3, <1>4, <2>1, <2>2, <2>3
<1> QED
  BY <1>3, <1>4, <1>6

LEMMA ReadStays ==
    ASSUME PlanInv, NEW r \in Requests, Frame(r), \A w, v \in observations : Rewrites(w, v),
           NEW q, ReadOf(q),
           q.pc = "write_obs" => q.obs \in 1 .. nextID - 1 /\ Known(observations, q.obs)
    PROVE  ReadOf(q)'
<1> SUFFICES ASSUME q.pc = "write_obs", NEW x \in observations', x.id = q.obs
             PROVE  /\ x.entity = q.id
                    /\ x.by = Nil => x.content = q.old \/ Edited(q.id)'
  BY DEF ReadOf
<1>1. ObFrom(r, x)
  BY DEF Frame
<1>2. x.id # nextID
  BY OlderIds
<1>3. PICK v \in observations : v.id = x.id /\ v.entity = x.entity
  BY <1>1, <1>2 DEF ObFrom
<1>4. x.entity = q.id
  BY <1>3 DEF ReadOf
<1>5. ASSUME x.by = Nil PROVE x.content = q.old \/ Edited(q.id)'
  <2>1. x.by # r
    BY <1>5, PlanAssumption
  <2>2. PICK o \in observations :
           /\ x.id = o.id /\ x.entity = o.entity /\ x.content = o.content
           /\ \/ x.by = o.by
              \/ x.by = Nil /\ o.by = r /\ \A id : EditedBy(id, r) => Edited(id)'
    BY <1>1, <2>1 DEF ObFrom
  <2>3. Edited(q.id) => Edited(q.id)'
    BY DEF Frame
  <2>4. CASE o.by = Nil
    BY <2>2, <2>3, <2>4 DEF ReadOf
  <2>5. CASE o.by = r /\ \A id : EditedBy(id, r) => Edited(id)'
    <3>1. PICK w \in observations : w.id = q.obs /\ w.by = Nil
      BY <2>2 DEF Known
    <3>2. w.entity = q.id /\ (w.content = q.old \/ Edited(q.id))
      BY <3>1 DEF ReadOf
    <3>3. Rewrites(o, w) /\ o.by # Nil
      BY <2>5, PlanAssumption
    <3>4. o.content = w.content \/ EditedBy(w.entity, r)
      BY <2>2, <2>5, <3>1, <3>3 DEF Rewrites
    <3> QED
      BY <2>2, <2>3, <2>5, <3>2, <3>4
  <2> QED
    BY <1>5, <2>2, <2>4, <2>5
<1> QED
  BY <1>4, <1>5

LEMMA ServesStays ==
    ASSUME PlanInv, [Next]_vars, NEW r \in Requests, Frame(r),
           \A w, v \in observations : Rewrites(w, v),
           NEW s \in Requests, s # r, req'[s] = req[s], Serves(req[s], s)
    PROVE  Serves(req[s], s)'
<1>1. PICK q : q = req[s]
  OBVIOUS
<1>2. /\ NamesOf(q) /\ ProgressOf(q, s) /\ SnapOf(q) /\ ReadOf(q)
      /\ ReaderOf(q) /\ SeenOf(q)
  BY <1>1 DEF Serves
<1>3. q.pc = "write_obs" => q.obs \in 1 .. nextID - 1 /\ Known(observations, q.obs)
  BY <1>1 DEF PlanInv, Inv, Requested, Local
<1>4. NamesOf(q)'
  BY <1>2, NamesStay
<1>5. ProgressOf(q, s)'
  BY <1>2, ProgressStays
<1>6. SnapOf(q)' /\ ReadOf(q)'
  BY <1>2, <1>3, SnapStays, ReadStays
<1>7. ReaderOf(q)' /\ SeenOf(q)'
  BY <1>2, ReaderStays, SeenStays
<1>8. Serves(q, s)'
  BY <1>4, <1>5, <1>6, <1>7 DEF Serves
<1> QED
  BY <1>1, <1>8

\* Every statement changes the graph in that way.
Founded(r, VE, NE, VO, NO) ==
    /\ nextID' \in Nat /\ nextID' >= nextID
    /\ \A n \in NE : \/ n.id = nextID
                     \/ /\ NamedByHand(n.project, n.name)'
                        /\ \E v \in VE : v.id = n.id /\ v.project = n.project
    /\ \A n \in NO : n.id = nextID \/ \E v \in VO : v.id = n.id /\ v.entity = n.entity

LEMMA WritesFrame ==
    ASSUME PlanInv, NEW r \in Requests,
           NEW VE, NEW NE, NEW VO, NEW NO, NEW VR, NEW NR, NEW NH,
           Writes(r, VE, NE, VO, NO, VR, NR, NH), Founded(r, VE, NE, VO, NO)
    PROVE  Frame(r)
<1>1. /\ nextID \in Nat /\ Rows(entities, EntityColumns)
      /\ Rows(observations, ObservationColumns)
  BY DEF PlanInv, Inv, Tables
<1>2. /\ VE \subseteq entities /\ \A n \in NE : n.by = r
      /\ VO \subseteq observations /\ \A n \in NO : n.by = r
      /\ history \subseteq history'
  BY DEF Writes, Wrote
<1>3. \A x \in entities' :
         x \in NE \/ \E v : After(entities, VE, r, EntityColumns, v, x)
  BY <1>1, WroteRows, ColumnsOfTables DEF Writes
<1>4. \A x \in observations' :
         x \in NO \/ \E v : After(observations, VO, r, ObservationColumns, v, x)
  BY <1>1, WroteRows, ColumnsOfTables DEF Writes
<1>5. \A v \in observations : \E x \in observations' :
         After(observations, VO, r, ObservationColumns, v, x)
  BY <1>1, WroteRows, ColumnsOfTables DEF Writes
<1>6. \A x \in entities' : EntFrom(r, x)
  BY <1>2, <1>3 DEF EntFrom, After, SameOn, EntityColumns, Founded
<1>7. \A x \in observations' : ObFrom(r, x)
  <2> SUFFICES ASSUME NEW x \in observations' PROVE ObFrom(r, x)
    OBVIOUS
  <2>1. CASE x \in NO
    BY <1>2, <2>1 DEF ObFrom, Founded
  <2>2. CASE \E v : After(observations, VO, r, ObservationColumns, v, x)
    BY <2>2 DEF ObFrom, After, SameOn, ObservationColumns
  <2> QED
    BY <1>4, <2>1, <2>2
<1>8. \A v \in observations : ObKept(r, v)
  BY <1>5 DEF ObKept, After, SameOn, ObservationColumns
<1>9. \A id : /\ Edited(id) => Edited(id)'
              /\ \A s \in Requests : s # r /\ EditedBy(id, s) => EditedBy(id, s)'
  BY <1>2 DEF Edited, EditedBy, Trail, Committed
<1>10. ASSUME NEW id PROVE Contents(id) \subseteq Contents(id)'
  BY <1>5 DEF Contents, Obs, Committed, After, SameOn, ObservationColumns
<1> QED
  BY <1>1, <1>6, <1>7, <1>8, <1>9, <1>10 DEF Frame, Passing, Founded

LEMMA FailFrame ==
    ASSUME PlanInv, NEW r \in Requests, Fail(r)
    PROVE  Frame(r)
<1>1. /\ nextID \in Nat /\ nextID' = nextID
      /\ Rows(entities, EntityColumns) /\ entities' = Rollback(entities, r)
      /\ Rows(observations, ObservationColumns)
      /\ observations' = Rollback(observations, r)
      /\ Rows(history, EntryColumns) /\ history' = Rollback(history, r)
  BY DEF PlanInv, Inv, Tables, Fail, UndoHistory
<1>2. \A x \in entities' : \E v \in entities : RollingBack(v, x, r, EntityColumns)
  BY <1>1, InRollback, ColumnsOfTables
<1>3. \A x \in observations' :
         \E v \in observations : RollingBack(v, x, r, ObservationColumns)
  BY <1>1, InRollback, ColumnsOfTables
<1>4. \A v \in observations : v.by # r =>
         \E x \in observations' : RollingBack(v, x, r, ObservationColumns)
  BY <1>1, OfRollback, ColumnsOfTables
<1>5. \A h \in history : h.by # r =>
         \E x \in history' : RollingBack(h, x, r, EntryColumns)
  BY <1>1, OfRollback, ColumnsOfTables
<1>6. \A x \in entities' : EntFrom(r, x)
  BY <1>2 DEF EntFrom, RollingBack, EntityColumns
<1>7. \A x \in observations' : ObFrom(r, x)
  BY <1>3 DEF ObFrom, RollingBack, ObservationColumns
<1>8. \A v \in observations : ObKept(r, v)
  BY <1>4 DEF ObKept, RollingBack, ObservationColumns
<1>9. ASSUME NEW id PROVE Edited(id) => Edited(id)'
  BY <1>5, PlanAssumption DEF Edited, Trail, Committed, RollingBack, EntryColumns
<1>10. ASSUME NEW id, NEW s \in Requests, s # r, EditedBy(id, s)
       PROVE  EditedBy(id, s)'
  BY <1>5, <1>10, PlanAssumption DEF EditedBy, RollingBack, EntryColumns
<1>11. ASSUME NEW id PROVE Contents(id) \subseteq Contents(id)'
  BY <1>4, PlanAssumption
     DEF Contents, Obs, Committed, RollingBack, ObservationColumns
<1> QED
  BY <1>1, <1>6, <1>7, <1>8, <1>9, <1>10, <1>11 DEF Frame, Passing

\* A save that commits brings what it was asked to save.
LEMMA CommitBrings ==
    ASSUME PlanInv, SaveInv, NEW r \in Requests, CommitTx(r), NEW id,
           Holding(req[r]), req[r].id = id
    PROVE  Brings(r, id)
<1>1. PICK q : q = req[r]
  OBVIOUS
<1>2. q.pc = "commit" /\ Replacing(q) /\ PlanOf(q)
  BY <1>1 DEF CommitTx, Holding, PlanInv, Planned
<1>3. PICK asked : asked = q.asked /\ asked \in Plans /\ Suffix(q.plan, asked)
                   /\ q.plan # << >>
  BY <1>2 DEF PlanOf, Replacing, Ended
<1>4. IsSavePlan(asked) /\ Head(q.plan) = asked[1]
  BY <1>2, <1>3, ReplacesFirst DEF Replacing
<1>5. NamesOf(q) /\ ProgressOf(q, r)
  BY <1>1 DEF SaveInv, Serves
<1>6. /\ InProject(id, asked[1].project)
      /\ \A e \in entities : e.id = id =>
            e.name = asked[1].items[1].name \/ NamedByHand(e.project, e.name)
  BY <1>1, <1>2, <1>4, <1>5 DEF NamesOf, SaveItem
<1>7. \A content \in Range(asked[1].items[1].obs) : Put(r, id, content)
  BY <1>1, <1>2, <1>4, <1>5 DEF ProgressOf, Holding, SaveItem
<1>8. \A o \in observations : o.by = r =>
         \E x \in observations' : Committing(o, x, r, ObservationColumns)
  <2>1. Rows(observations, ObservationColumns)
    BY DEF PlanInv, Inv, Tables
  <2>2. \A o \in observations : o.by = r => o.gone # r
    BY <2>1, PlanAssumption DEF Rows
  <2> QED
    BY <2>1, <2>2, OfCommit, ColumnsOfTables DEF CommitTx
<1>9. \A content \in Range(asked[1].items[1].obs) : content \in Contents(id)'
  <2> SUFFICES ASSUME NEW content \in Range(asked[1].items[1].obs)
               PROVE  content \in Contents(id)'
    OBVIOUS
  <2>1. PICK o \in observations : o.by = r /\ o.entity = id /\ o.content = content
    BY <1>7 DEF Put
  <2>2. PICK x \in observations' : Committing(o, x, r, ObservationColumns)
    BY <1>8, <2>1
  <2>3. x.by = Nil /\ x.entity = id /\ x.content = content
    BY <2>1, <2>2 DEF Committing, ObservationColumns
  <2> QED
    BY <2>3 DEF Contents, Obs, Committed
<1>10. IsSave(r) /\ SavedContents(r) = Range(asked[1].items[1].obs)
  BY <1>1, <1>3, <1>4 DEF IsSave, SavedContents
<1> QED
  BY <1>1, <1>3, <1>6, <1>9, <1>10 DEF Brings

LEMMA CommitPassing ==
    ASSUME PlanInv, SaveInv, NEW r \in Requests, CommitTx(r), NEW id,
           EditedBy(id, r) => Edited(id)'
    PROVE  Passing(r, id)
<1>1. /\ Rows(entities, EntityColumns) /\ entities' = Commit(entities, r)
      /\ Rows(observations, ObservationColumns)
      /\ observations' = Commit(observations, r)
  BY DEF PlanInv, Inv, Tables, CommitTx
<1>2. \A v \in observations : v.gone # r =>
         \E x \in observations' : Committing(v, x, r, ObservationColumns)
  BY <1>1, OfCommit, ColumnsOfTables
<1>3. \A x \in entities' : \E v \in entities : Committing(v, x, r, EntityColumns)
  BY <1>1, InCommit, ColumnsOfTables
<1> SUFFICES ASSUME NEW content \in Contents(id), content \notin Contents(id)'
             PROVE  Brings(r, id) \/ Absent(id)' \/ Edited(id)'
  BY DEF Passing
<1>4. PICK v \in observations : v.by = Nil /\ v.entity = id /\ v.content = content
  BY DEF Contents, Obs, Committed
<1>5. v.gone = r
  <2> SUFFICES ASSUME v.gone # r PROVE FALSE
    OBVIOUS
  <2>1. PICK x \in observations' : Committing(v, x, r, ObservationColumns)
    BY <1>2
  <2>2. x.by = Nil /\ x.entity = id /\ x.content = content
    BY <1>4, <2>1 DEF Committing, ObservationColumns
  <2> QED
    BY <2>2 DEF Contents, Obs, Committed
<1>6. \/ Holding(req[r]) /\ req[r].id = id
      \/ Doomed(id, r)
      \/ EditedBy(id, r)
      \/ Renewed(v, r)
  BY <1>4, <1>5, PlanAssumption DEF SaveInv, Marked
<1>7. CASE Holding(req[r]) /\ req[r].id = id
  BY <1>7, CommitBrings
<1>8. CASE Doomed(id, r)
  BY <1>3, <1>8 DEF Doomed, Absent, Committing, EntityColumns
<1>9. CASE Renewed(v, r)
  <2>1. PICK w \in observations : w.by = r /\ w.id = v.id /\ w.content = v.content
    BY <1>9 DEF Renewed
  <2>2. w.gone # r
    BY <1>1, <2>1, PlanAssumption DEF Rows
  <2>3. w.entity = v.entity
    BY <2>1 DEF PlanInv, Inv, Keys, Fixed
  <2>4. PICK x \in observations' : Committing(w, x, r, ObservationColumns)
    BY <1>2, <2>2
  <2>5. x.by = Nil /\ x.entity = id /\ x.content = content
    BY <1>4, <2>1, <2>3, <2>4 DEF Committing, ObservationColumns
  <2> QED
    BY <2>5 DEF Contents, Obs, Committed
<1> QED
  BY <1>6, <1>7, <1>8, <1>9

LEMMA CommitFrame ==
    ASSUME PlanInv, Audit, SaveInv, NEW r \in Requests, CommitTx(r)
    PROVE  Frame(r)
<1>1. /\ nextID \in Nat /\ nextID' = nextID
      /\ Rows(entities, EntityColumns) /\ entities' = Commit(entities, r)
      /\ Rows(observations, ObservationColumns)
      /\ observations' = Commit(observations, r)
      /\ Rows(history, EntryColumns) /\ history' = Commit(history, r)
  BY DEF PlanInv, Inv, Tables, CommitTx
<1>2. \A x \in entities' : \E v \in entities : Committing(v, x, r, EntityColumns)
  BY <1>1, InCommit, ColumnsOfTables
<1>3. \A x \in observations' :
         \E v \in observations : Committing(v, x, r, ObservationColumns)
  BY <1>1, InCommit, ColumnsOfTables
<1>4. \A v \in observations : v.gone # r =>
         \E x \in observations' : Committing(v, x, r, ObservationColumns)
  BY <1>1, OfCommit, ColumnsOfTables
<1>5. \A h \in history : \E x \in history' : Committing(h, x, r, EntryColumns)
  <2>1. \A h \in history : h.gone # r
    BY PlanAssumption DEF Audit
  <2> QED
    BY <1>1, <2>1, OfCommit, ColumnsOfTables
<1>6. \A id : EditedBy(id, r) \/ Edited(id) => Edited(id)'
  BY <1>5 DEF Edited, EditedBy, Trail, Committed, Committing, EntryColumns, Edits
<1>7. ASSUME NEW id, NEW s \in Requests, s # r, EditedBy(id, s)
      PROVE  EditedBy(id, s)'
  BY <1>5, <1>7 DEF EditedBy, Committing, EntryColumns
<1>8. ASSUME NEW x \in entities' PROVE EntFrom(r, x)
  <2>1. PICK v \in entities : Committing(v, x, r, EntityColumns)
    BY <1>2
  <2>2. x.id = v.id /\ x.project = v.project /\ x.name = v.name
    BY <2>1 DEF Committing, EntityColumns
  <2>3. CASE v.by = r
    <3>1. NamedByHand(v.project, v.name)
          \/ (Holding(req[r]) /\ req[r].id = v.id)
      BY <2>3, PlanAssumption DEF SaveInv, Owned
    <3>2. NamedByHand(v.project, v.name) \/ Brings(r, v.id)
      BY <3>1, CommitBrings
    <3> QED
      BY <2>1, <2>2, <2>3, <3>2 DEF EntFrom, Committing
  <2> QED
    BY <2>1, <2>2, <2>3 DEF EntFrom, Committing
<1>9. ASSUME NEW x \in observations' PROVE ObFrom(r, x)
  <2>1. PICK v \in observations : Committing(v, x, r, ObservationColumns)
    BY <1>3
  <2>2. x.id = v.id /\ x.entity = v.entity /\ x.content = v.content
    BY <2>1 DEF Committing, ObservationColumns
  <2> QED
    BY <1>6, <2>1, <2>2 DEF ObFrom, Committing
<1>10. ASSUME NEW v \in observations PROVE ObKept(r, v)
  <2> SUFFICES ASSUME v.by \notin {Nil, r}
               PROVE  \E x \in observations' : /\ x.by = v.by /\ x.id = v.id
                                               /\ x.entity = v.entity
                                               /\ x.content = v.content
    BY DEF ObKept
  <2>1. v.gone # r
    BY <1>1, PlanAssumption DEF Rows
  <2>2. PICK x \in observations' : Committing(v, x, r, ObservationColumns)
    BY <1>4, <2>1
  <2> QED
    BY <2>2 DEF Committing, ObservationColumns
<1>11. ASSUME NEW id PROVE Passing(r, id)
  BY <1>6, CommitPassing
<1> QED
  BY <1>1, <1>6, <1>7, <1>8, <1>9, <1>10, <1>11 DEF Frame

\* What the rows of the next state owe to a statement of r, which takes the
\* request to n.
Carries(r, n) ==
    /\ Holding(req[r]) => Holding(n) /\ n.id = req[r].id
    /\ Replacing(n) => Replacing(req[r]) \/ Clean(r)

LEMMA EntitiesWritten ==
    ASSUME PlanInv, [Next]_vars, \A e \in entities : Owned(e) /\ Spared(e),
           NEW r \in Requests, NEW n, Becomes(r, n), Carries(r, n),
           NEW VE, NEW NE, Wrote(entities, VE, NE, r, entities'),
           VE = {} \/ ~Replacing(n),
           \A e \in NE : NamedByHand(e.project, e.name)'
                           \/ (Holding(n) /\ n.id = e.id)
    PROVE  \A x \in entities' : Owned(x)' /\ Spared(x)'
<1> SUFFICES ASSUME NEW x \in entities' PROVE Owned(x)' /\ Spared(x)'
  OBVIOUS
<1>1. req'[r] = n /\ \A s \in Requests : s # r => req'[s] = req[s]
  BY OthersRest DEF PlanInv
<1>2. Rows(entities, EntityColumns)
  BY DEF PlanInv, Inv, Tables
<1>3. x \in NE \/ \E e : After(entities, VE, r, EntityColumns, e, x)
  BY <1>2, WroteRows, ColumnsOfTables
<1>4. CASE x \in NE
  <2>1. x.by = r /\ x.gone = Nil
    BY <1>4 DEF Wrote
  <2> QED
    BY <1>1, <1>4, <2>1 DEF Owned, Spared
<1>5. CASE \E e : After(entities, VE, r, EntityColumns, e, x)
  <2>1. PICK e \in entities : After(entities, VE, r, EntityColumns, e, x)
    BY <1>5 DEF After
  <2>2. x.by = e.by /\ x.id = e.id /\ x.project = e.project /\ x.name = e.name
    BY <2>1 DEF After, SameOn, EntityColumns
  <2>3. PICK by, gone, id, project, name :
           /\ by = e.by /\ gone = e.gone /\ id = e.id
           /\ project = e.project /\ name = e.name
    OBVIOUS
  <2>4. by \in Owners /\ gone \in Owners
    BY <1>2, <2>3 DEF Rows
  <2>5. Owned(x)'
    <3> SUFFICES ASSUME by # Nil
                 PROVE  \/ NamedByHand(project, name)'
                        \/ Holding(req'[by]) /\ req'[by].id = id
      BY <2>2, <2>3 DEF Owned
    <3>1. \/ NamedByHand(project, name)
          \/ Holding(req[by]) /\ req[by].id = id
      BY <2>3 DEF Owned
    <3>2. Holding(req[by]) => Holding(req'[by]) /\ req'[by].id = req[by].id
      BY <1>1, <2>4 DEF Carries, Owners
    <3> QED
      BY <3>1, <3>2, HandStays
  <2>6. Spared(x)'
    <3> SUFFICES ASSUME x.gone # Nil PROVE ~Replacing(req'[x.gone])
      BY DEF Spared
    <3>1. CASE x = e
      <4>1. ~Replacing(req[gone]) /\ gone # Nil /\ gone \in Requests
        BY <2>3, <2>4, <3>1 DEF Spared, Owners
      <4>2. gone = r => ~Clean(r)
        BY <2>3 DEF Clean, Untouched
      <4>3. ~Replacing(req'[gone])
        BY <1>1, <4>1, <4>2 DEF Carries
      <4> QED
        BY <2>3, <3>1, <4>3
    <3>2. CASE e \in VE /\ x.gone = r
      BY <1>1, <3>2
    <3> QED
      BY <2>1, <3>1, <3>2 DEF After
  <2> QED
    BY <2>5, <2>6
<1> QED
  BY <1>3, <1>4, <1>5

LEMMA DoomedStays ==
    ASSUME PlanInv, NEW r \in Requests, NEW VE, NEW NE,
           Wrote(entities, VE, NE, r, entities'),
           \A n \in NE : n.id = nextID \/ \E v \in VE : v.id = n.id,
           NEW id, id # nextID, NEW s \in Requests, Doomed(id, s)
    PROVE  Doomed(id, s)'
<1> SUFFICES ASSUME NEW x \in entities', x.id = id
             PROVE  x.by = Nil /\ x.gone = s
  BY DEF Doomed
<1>1. Rows(entities, EntityColumns)
  BY DEF PlanInv, Inv, Tables
<1>2. x \in NE \/ \E e : After(entities, VE, r, EntityColumns, e, x)
  BY <1>1, WroteRows, ColumnsOfTables
<1>3. \A v \in VE : v.id # id
  BY PlanAssumption DEF Wrote, Doomed
<1>4. PICK e : After(entities, VE, r, EntityColumns, e, x)
  BY <1>2, <1>3
<1>5. e \in entities /\ e.id = id
  BY <1>4 DEF After, SameOn, EntityColumns
<1> QED
  BY <1>3, <1>4, <1>5 DEF Doomed, After

LEMMA ObservationsWritten ==
    ASSUME PlanInv, [Next]_vars,
           \A v \in observations : Marked(v),
           \A w, v \in observations : Rewrites(w, v),
           NEW r \in Requests, NEW n, Becomes(r, n), Carries(r, n),
           NEW VE, NEW NE, NEW VO, NEW NO, NEW VR, NEW NR, NEW NH,
           Writes(r, VE, NE, VO, NO, VR, NR, NH), Founded(r, VE, NE, VO, NO),
           \A v \in VO : \/ Holding(n) /\ n.id = v.entity
                         \/ Doomed(v.entity, r)'
                         \/ EditedBy(v.entity, r)'
                         \/ Renewed(v, r)',
           \A w \in NO : \A v \in observations :
              v.by = Nil /\ v.id = w.id =>
                 w.content = v.content \/ EditedBy(v.entity, r)'
    PROVE  /\ \A x \in observations' : Marked(x)'
           /\ \A w, x \in observations' : Rewrites(w, x)'
<1>1. req'[r] = n /\ \A s \in Requests : s # r => req'[s] = req[s]
  BY OthersRest DEF PlanInv
<1>2. Rows(observations, ObservationColumns)
  BY DEF PlanInv, Inv, Tables
<1>3. \A x \in observations' :
         x \in NO \/ \E v : After(observations, VO, r, ObservationColumns, v, x)
  BY <1>2, WroteRows, ColumnsOfTables DEF Writes
<1>4. \A v \in observations : \E x \in observations' :
         After(observations, VO, r, ObservationColumns, v, x)
  BY <1>2, WroteRows, ColumnsOfTables DEF Writes
<1>5. \A w \in NO : w.by = r /\ w.gone = Nil
  BY DEF Writes, Wrote
<1>6. \A id, s : EditedBy(id, s) => EditedBy(id, s)'
  BY DEF Writes, EditedBy
<1>7. ASSUME NEW x \in observations' PROVE Marked(x)'
  <2> SUFFICES ASSUME x.gone # Nil
               PROVE  \/ Holding(req'[x.gone]) /\ req'[x.gone].id = x.entity
                      \/ Doomed(x.entity, x.gone)'
                      \/ EditedBy(x.entity, x.gone)'
                      \/ Renewed(x, x.gone)'
    BY DEF Marked
  <2>1. PICK v : After(observations, VO, r, ObservationColumns, v, x)
    BY <1>3, <1>5
  <2>2. v \in observations /\ x.id = v.id /\ x.entity = v.entity /\ x.content = v.content
    BY <2>1 DEF After, SameOn, ObservationColumns
  <2>3. \A s : Renewed(v, s)' => Renewed(x, s)'
    BY <2>2 DEF Renewed
  <2>4. CASE v \in VO /\ x.gone = r
    <3>1. \/ Holding(n) /\ n.id = v.entity
          \/ Doomed(v.entity, r)'
          \/ EditedBy(v.entity, r)'
          \/ Renewed(v, r)'
      BY <2>4
    <3>2. PICK entity : entity = v.entity
      OBVIOUS
    <3>3. \/ Holding(n) /\ n.id = entity
          \/ Doomed(entity, r)'
          \/ EditedBy(entity, r)'
          \/ Renewed(x, r)'
      BY <2>3, <3>1, <3>2
    <3> QED
      BY <1>1, <2>2, <2>4, <3>2, <3>3
  <2>5. CASE x = v
    <3>1. PICK s, entity : s = v.gone /\ entity = v.entity
      OBVIOUS
    <3>2. s \in Requests
      BY <1>2, <2>2, <2>5, <3>1 DEF Rows, Owners
    <3>3. \/ Holding(req[s]) /\ req[s].id = entity
          \/ Doomed(entity, s)
          \/ EditedBy(entity, s)
          \/ Renewed(v, s)
      BY <2>2, <2>5, <3>1 DEF Marked
    <3>4. Holding(req[s]) => Holding(req'[s]) /\ req'[s].id = req[s].id
      BY <1>1, <3>2 DEF Carries
    <3>5. Doomed(entity, s) => Doomed(entity, s)'
      <4>1. entity # nextID
        <5>1. Refers(entities, v, "entity")
          BY <2>2 DEF PlanInv, Inv, ForeignKeys, References
        <5>2. PICK e \in entities : e.id = entity
          BY <3>1, <5>1 DEF Refers, Lives, Going
        <5> QED
          BY <5>2 DEF PlanInv, Inv, Tables, Numbered
      <4>2. /\ Wrote(entities, VE, NE, r, entities')
            /\ \A e \in NE : e.id = nextID \/ \E d \in VE : d.id = e.id
        BY DEF Writes, Founded
      <4> QED
        BY <3>2, <4>1, <4>2, DoomedStays
    <3>6. Renewed(v, s) => Renewed(x, s)'
      <4>1. ASSUME NEW w \in observations, w.by = s, w.id = v.id,
                   w.content = v.content
            PROVE  Renewed(x, s)'
        <5>1. PICK y \in observations' :
                 After(observations, VO, r, ObservationColumns, w, y)
          BY <1>4
        <5>2. y.by = s /\ y.id = x.id /\ y.content = x.content
          BY <2>2, <4>1, <5>1 DEF After, SameOn, ObservationColumns
        <5> QED
          BY <5>2 DEF Renewed
      <4> QED
        BY <4>1 DEF Renewed
    <3>7. \/ Holding(req'[s]) /\ req'[s].id = entity
          \/ Doomed(entity, s)'
          \/ EditedBy(entity, s)'
          \/ Renewed(x, s)'
      BY <1>6, <3>3, <3>4, <3>5, <3>6
    <3> QED
      BY <2>5, <3>1, <3>7
  <2> QED
    BY <2>1, <2>4, <2>5 DEF After
<1>8. ASSUME NEW y \in observations', NEW x \in observations',
             y.by # Nil, x.by = Nil, y.id = x.id
      PROVE  y.content = x.content \/ EditedBy(x.entity, y.by)'
  <2>1. x \notin NO
    BY <1>5, <1>8, PlanAssumption
  <2>2. PICK v : After(observations, VO, r, ObservationColumns, v, x)
    BY <1>3, <2>1
  <2>3. /\ v \in observations /\ v.by = Nil
        /\ x.id = v.id /\ x.entity = v.entity /\ x.content = v.content
    BY <1>8, <2>2 DEF After, SameOn, ObservationColumns
  <2>4. PICK entity : entity = v.entity
    OBVIOUS
  <2>5. CASE y \in NO
    <3>1. y.content = v.content \/ EditedBy(entity, r)'
      BY <1>8, <2>3, <2>4, <2>5
    <3> QED
      BY <1>5, <2>3, <2>4, <2>5, <3>1
  <2>6. CASE \E w : After(observations, VO, r, ObservationColumns, w, y)
    <3>1. PICK w : After(observations, VO, r, ObservationColumns, w, y)
      BY <2>6
    <3>2. /\ w \in observations /\ w.by = y.by
          /\ y.id = w.id /\ y.content = w.content
      BY <3>1 DEF After, SameOn, ObservationColumns
    <3>3. PICK s : s = y.by
      OBVIOUS
    <3>4. w.content = v.content \/ EditedBy(entity, s)
      BY <1>8, <2>3, <2>4, <3>2, <3>3 DEF Rewrites
    <3>5. y.content = x.content \/ EditedBy(entity, s)'
      BY <1>6, <2>3, <3>2, <3>4
    <3> QED
      BY <2>3, <2>4, <3>3, <3>5
  <2> QED
    BY <1>3, <2>5, <2>6
<1> QED
  BY <1>7, <1>8 DEF Rewrites

\* A transaction that ends leaves what the others did to a row.
Ending(rows, new, r, C) ==
    /\ \A x \in new :
          /\ x.by # r /\ x.gone # r
          /\ \E v \in rows : /\ SameOn(C, x, v)
                             /\ x.by = v.by \/ (x.by = Nil /\ v.by = r)
                             /\ x.gone = v.gone \/ (x.gone = Nil /\ v.gone = r)
    /\ \A v \in rows : v.by \notin {Nil, r} =>
          \E x \in new : x.by = v.by /\ SameOn(C, x, v)

LEMMA CommitEnds ==
    ASSUME NEW rows, NEW C, Rows(rows, C), Columns(C), NEW r \in Requests,
           NEW new, new = Commit(rows, r)
    PROVE  Ending(rows, new, r, C)
<1>1. ASSUME NEW x \in new
      PROVE  /\ x.by # r /\ x.gone # r
             /\ \E v \in rows : /\ SameOn(C, x, v)
                                /\ x.by = v.by \/ (x.by = Nil /\ v.by = r)
                                /\ x.gone = v.gone \/ (x.gone = Nil /\ v.gone = r)
  <2>1. PICK v \in rows : Committing(v, x, r, C)
    BY InCommit
  <2> QED
    BY <2>1, PlanAssumption DEF Committing, SameOn
<1>2. ASSUME NEW v \in rows, v.by \notin {Nil, r}
      PROVE  \E x \in new : x.by = v.by /\ SameOn(C, x, v)
  <2>1. v.gone # r
    BY <1>2, PlanAssumption DEF Rows
  <2>2. PICK x \in new : Committing(v, x, r, C)
    BY <2>1, OfCommit
  <2> QED
    BY <1>2, <2>2 DEF Committing, SameOn
<1> QED
  BY <1>1, <1>2 DEF Ending

LEMMA RollbackEnds ==
    ASSUME NEW rows, NEW C, Rows(rows, C), Columns(C), NEW r \in Requests,
           NEW new, new = Rollback(rows, r)
    PROVE  Ending(rows, new, r, C)
<1>1. ASSUME NEW x \in new
      PROVE  /\ x.by # r /\ x.gone # r
             /\ \E v \in rows : /\ SameOn(C, x, v)
                                /\ x.by = v.by \/ (x.by = Nil /\ v.by = r)
                                /\ x.gone = v.gone \/ (x.gone = Nil /\ v.gone = r)
  <2>1. PICK v \in rows : RollingBack(v, x, r, C)
    BY InRollback
  <2> QED
    BY <2>1, PlanAssumption DEF RollingBack, SameOn
<1>2. ASSUME NEW v \in rows, v.by \notin {Nil, r}
      PROVE  \E x \in new : x.by = v.by /\ SameOn(C, x, v)
  <2>1. PICK x \in new : RollingBack(v, x, r, C)
    BY <1>2, OfRollback
  <2> QED
    BY <1>2, <2>1 DEF RollingBack, SameOn
<1> QED
  BY <1>1, <1>2 DEF Ending

LEMMA RowsEnd ==
    ASSUME PlanInv, [Next]_vars, SaveInv, NEW r \in Requests, Frame(r),
           NEW n, Becomes(r, n),
           Ending(entities, entities', r, EntityColumns),
           Ending(observations, observations', r, ObservationColumns)
    PROVE  /\ \A x \in entities' : Owned(x)' /\ Spared(x)'
           /\ \A x \in observations' : Marked(x)'
           /\ \A w, x \in observations' : Rewrites(w, x)'
<1>1. \A s \in Requests : s # r => req'[s] = req[s]
  BY OthersRest DEF PlanInv
<1>2. Rows(entities, EntityColumns) /\ Rows(observations, ObservationColumns)
  BY DEF PlanInv, Inv, Tables
<1>3. ASSUME NEW x \in entities' PROVE Owned(x)' /\ Spared(x)'
  <2>1. PICK e \in entities :
           /\ SameOn(EntityColumns, x, e)
           /\ x.by = e.by \/ (x.by = Nil /\ e.by = r)
           /\ x.gone = e.gone \/ (x.gone = Nil /\ e.gone = r)
    BY DEF Ending
  <2>2. PICK by, gone, id, project, name :
           /\ by = x.by /\ gone = x.gone /\ id = x.id
           /\ project = x.project /\ name = x.name
    OBVIOUS
  <2>3. id = e.id /\ project = e.project /\ name = e.name
    BY <2>1, <2>2 DEF SameOn, EntityColumns
  <2>4. ASSUME by # Nil
        PROVE  NamedByHand(project, name)' \/ (Holding(req'[by]) /\ req'[by].id = id)
    <3>1. by = e.by /\ by \in Requests /\ by # r
      BY <1>2, <2>1, <2>2, <2>4 DEF Ending, Rows, Owners
    <3>2. NamedByHand(project, name) \/ (Holding(req[by]) /\ req[by].id = id)
      BY <2>3, <2>4, <3>1 DEF SaveInv, Owned
    <3> QED
      BY <1>1, <3>1, <3>2, HandStays
  <2>5. ASSUME gone # Nil
        PROVE  ~Replacing(req'[gone])
    <3>1. gone = e.gone /\ gone \in Requests /\ gone # r
      BY <1>2, <2>1, <2>2, <2>5 DEF Ending, Rows, Owners
    <3>2. ~Replacing(req[gone])
      BY <2>5, <3>1 DEF SaveInv, Spared
    <3> QED
      BY <1>1, <3>1, <3>2
  <2> QED
    BY <2>2, <2>4, <2>5 DEF Owned, Spared
<1>4. ASSUME NEW x \in observations' PROVE Marked(x)'
  <2> SUFFICES ASSUME x.gone # Nil
               PROVE  \/ Holding(req'[x.gone]) /\ req'[x.gone].id = x.entity
                      \/ Doomed(x.entity, x.gone)'
                      \/ EditedBy(x.entity, x.gone)'
                      \/ Renewed(x, x.gone)'
    BY DEF Marked
  <2>1. PICK v \in observations :
           /\ SameOn(ObservationColumns, x, v)
           /\ x.gone = v.gone \/ (x.gone = Nil /\ v.gone = r)
    BY DEF Ending
  <2>2. PICK s, entity : s = x.gone /\ entity = x.entity
    OBVIOUS
  <2>3. /\ s = v.gone /\ s \in Requests /\ s # r
        /\ x.id = v.id /\ entity = v.entity /\ x.content = v.content
    BY <1>2, <2>1, <2>2 DEF Ending, Rows, Owners, SameOn, ObservationColumns
  <2>4. \/ Holding(req[s]) /\ req[s].id = entity
        \/ Doomed(entity, s)
        \/ EditedBy(entity, s)
        \/ Renewed(v, s)
    BY <2>2, <2>3 DEF SaveInv, Marked
  <2>5. Doomed(entity, s) => Doomed(entity, s)'
    <3> SUFFICES ASSUME Doomed(entity, s), NEW y \in entities', y.id = entity
                 PROVE  y.by = Nil /\ y.gone = s
      BY DEF Doomed
    <3>1. PICK e \in entities :
             /\ SameOn(EntityColumns, y, e)
             /\ y.by = e.by \/ (y.by = Nil /\ e.by = r)
             /\ y.gone = e.gone \/ (y.gone = Nil /\ e.gone = r)
      BY DEF Ending
    <3>2. e.id = entity
      BY <3>1 DEF SameOn, EntityColumns
    <3> QED
      BY <2>3, <3>1, <3>2 DEF Doomed
  <2>6. Renewed(v, s) => Renewed(x, s)'
    <3> SUFFICES ASSUME NEW w \in observations, w.by = s, w.id = v.id,
                        w.content = v.content
                 PROVE  Renewed(x, s)'
      BY DEF Renewed
    <3>1. w.by \notin {Nil, r}
      BY <2>2, <2>3
    <3>2. PICK y \in observations' : y.by = w.by /\ SameOn(ObservationColumns, y, w)
      BY <3>1 DEF Ending
    <3> QED
      BY <2>3, <3>2 DEF Renewed, SameOn, ObservationColumns
  <2>7. EditedBy(entity, s) => EditedBy(entity, s)'
    BY <2>3 DEF Frame
  <2>8. \/ Holding(req'[s]) /\ req'[s].id = entity
        \/ Doomed(entity, s)'
        \/ EditedBy(entity, s)'
        \/ Renewed(x, s)'
    BY <1>1, <2>3, <2>4, <2>5, <2>6, <2>7
  <2> QED
    BY <2>2, <2>8
<1>5. ASSUME NEW y \in observations', NEW x \in observations',
             y.by # Nil, x.by = Nil, y.id = x.id
      PROVE  y.content = x.content \/ EditedBy(x.entity, y.by)'
  <2>1. PICK w \in observations :
           /\ SameOn(ObservationColumns, y, w)
           /\ y.by = w.by \/ (y.by = Nil /\ w.by = r)
    BY DEF Ending
  <2>2. PICK v \in observations :
           /\ SameOn(ObservationColumns, x, v)
           /\ x.by = v.by \/ (x.by = Nil /\ v.by = r)
    BY DEF Ending
  <2>3. PICK s, entity : s = y.by /\ entity = x.entity
    OBVIOUS
  <2>4. /\ w.by = s /\ s # r /\ s \in Requests /\ v.by \in {Nil, r}
        /\ w.id = v.id /\ entity = v.entity
        /\ y.content = w.content /\ x.content = v.content
    BY <1>2, <1>5, <2>1, <2>2, <2>3 DEF Ending, Rows, Owners, SameOn, ObservationColumns
  <2>5. v.by = Nil
    <3>1. SameOn({"id"}, w, v)
      BY <2>4 DEF SameOn
    <3>2. Alt(w, v)
      BY <3>1 DEF PlanInv, Inv, Keys, Unique
    <3> QED
      BY <1>5, <2>3, <2>4, <3>2 DEF Alt, Replaced
  <2>6. w.content = v.content \/ EditedBy(entity, s)
    BY <1>5, <2>3, <2>4, <2>5 DEF SaveInv, Rewrites
  <2>7. EditedBy(entity, s) => EditedBy(entity, s)'
    BY <2>4 DEF Frame
  <2>8. y.content = x.content \/ EditedBy(entity, s)'
    BY <2>4, <2>6, <2>7
  <2> QED
    BY <2>3, <2>8
<1> QED
  BY <1>3, <1>4, <1>5 DEF Rewrites

\* A step of r keeps the invariant when its request serves it too.
LEMMA SaveSteps ==
    ASSUME PlanInv, [Next]_vars, SaveInv, NEW r \in Requests, Frame(r),
           NEW n, Becomes(r, n), Serves(n, r)',
           \A x \in entities' : Owned(x)' /\ Spared(x)',
           \A x \in observations' : Marked(x)',
           \A w, x \in observations' : Rewrites(w, x)'
    PROVE  SaveInv'
<1>1. req'[r] = n /\ \A s \in Requests : s # r => req'[s] = req[s]
  BY OthersRest DEF PlanInv
<1>2. \A x \in entities' : WholeIn(x)'
  BY WholeStays DEF SaveInv
<1>3. ASSUME NEW s \in Requests PROVE Serves(req[s], s)'
  <2>1. CASE s = r
    BY <1>1, <2>1
  <2>2. CASE s # r
    BY <1>1, <2>2, ServesStays DEF SaveInv
  <2> QED
    BY <2>1, <2>2
<1> QED
  BY <1>2, <1>3 DEF SaveInv

LEMMA SaveWrites ==
    ASSUME PlanInv, [Next]_vars, SaveInv, NEW r \in Requests,
           NEW n, Becomes(r, n), Carries(r, n),
           NEW VE, NEW NE, NEW VO, NEW NO, NEW VR, NEW NR, NEW NH,
           Writes(r, VE, NE, VO, NO, VR, NR, NH), Founded(r, VE, NE, VO, NO),
           VE = {} \/ ~Replacing(n),
           \A e \in NE : NamedByHand(e.project, e.name)'
                           \/ (Holding(n) /\ n.id = e.id),
           \A v \in VO : \/ Holding(n) /\ n.id = v.entity
                         \/ Doomed(v.entity, r)'
                         \/ EditedBy(v.entity, r)'
                         \/ Renewed(v, r)',
           \A w \in NO : \A v \in observations :
              v.by = Nil /\ v.id = w.id =>
                 w.content = v.content \/ EditedBy(v.entity, r)',
           Serves(n, r)'
    PROVE  SaveInv'
<1>1. Frame(r)
  BY WritesFrame
<1>2. /\ \A e \in entities : Owned(e) /\ Spared(e)
      /\ \A v \in observations : Marked(v)
      /\ \A w, v \in observations : Rewrites(w, v)
  BY DEF SaveInv
<1>3. Wrote(entities, VE, NE, r, entities')
  BY DEF Writes
<1>4. \A x \in entities' : Owned(x)' /\ Spared(x)'
  BY <1>2, <1>3, EntitiesWritten
<1>5. /\ \A x \in observations' : Marked(x)'
      /\ \A w, x \in observations' : Rewrites(w, x)'
  BY <1>2, ObservationsWritten
<1> QED
  BY <1>1, <1>4, <1>5, SaveSteps

\* A request that owes nothing to checkpoints where it stands.
Plain(n) ==
    /\ n.pc \in {"snap_obs", "clear_obs", "insert_obs", "commit"} => ~Replacing(n)
    /\ n.pc \notin {"clear_obs", "write_obs", "read_graph_obs"}
    /\ n.pc = "commit" => Head(n.plan).do # "read_graph"

LEMMA PlainServes ==
    ASSUME NEW n, Plain(n), NEW r
    PROVE  Serves(n, r)'
<1>1. NamesOf(n)' /\ ProgressOf(n, r)'
  BY DEF Plain, NamesOf, ProgressOf, Holding
<1>2. SnapOf(n)' /\ ReadOf(n)' /\ ReaderOf(n)' /\ SeenOf(n)'
  BY DEF Plain, SnapOf, ReadOf, ReaderOf, SeenOf
<1> QED
  BY <1>1, <1>2 DEF Serves

LEMMA NothingFounded ==
    ASSUME PlanInv, NEW r, NEW VE, NEW VO, nextID' = nextID
    PROVE  Founded(r, VE, {}, VO, {})
BY DEF Founded, PlanInv, Inv, Tables

LEMMA QuietFrame ==
    ASSUME PlanInv, NEW r \in Requests, UNCHANGED tables
    PROVE  Frame(r)
<1>1. Writes(r, {}, {}, {}, {}, {}, {}, {})
  BY QuietWrites
<1>2. Founded(r, {}, {}, {}, {})
  BY NothingFounded DEF tables
<1> QED
  BY <1>1, <1>2, WritesFrame

LEMMA SaveQuiet ==
    ASSUME PlanInv, [Next]_vars, SaveInv, NEW r \in Requests,
           NEW n, Becomes(r, n), Carries(r, n), UNCHANGED tables, Serves(n, r)'
    PROVE  SaveInv'
<1>1. Writes(r, {}, {}, {}, {}, {}, {}, {})
  BY QuietWrites
<1>2. Founded(r, {}, {}, {}, {})
  BY NothingFounded DEF tables
<1> QED
  BY <1>1, <1>2, SaveWrites

LEMMA SaveFails ==
    ASSUME PlanInv, [Next]_vars, SaveInv, NEW r \in Requests, Running(r), Fail(r)
    PROVE  SaveInv'
<1>1. PICK n : Becomes(r, n) /\ Failed(r, n)
  BY FailMove DEF PlanInv
<1>2. Frame(r)
  BY FailFrame
<1>3. Serves(n, r)'
  <2>1. Plain(n)
    BY <1>1 DEF Failed, Plain
  <2> QED
    BY <2>1, PlainServes
<1>4. /\ Rows(entities, EntityColumns) /\ Rows(observations, ObservationColumns)
      /\ entities' = Rollback(entities, r)
      /\ observations' = Rollback(observations, r)
  BY DEF PlanInv, Inv, Tables, Fail
<1>5. /\ Ending(entities, entities', r, EntityColumns)
      /\ Ending(observations, observations', r, ObservationColumns)
  BY <1>4, RollbackEnds, ColumnsOfTables
<1> QED
  BY <1>1, <1>2, <1>3, <1>5, RowsEnd, SaveSteps

LEMMA StartIsPlain ==
    ASSUME NEW asked \in Plans, NEW plan, Suffix(plan, asked),
           NEW n, n = StartCall(asked, plan)
    PROVE  Plain(n)
<1>1. plan \in Seq(Calls)
  BY DEF Suffix
<1>2. CASE plan = << >>
  BY <1>1, <1>2, StartFields DEF Plain, Replacing, Ended
<1>3. CASE plan # << >> /\ Head(plan).do # "items"
  <2>1. n.pc = Head(plan).do /\ n.plan = plan
    BY <1>1, <1>3, StartFields
  <2>2. Head(plan) \in Calls
    BY <1>1, <1>3, HeadAndTail
  <2>3. n.pc \in Kinds
    BY <2>1, <2>2, PlanAssumption
  <2> QED
    BY <2>3 DEF Plain, Kinds
<1>4. CASE plan # << >> /\ Head(plan).do = "items"
  <2>1. /\ n.plan = plan /\ n.items = Head(plan).items
        /\ n.pc = LoopPc(n.items, n.triples)
    BY <1>1, <1>4, StartFields
  <2>2. n.pc \in {"find_item", "find_from", "commit"}
    BY <2>1, LoopPcs
  <2>3. ASSUME Head(plan).replace PROVE n.pc = "find_item"
    <3>1. IsSavePlan(asked) /\ Head(plan) = asked[1]
      BY <1>4, <2>3, ReplacesFirst
    <3>2. n.items = << asked[1].items[1] >>
      BY <2>1, <3>1, SaveCalls
    <3>3. n.items # << >>
      BY <3>2
    <3> QED
      BY <2>1, <3>3 DEF LoopPc
  <2> QED
    BY <1>4, <2>1, <2>2, <2>3 DEF Plain, Replacing
<1> QED
  BY <1>2, <1>3, <1>4

LEMMA SaveCommits ==
    ASSUME PlanInv, Audit, [Next]_vars, SaveInv, NEW r \in Requests, CommitTx(r)
    PROVE  SaveInv'
<1>1. PICK n : Becomes(r, n) /\ (Goes(r, n) \/ Failed(r, n))
  BY CommitMove DEF PlanInv
<1>2. Frame(r)
  BY CommitFrame
<1>3. Serves(n, r)'
  <2>1. CASE Failed(r, n)
    BY <2>1, PlainServes DEF Failed, Plain
  <2>2. CASE Goes(r, n)
    <3>1. req[r].asked \in Plans
      BY DEF PlanInv, Planned, PlanOf, CommitTx
    <3>2. Plain(n)
      BY <2>2, <3>1, StartIsPlain DEF Goes
    <3> QED
      BY <3>2, PlainServes
  <2> QED
    BY <1>1, <2>1, <2>2
<1>4. /\ Rows(entities, EntityColumns) /\ Rows(observations, ObservationColumns)
      /\ entities' = Commit(entities, r)
      /\ observations' = Commit(observations, r)
  BY DEF PlanInv, Inv, Tables, CommitTx
<1>5. /\ Ending(entities, entities', r, EntityColumns)
      /\ Ending(observations, observations', r, ObservationColumns)
  BY <1>4, CommitEnds, ColumnsOfTables
<1> QED
  BY <1>1, <1>2, <1>3, <1>5, RowsEnd, SaveSteps

LEMMA SaveBegins ==
    ASSUME PlanInv, [Next]_vars, SaveInv, NEW r \in Requests, NEW plan \in Plans,
           Begin(r, plan)
    PROVE  SaveInv'
<1>1. PICK n : /\ Becomes(r, n) /\ PlanOf(n) /\ n = StartCall(plan, plan)
               /\ n.plan = plan /\ n.asked = plan
  BY BeginMove DEF PlanInv
<1>2. Plain(n)
  BY <1>1, StartIsPlain DEF PlanOf
<1>3. req[r].pc = "idle" /\ UNCHANGED tables
  BY DEF Begin
<1>4. Clean(r)
  BY <1>3 DEF PlanInv, Inv, Requested, Local, Open
<1>5. Carries(r, n)
  BY <1>3, <1>4 DEF Carries, Holding, Replacing, Ended
<1> QED
  BY <1>1, <1>2, <1>3, <1>5, PlainServes, SaveQuiet

\* Where a request stands on its way through one call.
Along(q, n) ==
    /\ n.plan = q.plan /\ q.pc \notin Ended /\ n.pc \notin Ended
    /\ q.pc \notin {"insert_obs", "commit"}

LEMMA AlongCarries ==
    ASSUME NEW r, NEW n, Along(req[r], n)
    PROVE  Carries(r, n) /\ (Replacing(n) <=> Replacing(req[r]))
BY DEF Along, Carries, Holding, Replacing

LEMMA SaveIsItem ==
    ASSUME NEW q, PlanOf(q), q.pc \in ItemPcs, Head(q.plan).replace
    PROVE  /\ Replacing(q) /\ q.items = Head(q.plan).items
           /\ Head(q.items) = SaveItem(q)
<1>1. Head(q.plan).do = "items" /\ Loops(q, Head(q.plan))
  BY AtItem
<1>2. q.items = Head(q.plan).items
  BY <1>1 DEF Loops
<1> QED
  BY <1>1, <1>2 DEF Replacing, SaveItem, ItemPcs, Ended

LEMMA Replaces ==
    ASSUME NEW q, PlanOf(q), Replacing(q)
    PROVE  q.pc \in ItemPcs \cup {"commit"} /\ Head(q.plan).replace
           /\ Head(q.plan).do = "items"
BY DEF PlanOf, Replacing, Loops

LEMMA SaveFindEntity ==
    ASSUME PlanInv, [Next]_vars, SaveInv, NEW r \in Requests, FindEntity(r)
    PROVE  SaveInv'
<1> DEFINE E == Visible(Named(Call(r).project, Wanted(r).name), r)
<1>1. PICK n : /\ Becomes(r, n) /\ Within(req[r], n) /\ PlanOf(n)
               /\ \/ \E e \in E : Resolved(req[r], n, e.id)
                  \/ E = {} /\ NotFound(req[r], n)
  BY FindEntityMove DEF PlanInv
<1>2. PICK q : q = req[r] /\ PlanOf(q) /\ q.pc \in {"find_item", "find_from", "find_to"}
  BY DEF FindEntity, PlanInv, Planned
<1>3. UNCHANGED tables
  BY DEF FindEntity
<1>4. n.plan = q.plan /\ n.pc \notin Ended
  BY <1>1, <1>2, LoopPcs DEF Within, Resolved, NotFound, Followed, Ended
<1>5. Along(q, n)
  BY <1>2, <1>4 DEF Along, Ended
<1>6. CASE ~(Replacing(n) /\ n.pc = "snap_obs")
  <2>1. /\ n.pc \in {"find_item", "insert_item", "find_from", "insert_from",
                     "find_to", "insert_to", "insert_rel", "snap_obs",
                     "insert_obs", "commit"}
        /\ n.pc = "snap_obs" => Head(n.plan).replace /\ q.pc = "find_item"
    BY <1>1, <1>2, <1>4, LoopPcs DEF Resolved, NotFound, Followed
  <2>2. Replacing(n) => q.pc = "find_item" /\ Head(q.plan).replace
    <3>1. Replacing(n) => Replacing(q)
      BY <1>2, <1>5, AlongCarries
    <3> QED
      BY <1>2, <3>1, Replaces DEF ItemPcs
  <2>3. Replacing(n) => n.pc = "insert_item"
    BY <1>1, <1>2, <1>6, <2>2 DEF Resolved, NotFound
  <2>4. Head(n.plan).do = "items"
    BY <1>2, <1>4, AtItem, AtTriple DEF ItemPcs, TriplePcs
  <2>5. Plain(n)
    BY <2>1, <2>3, <2>4 DEF Plain
  <2> QED
    BY <1>1, <1>2, <1>3, <1>5, <2>5, PlainServes, AlongCarries, SaveQuiet
<1>7. CASE Replacing(n) /\ n.pc = "snap_obs"
  <2>1. q.pc = "find_item" /\ Head(q.plan).replace
    BY <1>1, <1>2, <1>5, <1>7, LoopPcs DEF Resolved, NotFound, Followed
  <2>2. Clean(r)
    BY <1>2, <2>1 DEF PlanInv, Ready, Due
  <2>3. PICK e \in E : n.id = e.id
    BY <1>1, <1>2, <1>7, <2>1 DEF Resolved, NotFound
  <2>4. /\ e \in entities /\ e.by = Nil /\ e.project = Head(n.plan).project
        /\ e.name = SaveItem(n).name
    <3>1. /\ e \in entities /\ e.by \in {Nil, r} /\ e.project = Call(r).project
          /\ e.name = Wanted(r).name
      BY DEF Visible, Named
    <3>2. Wanted(r).name = Head(q.items).name
      BY <1>2, <2>1, WantedIs DEF Seeking, WantedName
    <3>3. SaveItem(n) = Head(q.items)
      BY <1>2, <1>4, <2>1, SaveIsItem DEF ItemPcs, SaveItem
    <3> QED
      BY <1>2, <1>4, <2>2, <3>1, <3>2, <3>3 DEF Call, Clean, Untouched
  <2>5. InProject(n.id, Head(n.plan).project)
    BY <2>3, <2>4 DEF InProject, PlanInv, Inv, Tables, Numbered, Keys, Fixed
  <2>6. ASSUME NEW f \in entities, f.id = n.id
        PROVE  f.name = SaveItem(n).name \/ NamedByHand(f.project, f.name)
    <3>1. Alt(e, f)
      <4>1. SameOn({"id"}, e, f)
        BY <2>3, <2>6 DEF SameOn
      <4> QED
        BY <2>4, <4>1 DEF PlanInv, Inv, Keys, Unique
    <3>2. CASE e = f
      BY <2>4, <3>2
    <3>3. CASE Replaced(e, f)
      <4>1. f.by # Nil /\ e.gone = f.by
        BY <3>3 DEF Replaced
      <4>2. ~Replacing(req[f.by])
        BY <2>4, <4>1 DEF SaveInv, Spared
      <4>3. NamedByHand(f.project, f.name)
        BY <4>1, <4>2 DEF SaveInv, Owned, Holding
      <4> QED
        BY <4>3
    <3> QED
      BY <2>4, <3>1, <3>2, <3>3 DEF Alt, Replaced
  <2>7. NamesOf(n)
    BY <2>5, <2>6 DEF NamesOf
  <2>8. NamesOf(n)'
    BY <1>3, <2>7, QuietFrame, NamesStay
  <2>9. Serves(n, r)'
    <3>1. ProgressOf(n, r)' /\ SnapOf(n)' /\ ReadOf(n)' /\ ReaderOf(n)' /\ SeenOf(n)'
      BY <1>7 DEF ProgressOf, Holding, SnapOf, ReadOf, ReaderOf, SeenOf
    <3> QED
      BY <2>8, <3>1 DEF Serves
  <2> QED
    BY <1>1, <1>2, <1>3, <1>5, <2>9, AlongCarries, SaveQuiet
<1> QED
  BY <1>6, <1>7

\* The name a request that is looking for an entity gives it, by hand or as a
\* save.
LEMMA WantedByHand ==
    ASSUME PlanInv, NEW r \in Requests, req[r].pc \in Seeking, ~Call(r).replace
    PROVE  NamedByHand(Call(r).project, Wanted(r).name)
<1>1. PICK q, c : q = req[r] /\ c = Head(q.plan)
  OBVIOUS
<1>2. PlanOf(q) /\ q.pc \in Seeking /\ Call(r) = c /\ ~c.replace
  BY <1>1 DEF PlanInv, Planned, Call
<1>3. c \in Range(q.asked) /\ c.do = "items"
  BY <1>1, <1>2, AtItem, AtTriple DEF Seeking, ItemPcs, TriplePcs
<1>4. \/ \E item \in Range(c.items) : item.name = Wanted(r).name
      \/ \E t \in Range(c.triples) : Wanted(r).name \in {t.from, t.to}
  <2>1. Wanted(r).name = WantedName(q)
    BY <1>1, <1>2, WantedIs
  <2>2. CASE q.pc \in {"find_item", "insert_item"}
    <3>1. Head(q.items) \in Range(c.items)
      BY <1>1, <1>2, <2>2, AtItem DEF ItemPcs
    <3> QED
      BY <2>1, <2>2, <3>1 DEF WantedName
  <2>3. CASE q.pc \in {"find_from", "insert_from", "find_to", "insert_to"}
    <3>1. Head(q.triples) \in Range(c.triples)
      BY <1>1, <1>2, <2>3, AtTriple DEF TriplePcs
    <3>2. Wanted(r).name \in {Head(q.triples).from, Head(q.triples).to}
      BY <2>1, <2>3 DEF WantedName
    <3> QED
      BY <3>1, <3>2
  <2> QED
    BY <1>2, <2>2, <2>3 DEF Seeking
<1>5. c \in Asked(r)
  BY <1>1, <1>3 DEF Asked
<1> QED
  BY <1>2, <1>3, <1>4, <1>5 DEF NamedByHand

\* A save that starts on its observations has them all to come.
LEMMA AllToCome ==
    ASSUME NEW q, PlanOf(q), q.pc \in ItemPcs, Head(q.plan).replace,
           NEW n, n.plan = q.plan, Followed(q, n, Head(q.items).obs), NEW r
    PROVE  ProgressOf(n, r)'
<1>1. Head(q.items) = SaveItem(n)
  BY SaveIsItem DEF SaveItem
<1>2. PICK obs : obs = Head(q.items).obs
  OBVIOUS
<1>3. /\ n.contents = obs /\ SaveItem(n).obs = obs
      /\ obs # << >> => n.pc = "insert_obs"
  BY <1>1, <1>2 DEF Followed
<1>4. obs = << >> => Range(obs) = {}
  BY DEF Range
<1> QED
  BY <1>3, <1>4 DEF ProgressOf

LEMMA SaveInsertEntity ==
    ASSUME PlanInv, [Next]_vars, SaveInv, NEW r \in Requests,
           InsertEntity(r), ~Fail(r)
    PROVE  SaveInv'
<1>1. PICK n : /\ Becomes(r, n) /\ Within(req[r], n) /\ PlanOf(n)
               /\ Resolved(req[r], n, nextID)
  BY InsertEntityMove DEF PlanInv
<1>2. PICK q : /\ q = req[r] /\ PlanOf(q)
               /\ q.pc \in {"insert_item", "insert_from", "insert_to"}
  BY DEF InsertEntity, PlanInv, Planned
<1>3. PICK e : /\ Writes(r, {}, {e}, {}, {}, {}, {}, {})
               /\ e.id = nextID /\ e.project = Call(r).project
               /\ e.name = Wanted(r).name /\ nextID' = nextID + 1
  BY InsertEntityWrites
<1>4. nextID \in Nat \ {0}
  BY DEF PlanInv, Inv, Tables
<1>5. Founded(r, {}, {e}, {}, {})
  BY <1>3, <1>4 DEF Founded
<1>6. n.plan = q.plan /\ Along(q, n)
  BY <1>1, <1>2, LoopPcs DEF Within, Resolved, Followed, Along, Ended
<1>7. CASE ~Head(q.plan).replace
  <2>1. NamedByHand(e.project, e.name)'
    <3>1. PICK project, name : project = e.project /\ name = e.name
      OBVIOUS
    <3>2. NamedByHand(project, name)
      BY <1>2, <1>3, <1>7, <3>1, WantedByHand DEF Seeking, Call
    <3> QED
      BY <3>1, <3>2, HandStays
  <2>2. n.pc \in {"insert_obs", "find_item", "find_from", "commit", "find_to",
                  "insert_rel"}
    BY <1>1, <1>2, LoopPcs DEF Resolved, Followed
  <2>3. Head(n.plan).do = "items"
    BY <1>2, <1>6, AtItem, AtTriple DEF ItemPcs, TriplePcs
  <2>4. Plain(n)
    BY <1>6, <1>7, <2>2, <2>3 DEF Plain, Replacing
  <2> QED
    BY <1>1, <1>2, <1>3, <1>5, <1>6, <2>1, <2>4, AlongCarries, PlainServes, SaveWrites
<1>8. CASE Head(q.plan).replace
  <2>1. q.pc = "insert_item"
    BY <1>2, <1>8, AtTriple DEF TriplePcs
  <2>2. n.id = nextID /\ Followed(q, n, Head(q.items).obs)
    BY <1>1, <1>2, <2>1 DEF Resolved
  <2>3. n.pc \in {"insert_obs", "commit"}
    BY <1>1, <1>2, <1>8, <2>1, <2>2, SaveFollows DEF ItemPcs
  <2>4. Holding(n) /\ Head(n.plan).do = "items"
    BY <1>2, <1>6, <1>8, <2>1, <2>3, AtItem DEF Holding, Replacing, Ended, ItemPcs
  <2>5. NamesOf(n)'
    <3>1. entities' = entities \cup {e}
      BY <1>3 DEF Writes, Wrote, Remove
    <3>2. \A x \in entities' : x.id = nextID => x = e
      BY <1>4, <3>1 DEF PlanInv, Inv, Tables, Numbered
    <3>3. nextID \in 1 .. nextID' - 1
      BY <1>3, <1>4
    <3>4. e.project = Head(n.plan).project
      BY <1>2, <1>3, <1>6 DEF Call
    <3>5. e.name = SaveItem(n).name
      <4>1. e.name = Head(q.items).name
        BY <1>2, <1>3, <2>1, WantedIs DEF Seeking, WantedName
      <4>2. Head(q.items) = SaveItem(n)
        BY <1>2, <1>6, <1>8, <2>1, SaveIsItem DEF ItemPcs, SaveItem
      <4> QED
        BY <4>1, <4>2
    <3>6. InProject(n.id, Head(n.plan).project)'
      BY <2>2, <3>2, <3>3, <3>4 DEF InProject
    <3> QED
      BY <2>2, <3>2, <3>5, <3>6 DEF NamesOf
  <2>6. ProgressOf(n, r)'
    BY <1>2, <1>6, <1>8, <2>1, <2>2, AllToCome DEF ItemPcs
  <2>7. Serves(n, r)'
    <3>1. SnapOf(n)' /\ ReadOf(n)' /\ ReaderOf(n)' /\ SeenOf(n)'
      BY <2>3, <2>4 DEF SnapOf, ReadOf, ReaderOf, SeenOf
    <3> QED
      BY <2>5, <2>6, <3>1 DEF Serves
  <2> QED
    BY <1>1, <1>2, <1>3, <1>5, <1>6, <2>2, <2>4, <2>7, AlongCarries, SaveWrites
<1> QED
  BY <1>7, <1>8

LEMMA SaveSnapObservations ==
    ASSUME PlanInv, [Next]_vars, SaveInv, NEW r \in Requests, SnapObservations(r)
    PROVE  SaveInv'
<1>1. PICK n : /\ Becomes(r, n) /\ Within(req[r], n) /\ n.pc = "clear_obs"
               /\ n.id = req[r].id
               /\ n.snap = {o.id : o \in Visible(ObsOf({req[r].id}), r)}
  BY SnapObservationsMove DEF PlanInv
<1>2. PICK q : q = req[r] /\ q.pc = "snap_obs"
  BY DEF SnapObservations
<1>3. UNCHANGED tables /\ Frame(r)
  BY QuietFrame DEF SnapObservations
<1>4. Along(q, n)
  BY <1>1, <1>2 DEF Along, Within, Ended
<1>5. NamesOf(n)'
  <2>1. NamesOf(q)
    BY <1>2 DEF SaveInv, Serves
  <2>2. NamesOf(n)
    BY <1>1, <1>2, <1>4, <2>1 DEF NamesOf, Replacing, Along, SaveItem
  <2> QED
    BY <1>3, <2>2, NamesStay
<1>6. SnapOf(n)
  <2>1. ASSUME NEW i \in n.snap
        PROVE  /\ i \in 1 .. nextID - 1
               /\ \A o \in observations : o.id = i => o.entity = n.id
    <3>1. PICK o \in observations : o.id = i /\ o.entity = n.id
      BY <1>1, <2>1 DEF Visible, ObsOf
    <3> QED
      BY <3>1 DEF PlanInv, Inv, Tables, Numbered, Keys, Fixed
  <2> QED
    BY <2>1 DEF SnapOf
<1>7. SnapOf(n)'
  BY <1>3, <1>6, SnapStays
<1>8. ProgressOf(n, r)' /\ ReadOf(n)' /\ ReaderOf(n)' /\ SeenOf(n)'
  BY <1>1 DEF ProgressOf, Holding, ReadOf, ReaderOf, SeenOf
<1>9. Serves(n, r)'
  BY <1>5, <1>7, <1>8 DEF Serves
<1> QED
  BY <1>1, <1>2, <1>3, <1>4, <1>9, AlongCarries, SaveQuiet

LEMMA SaveClearObservations ==
    ASSUME PlanInv, [Next]_vars, SaveInv, NEW r \in Requests, ClearObservations(r)
    PROVE  SaveInv'
<1>1. PICK n : /\ Becomes(r, n) /\ Within(req[r], n) /\ PlanOf(n)
               /\ n.id = req[r].id /\ Followed(req[r], n, req[r].contents)
  BY ClearObservationsMove DEF PlanInv
<1>2. PICK q : q = req[r] /\ PlanOf(q) /\ q.pc = "clear_obs" /\ Serves(q, r)
  BY DEF ClearObservations, PlanInv, Planned, SaveInv
<1>3. Head(q.plan).replace /\ q.contents = Head(q.items).obs
  BY <1>2, AtItem DEF ItemPcs, Loops
<1>4. Clean(r)
  BY <1>2 DEF PlanInv, Ready, Due
<1>5. PICK V : /\ Writes(r, {}, {}, V, {}, {}, {}, {})
               /\ \A v \in V : v \in observations /\ v.id \in q.snap
               /\ nextID' = nextID
  BY <1>2, <1>4, ClearObservationsWrites DEF PlanInv
<1>6. Founded(r, {}, {}, V, {})
  BY <1>5, NothingFounded
<1>7. Frame(r)
  BY <1>5, <1>6, WritesFrame
<1>8. n.pc \in {"insert_obs", "commit"} /\ n.plan = q.plan /\ Along(q, n)
  <2>1. n.pc \in {"insert_obs", "commit"}
    BY <1>1, <1>2, <1>3, SaveFollows DEF ItemPcs
  <2> QED
    BY <1>1, <1>2, <2>1 DEF Within, Along, Ended
<1>9. Holding(n) /\ Head(n.plan).do = "items"
  BY <1>2, <1>3, <1>8, AtItem DEF Holding, Replacing, Ended, ItemPcs
<1>10. \A v \in V : n.id = v.entity
  BY <1>1, <1>2, <1>5 DEF Serves, SnapOf
<1>11. NamesOf(n)'
  <2>1. NamesOf(n)
    BY <1>1, <1>2, <1>8, <1>9 DEF Serves, NamesOf, Replacing, Holding, SaveItem, Ended
  <2> QED
    BY <1>7, <2>1, NamesStay
<1>12. ProgressOf(n, r)'
  BY <1>1, <1>2, <1>3, <1>8, AllToCome DEF ItemPcs
<1>13. Serves(n, r)'
  <2>1. SnapOf(n)' /\ ReadOf(n)' /\ ReaderOf(n)' /\ SeenOf(n)'
    BY <1>8, <1>9 DEF SnapOf, ReadOf, ReaderOf, SeenOf
  <2> QED
    BY <1>11, <1>12, <2>1 DEF Serves
<1> QED
  BY <1>1, <1>2, <1>5, <1>6, <1>8, <1>9, <1>10, <1>13, AlongCarries, SaveWrites

LEMMA SaveInsertObservation ==
    ASSUME PlanInv, [Next]_vars, SaveInv, NEW r \in Requests,
           InsertObservation(r), ~Fail(r)
    PROVE  SaveInv'
<1>1. PICK n : /\ Becomes(r, n) /\ Within(req[r], n) /\ PlanOf(n)
               /\ n.id = req[r].id
               /\ Followed(req[r], n, Tail(req[r].contents))
               /\ Range(req[r].contents)
                     = {Head(req[r].contents)} \cup Range(Tail(req[r].contents))
  BY InsertObservationMove DEF PlanInv
<1>2. PICK q : q = req[r] /\ PlanOf(q) /\ q.pc = "insert_obs" /\ Serves(q, r)
  BY DEF InsertObservation, PlanInv, Planned, SaveInv
<1>3. PICK o, H : /\ Writes(r, {}, {}, {}, {o}, {}, {}, H)
                  /\ o.id = nextID /\ o.entity = q.id
                  /\ o.content = Head(q.contents) /\ nextID' = nextID + 1
  BY <1>2, InsertObservationWrites
<1>4. nextID \in Nat \ {0}
  BY DEF PlanInv, Inv, Tables
<1>5. Founded(r, {}, {}, {}, {o})
  BY <1>3, <1>4 DEF Founded
<1>6. Frame(r)
  BY <1>3, <1>5, WritesFrame
<1>7. \A v \in observations : v.id # nextID
  BY <1>4 DEF PlanInv, Inv, Tables, Numbered
<1>8. n.plan = q.plan /\ Head(n.plan).do = "items"
  BY <1>1, <1>2, AtItem DEF Within, ItemPcs
<1>9. CASE ~Head(q.plan).replace
  <2>1. n.pc \in {"insert_obs", "find_item", "find_from", "commit"}
    BY <1>1, <1>2, LoopPcs DEF Followed
  <2>2. Plain(n) /\ ~Replacing(n)
    BY <1>8, <1>9, <2>1 DEF Plain, Replacing
  <2>3. Carries(r, n)
    BY <1>2, <1>9, <2>2 DEF Carries, Holding, Replacing
  <2> QED
    BY <1>1, <1>3, <1>5, <1>7, <2>2, <2>3, PlainServes, SaveWrites
<1>10. CASE Head(q.plan).replace
  <2>1. n.pc \in {"insert_obs", "commit"}
    BY <1>1, <1>2, <1>10, SaveFollows DEF ItemPcs
  <2>2. Holding(q) /\ Holding(n)
    BY <1>2, <1>8, <1>10, <2>1 DEF Holding, Replacing, Ended
  <2>3. Carries(r, n)
    BY <1>1, <1>2, <2>2 DEF Carries, Holding
  <2>4. NamesOf(n)'
    <3>1. NamesOf(n)
      BY <1>1, <1>2, <1>8, <2>1, <2>2 DEF Serves, NamesOf, Holding, SaveItem
    <3> QED
      BY <1>6, <3>1, NamesStay
  <2>5. ProgressOf(n, r)'
    <3>1. PICK rest : rest = Tail(q.contents) /\ n.contents = rest
                      /\ (rest # << >> => n.pc = "insert_obs")
      BY <1>1, <1>2 DEF Followed
    <3>2. rest = << >> => Range(rest) = {}
      BY DEF Range
    <3>3. ASSUME NEW content \in Range(SaveItem(n).obs)
          PROVE  \/ n.pc = "insert_obs" /\ content \in Range(n.contents)
                 \/ Put(r, n.id, content)'
      <4>1. \/ content = Head(q.contents)
            \/ content \in Range(rest)
            \/ Put(r, q.id, content)
        <5>1. content \in Range(q.contents) \/ Put(r, q.id, content)
          BY <1>2, <1>8, <2>2 DEF Serves, ProgressOf, SaveItem
        <5>2. Range(q.contents) = {Head(q.contents)} \cup Range(rest)
          BY <1>1, <1>2, <3>1
        <5> QED
          BY <5>1, <5>2
      <4>2. observations' = observations \cup {o} /\ o.by = r
        BY <1>3 DEF Writes, Wrote, Remove
      <4>3. CASE content = Head(q.contents)
        BY <1>1, <1>2, <1>3, <4>2, <4>3 DEF Put
      <4>4. CASE content \in Range(rest)
        BY <3>1, <3>2, <4>4
      <4>5. CASE Put(r, q.id, content)
        BY <1>1, <1>2, <4>2, <4>5 DEF Put
      <4> QED
        BY <4>1, <4>3, <4>4, <4>5
    <3> QED
      BY <3>3 DEF ProgressOf
  <2>6. Serves(n, r)'
    <3>1. SnapOf(n)' /\ ReadOf(n)' /\ ReaderOf(n)' /\ SeenOf(n)'
      BY <1>8, <2>1 DEF SnapOf, ReadOf, ReaderOf, SeenOf
    <3> QED
      BY <2>4, <2>5, <3>1 DEF Serves
  <2> QED
    BY <1>1, <1>3, <1>5, <1>7, <2>3, <2>6, SaveWrites
<1> QED
  BY <1>9, <1>10

LEMMA SaveInsertRelation ==
    ASSUME PlanInv, [Next]_vars, SaveInv, NEW r \in Requests,
           InsertRelation(r), ~Fail(r)
    PROVE  SaveInv'
<1>1. PICK n : /\ Becomes(r, n) /\ Within(req[r], n)
               /\ n.pc \in {"find_from", "commit"}
  BY InsertRelationMove DEF PlanInv
<1>2. PICK q : q = req[r] /\ PlanOf(q) /\ q.pc = "insert_rel"
  BY DEF InsertRelation, PlanInv, Planned
<1>3. PICK N : Writes(r, {}, {}, {}, {}, {}, N, {})
  BY InsertRelationWrites
<1>4. nextID' \in Nat /\ nextID' >= nextID
  <2>1. nextID \in Nat
    BY DEF PlanInv, Inv, Tables
  <2>2. nextID' \in {nextID, nextID + 1}
    BY DEF InsertRelation, Fail
  <2> QED
    BY <2>1, <2>2
<1>5. Founded(r, {}, {}, {}, {})
  BY <1>4 DEF Founded
<1>6. Along(q, n)
  BY <1>1, <1>2 DEF Along, Within, Ended
<1>7. Plain(n)
  <2>1. ~Head(n.plan).replace /\ Head(n.plan).do = "items"
    BY <1>2, <1>6, AtTriple DEF TriplePcs, Along
  <2> QED
    BY <1>1, <2>1 DEF Plain, Replacing
<1> QED
  BY <1>1, <1>2, <1>3, <1>5, <1>6, <1>7, AlongCarries, PlainServes, SaveWrites

\* The calls that create nothing work on no checkpoint.
LEMMA OtherCall ==
    ASSUME PlanInv, NEW r \in Requests, NEW n, PlanOf(n), n.plan = req[r].plan,
           req[r].pc \in {"delete_entities", "cascade", "update_entity", "check_name",
                          "rename", "write_obs", "delete_rel",
                          "delete_rel_by_triple", "log", "log_insert"},
           n.pc \in Followers \ {"write_obs"}
    PROVE  Plain(n) /\ ~Replacing(n) /\ Carries(r, n)
<1>1. PICK q : q = req[r] /\ PlanOf(q)
  BY DEF PlanInv, Planned
<1>2. Stands(q.pc, Head(q.plan).do) /\ q.pc \notin Ended
  BY <1>1 DEF PlanOf, Ended
<1>3. Head(q.plan).do \notin {"items", "read_graph"}
  BY <1>1, <1>2 DEF Stands, ItemPcs, TriplePcs, ObsKinds
<1>4. n.pc \notin Ended /\ Stands(n.pc, Head(n.plan).do)
  BY DEF PlanOf, Ended, Followers
<1>5. n.pc \notin {"read_graph_obs", "clear_obs", "write_obs"}
  BY <1>1, <1>3, <1>4 DEF Stands, ItemPcs, TriplePcs, ObsKinds, Followers
<1> QED
  BY <1>1, <1>3, <1>5 DEF Plain, Replacing, Carries, Holding

LEMMA SaveReads ==
    ASSUME PlanInv, [Next]_vars, SaveInv, NEW r \in Requests, ~Fail(r),
           SnapEntities(r) \/ ReadEntity(r) \/ CheckName(r) \/ LogLookup(r)
    PROVE  SaveInv'
<1>1. PICK n : /\ Becomes(r, n) /\ PlanOf(n) /\ n.plan = req[r].plan
               /\ n.pc \in Followers \ {"write_obs"} /\ UNCHANGED tables
  BY ReadsMove DEF Reads
<1>2. req[r].pc \in {"delete_entities", "update_entity", "check_name", "log"}
  BY DEF SnapEntities, ReadEntity, CheckName, LogLookup
<1>3. Plain(n) /\ Carries(r, n)
  BY <1>1, <1>2, OtherCall
<1> QED
  BY <1>1, <1>3, PlainServes, SaveQuiet

LEMMA LastIsPlain ==
    ASSUME PlanInv, NEW r \in Requests, Last(r), ~Fail(r)
    PROVE  \E n : Becomes(r, n) /\ Plain(n) /\ ~Replacing(n) /\ Carries(r, n)
<1>1. PICK n : Becomes(r, n) /\ Within(req[r], n) /\ PlanOf(n) /\ n.pc = "commit"
  BY LastIsLast
<1>2. req[r].pc \in {"cascade", "rename", "write_obs", "delete_rel",
                     "delete_rel_by_triple", "log_insert"}
  BY DEF Last, Cascade, Rename, EraseObservation, WriteObservation,
         EraseRelation, LogInsert
<1> QED
  BY <1>1, <1>2, OtherCall DEF Within, Followers

LEMMA SaveRename ==
    ASSUME PlanInv, [Next]_vars, SaveInv, NEW r \in Requests, Rename(r), ~Fail(r)
    PROVE  SaveInv'
<1>1. PICK n : Becomes(r, n) /\ Plain(n) /\ ~Replacing(n) /\ Carries(r, n)
  BY LastIsPlain DEF Last
<1>2. PICK VE, NE, H :
         /\ Writes(r, VE, NE, {}, {}, {}, {}, H) /\ nextID' = nextID + 2
         /\ \A e \in NE : /\ e.name = Call(r).newName
                          /\ e.project = Call(r).project
                          /\ \E v \in VE : v.id = e.id /\ v.project = e.project
  BY RenameWrites DEF PlanInv
<1>3. \A e \in NE : NamedByHand(e.project, e.name)'
  <2>1. PICK q, c, project, name :
           /\ q = req[r] /\ c = Head(q.plan) /\ project = c.project
           /\ name = c.newName
    OBVIOUS
  <2>2. PlanOf(q) /\ q.pc = "rename"
    BY <2>1 DEF PlanInv, Planned, Rename
  <2>3. c.do = "update_entity"
    BY <2>1, <2>2 DEF PlanOf, Stands, Ended, ItemPcs, TriplePcs, ObsKinds
  <2>4. c \in Asked(r)
    BY <2>1, <2>2, NextCall DEF PlanOf, Ended, Asked
  <2>5. NamedByHand(project, name)
    BY <2>1, <2>3, <2>4 DEF NamedByHand
  <2>6. NamedByHand(project, name)'
    BY <2>5, HandStays
  <2>7. \A e \in NE : e.project = project /\ e.name = name
    BY <1>2, <2>1 DEF Call
  <2> QED
    BY <2>6, <2>7
<1>4. Founded(r, VE, NE, {}, {})
  <2>1. nextID' \in Nat /\ nextID' >= nextID
    BY <1>2 DEF PlanInv, Inv, Tables
  <2> QED
    BY <1>2, <1>3, <2>1 DEF Founded
<1> QED
  BY <1>1, <1>2, <1>3, <1>4, PlainServes, SaveWrites

LEMMA SaveCascade ==
    ASSUME PlanInv, [Next]_vars, SaveInv, NEW r \in Requests, Cascade(r), ~Fail(r)
    PROVE  SaveInv'
<1>1. PICK n : Becomes(r, n) /\ Plain(n) /\ ~Replacing(n) /\ Carries(r, n)
  BY LastIsPlain DEF Last
<1>2. PICK VE, VO, VR :
         /\ Writes(r, VE, {}, VO, {}, VR, {}, {}) /\ nextID' = nextID
         /\ \A o \in VO : \E e \in VE : e.id = o.entity
         /\ \A e \in VE : \A f \in entities : f.id = e.id => f = e
  BY CascadeWrites DEF PlanInv
<1>3. \A v \in VO : Doomed(v.entity, r)'
  <2> SUFFICES ASSUME NEW v \in VO, NEW x \in entities', x.id = v.entity
               PROVE  x.by = Nil /\ x.gone = r
    BY DEF Doomed
  <2>1. PICK e \in VE : e.id = v.entity
    BY <1>2
  <2>2. Rows(entities, EntityColumns) /\ Wrote(entities, VE, {}, r, entities')
    BY <1>2 DEF PlanInv, Inv, Tables, Writes
  <2>3. PICK d : After(entities, VE, r, EntityColumns, d, x)
    BY <2>2, WroteRows, ColumnsOfTables
  <2>4. d \in entities /\ d.id = e.id
    BY <2>1, <2>3 DEF After, SameOn, EntityColumns
  <2>5. d \in VE
    BY <1>2, <2>4
  <2> QED
    BY <2>3, <2>5 DEF After
<1>4. Founded(r, VE, {}, VO, {})
  BY <1>2, NothingFounded
<1> QED
  BY <1>1, <1>2, <1>3, <1>4, PlainServes, SaveWrites

LEMMA SaveEraseObservation ==
    ASSUME PlanInv, [Next]_vars, SaveInv, NEW r \in Requests,
           EraseObservation(r), ~Fail(r)
    PROVE  SaveInv'
<1>1. PICK n : Becomes(r, n) /\ Plain(n) /\ ~Replacing(n) /\ Carries(r, n)
  BY LastIsPlain DEF Last
<1>2. PICK V, h :
         /\ Writes(r, {}, {}, V, {}, {}, {}, {h}) /\ nextID' = nextID + 1
         /\ \A v \in V : v \in observations /\ v.id = req[r].obs
         /\ h.action = "observation_deleted" /\ h.entity = req[r].id
  BY EraseObservationWrites DEF PlanInv
<1>3. \A v \in V : EditedBy(v.entity, r)'
  <2>1. PICK q : q = req[r] /\ q.pc = "write_obs" /\ ReadOf(q)
    BY DEF EraseObservation, SaveInv, Serves
  <2>2. \A v \in V : v.entity = h.entity
    BY <1>2, <2>1 DEF ReadOf
  <2>3. h \in history' /\ h.by = r
    BY <1>2 DEF Writes
  <2> QED
    BY <1>2, <2>2, <2>3 DEF EditedBy, Edits
<1>4. Founded(r, {}, {}, V, {})
  BY <1>2 DEF Founded, PlanInv, Inv, Tables
<1> QED
  BY <1>1, <1>2, <1>3, <1>4, PlainServes, SaveWrites

LEMMA SaveWriteObservation ==
    ASSUME PlanInv, [Next]_vars, SaveInv, NEW r \in Requests,
           WriteObservation(r), ~Fail(r)
    PROVE  SaveInv'
<1>1. PICK n : Becomes(r, n) /\ Plain(n) /\ ~Replacing(n) /\ Carries(r, n)
  BY LastIsPlain DEF Last
<1>2. PICK V, N, H : /\ Writes(r, {}, {}, V, N, {}, {}, H)
                     /\ nextID' = nextID + 1
                     /\ Overwrites(r, V, N) /\ Tells(r, H)
  BY WriteObservationWrites DEF PlanInv
<1>3. Founded(r, {}, {}, V, N)
  BY <1>2 DEF Founded, Overwrites, PlanInv, Inv, Tables
<1>4. /\ \A v \in V : EditedBy(v.entity, r)' \/ Renewed(v, r)'
      /\ \A w \in N : \A v \in observations : v.by = Nil /\ v.id = w.id =>
            w.content = v.content \/ EditedBy(v.entity, r)'
  <2>1. CASE V = {} /\ N = {}
    BY <2>1
  <2>2. CASE ~(V = {} /\ N = {})
    <3>1. PICK q : q = req[r] /\ q.pc = "write_obs" /\ ReadOf(q)
      BY DEF WriteObservation, SaveInv, Serves
    <3>2. PICK o, w :
             /\ o \in observations /\ V = {o} /\ N = {w} /\ o.id = q.obs /\ w.id = o.id
             /\ w.content = Call(r).new
             /\ \A v \in observations : v.id = o.id => v = o
      BY <1>2, <2>2, <3>1 DEF Overwrites
    <3>3. o.by = Nil /\ w \in observations' /\ w.by = r
      BY <1>2, <3>2 DEF Writes, Wrote
    <3>4. o.entity = q.id /\ (o.content = q.old \/ Edited(q.id))
      BY <3>1, <3>2, <3>3 DEF ReadOf
    <3>5. PICK entity : entity = o.entity
      OBVIOUS
    <3>6. EditedBy(entity, r)' \/ w.content = o.content
      <4>1. CASE \E h : /\ H = {h} /\ h.action = "observation_updated"
                        /\ h.entity = req[r].id
        <5>1. PICK h \in H : h.action = "observation_updated" /\ h.entity = q.id
          BY <3>1, <4>1
        <5>2. h \in history' /\ h.by = r
          BY <1>2, <5>1 DEF Writes
        <5> QED
          BY <3>4, <3>5, <5>1, <5>2 DEF EditedBy, Edits
      <4>2. CASE H = {} /\ req[r].old = Call(r).new
        <5>1. CASE o.content = q.old
          BY <3>1, <3>2, <4>2, <5>1
        <5>2. CASE Edited(q.id)
          <6>1. EditedBy(entity, r)
            BY <3>4, <3>5, <5>2 DEF Edited, EditedBy, Trail, Committed, Edits
          <6>2. history \subseteq history'
            BY <1>2 DEF Writes
          <6> QED
            BY <6>1, <6>2 DEF EditedBy
        <5> QED
          BY <3>4, <5>1, <5>2
      <4> QED
        BY <1>2, <4>1, <4>2 DEF Tells
    <3>7. w.content = o.content => Renewed(o, r)'
      BY <3>2, <3>3 DEF Renewed
    <3> QED
      BY <3>2, <3>5, <3>6, <3>7
  <2> QED
    BY <2>1, <2>2
<1> QED
  BY <1>1, <1>2, <1>3, <1>4, PlainServes, SaveWrites

LEMMA SaveOtherWrites ==
    ASSUME PlanInv, [Next]_vars, SaveInv, NEW r \in Requests, ~Fail(r),
           EraseRelation(r) \/ LogInsert(r)
    PROVE  SaveInv'
<1>1. PICK n : Becomes(r, n) /\ Plain(n) /\ ~Replacing(n) /\ Carries(r, n)
  BY LastIsPlain DEF Last
<1>2. PICK V, H : /\ Writes(r, {}, {}, {}, {}, V, {}, H)
                  /\ nextID' \in {nextID, nextID + 1}
  BY EraseRelationWrites, LogInsertWrites DEF PlanInv
<1>3. Founded(r, {}, {}, {}, {})
  BY <1>2 DEF Founded, PlanInv, Inv, Tables
<1> QED
  BY <1>1, <1>2, <1>3, PlainServes, SaveWrites

\* An edit knows the content it is about to replace.
LEMMA SaveFindObservation ==
    ASSUME PlanInv, [Next]_vars, SaveInv, NEW r \in Requests,
           FindObservation(r), ~Fail(r)
    PROVE  SaveInv'
<1>1. PICK n, o, e :
         /\ Becomes(r, n) /\ PlanOf(n) /\ n.plan = req[r].plan
         /\ Found(r, o, e) /\ n.pc = "write_obs" /\ n.id = e.id
         /\ n.obs = o.id /\ n.old = o.content
         /\ UNCHANGED tables
  BY FindObservationMove DEF PlanInv
<1>2. req[r].pc \in ObsKinds
  BY DEF FindObservation, ObsKinds
<1>3. Clean(r)
  BY <1>2 DEF PlanInv, Inv, Requested, Local, Open, ObsKinds
<1>4. /\ o \in observations /\ o.by = Nil /\ o.entity = n.id
  BY <1>1, <1>3 DEF Found, Visible, Clean, Untouched
<1>5. ReadOf(n)
  <2>1. ASSUME NEW p \in observations, p.id = n.obs
        PROVE  p.entity = n.id /\ (p.by = Nil => p.content = n.old)
    <3>1. p.entity = o.entity
      BY <1>1, <1>4, <2>1 DEF PlanInv, Inv, Keys, Fixed
    <3>2. p.by = Nil => p = o
      <4>1. SameOn({"id"}, p, o)
        BY <1>1, <2>1 DEF SameOn
      <4>2. Alt(p, o)
        BY <1>4, <4>1 DEF PlanInv, Inv, Keys, Unique
      <4> QED
        BY <1>4, <4>2 DEF Alt, Replaced
    <3> QED
      BY <1>1, <1>4, <3>1, <3>2
  <2> QED
    BY <2>1 DEF ReadOf
<1>6. ReadOf(n)'
  BY <1>1, <1>5 DEF ReadOf, tables, Edited, Trail
<1>7. ~Replacing(n)
  <2>1. Stands(n.pc, Head(n.plan).do)
    BY <1>1 DEF PlanOf, Ended
  <2> QED
    BY <1>1, <2>1 DEF Stands, Replacing, ItemPcs, TriplePcs, ObsKinds
<1>8. Serves(n, r)'
  <2>1. NamesOf(n)' /\ ProgressOf(n, r)' /\ SnapOf(n)' /\ ReaderOf(n)' /\ SeenOf(n)'
    BY <1>1, <1>7 DEF NamesOf, ProgressOf, Holding, SnapOf, ReaderOf, SeenOf
  <2> QED
    BY <1>6, <2>1 DEF Serves
<1>9. Carries(r, n)
  BY <1>2, <1>7 DEF Carries, Holding, ObsKinds
<1> QED
  BY <1>1, <1>8, <1>9, SaveQuiet

\* A reader finds a whole checkpoint ...
LEMMA SaveReadEntities ==
    ASSUME PlanInv, [Next]_vars, SaveInv, NEW r \in Requests, ReadGraphEntities(r)
    PROVE  SaveInv'
<1>1. PICK n : /\ Becomes(r, n) /\ Within(req[r], n) /\ PlanOf(n)
               /\ n.pc = "read_graph_obs" /\ LookedUp(r, n)
  BY ReadGraphEntitiesMove DEF PlanInv
<1>2. req[r].pc = "read_graph" /\ UNCHANGED tables
  BY DEF ReadGraphEntities
<1>3. Clean(r)
  BY <1>2 DEF PlanInv, Inv, Requested, Local, Open
<1>4. Call(r) = Head(n.plan)
  BY <1>1 DEF Within, Call
<1>5. ReaderOf(n)
  <2>1. CASE n.id = Nil
    BY <2>1 DEF ReaderOf
  <2>2. CASE \E e \in Visible(Named(Call(r).project, Call(r).name), r) : n.id = e.id
    <3>1. PICK e \in entities :
             /\ n.id = e.id /\ e.by = Nil
             /\ e.project = Head(n.plan).project /\ e.name = Head(n.plan).name
      BY <1>3, <1>4, <2>2 DEF Visible, Named, Clean, Untouched
    <3>2. InProject(n.id, Head(n.plan).project)
      BY <3>1 DEF InProject, PlanInv, Inv, Tables, Numbered, Keys, Fixed
    <3>3. NamedByHand(e.project, e.name) \/ Kept(SavesOf(e.project, e.name), e.id)
      BY <3>1 DEF SaveInv, WholeIn
    <3>4. SavesOf(e.project, e.name) \subseteq SavesIn(e.project)
      BY DEF SavesOf
    <3>5. Kept(SavesOf(e.project, e.name), e.id) => Kept(SavesIn(e.project), e.id)
      BY <3>4 DEF Kept, HoldsOne
    <3> QED
      BY <3>1, <3>2, <3>3, <3>5 DEF ReaderOf
  <2> QED
    BY <1>1, <2>1, <2>2 DEF LookedUp
<1>6. ReaderOf(n)'
  BY <1>2, <1>5, QuietFrame, ReaderStays
<1>7. ~Replacing(n)
  <2>1. Stands(n.pc, Head(n.plan).do)
    BY <1>1 DEF PlanOf, Ended
  <2> QED
    BY <1>1, <2>1 DEF Stands, Replacing, ItemPcs, TriplePcs, ObsKinds
<1>8. Serves(n, r)'
  <2>1. NamesOf(n)' /\ ProgressOf(n, r)' /\ SnapOf(n)' /\ ReadOf(n)' /\ SeenOf(n)'
    BY <1>1, <1>7 DEF NamesOf, ProgressOf, Holding, SnapOf, ReadOf, SeenOf
  <2> QED
    BY <1>6, <2>1 DEF Serves
<1>9. Carries(r, n)
  BY <1>2, <1>7 DEF Carries, Holding
<1> QED
  BY <1>1, <1>2, <1>8, <1>9, SaveQuiet

\* ... and reads what it holds then, or nothing when it is gone by then, unless
\* its result is cut off.
LEMMA SaveReadObservations ==
    ASSUME PlanInv, [Next]_vars, SaveInv, NEW r \in Requests,
           ReadGraphObservations(r)
    PROVE  SaveInv'
<1>1. PICK n : /\ Becomes(r, n) /\ PlanOf(n) /\ n.plan = req[r].plan
               /\ n.pc = "commit" /\ n.id = req[r].id
               /\ \/ n.cut
                  \/ n.seen = {o.content : o \in {p \in Visible(observations, r) :
                                                     p.entity = req[r].id}}
  BY ReadGraphObservationsMove DEF PlanInv
<1>2. PICK q : q = req[r] /\ q.pc = "read_graph_obs" /\ PlanOf(q) /\ ReaderOf(q)
  BY DEF ReadGraphObservations, PlanInv, Planned, SaveInv, Serves
<1>3. UNCHANGED tables
  BY DEF ReadGraphObservations
<1>4. Clean(r)
  BY <1>2 DEF PlanInv, Inv, Requested, Local, Open
<1>5. n.cut \/ n.seen = Contents(n.id)
  <2>1. Visible(observations, r) = Obs
    BY <1>4, PlanAssumption DEF Visible, Obs, Committed, Clean, Untouched
  <2> QED
    BY <1>1, <2>1 DEF Contents
<1>6. ASSUME NEW o \in observations
      PROVE  \E e \in entities : e.id = o.entity /\ e.id \in Nat
  <2>1. Refers(entities, o, "entity")
    BY DEF PlanInv, Inv, ForeignKeys, References
  <2>2. PICK e \in entities : e.id = o.entity
    BY <2>1 DEF Refers, Lives, Going
  <2>3. e.id \in 1 .. nextID - 1 /\ nextID \in Nat
    BY DEF PlanInv, Inv, Tables, Numbered
  <2> QED
    BY <2>2, <2>3
<1>7. SeenOf(n)
  <2>1. CASE n.id = Nil \/ n.cut
    BY <2>1 DEF SeenOf
  <2>2. CASE n.id # Nil /\ ~n.cut
    <3>1. /\ InProject(n.id, Head(n.plan).project)
          /\ \/ NamedByHand(Head(n.plan).project, Head(n.plan).name)
             \/ Kept(SavesIn(Head(n.plan).project), n.id)
      BY <1>1, <1>2, <2>2 DEF ReaderOf
    <3>2. Absent(n.id) => Contents(n.id) = {}
      BY <1>6 DEF Absent, Contents, Obs, Committed
    <3> QED
      BY <1>5, <2>2, <3>1, <3>2 DEF SeenOf, Kept
  <2> QED
    BY <2>1, <2>2
<1>8. SeenOf(n)'
  BY <1>3, <1>7, QuietFrame, SeenStays
<1>9. ~Replacing(n) /\ Carries(r, n)
  <2>1. Stands(q.pc, Head(q.plan).do)
    BY <1>2 DEF PlanOf, Ended
  <2>2. Head(n.plan).do # "items"
    BY <1>1, <1>2, <2>1 DEF Stands, ItemPcs, TriplePcs, ObsKinds
  <2> QED
    BY <1>2, <2>2 DEF Carries, Holding, Replacing
<1>10. Serves(n, r)'
  <2>1. NamesOf(n)' /\ ProgressOf(n, r)' /\ SnapOf(n)' /\ ReadOf(n)' /\ ReaderOf(n)'
    BY <1>1, <1>9 DEF NamesOf, ProgressOf, Holding, SnapOf, ReadOf, ReaderOf
  <2> QED
    BY <1>8, <2>1 DEF Serves
<1> QED
  BY <1>1, <1>3, <1>9, <1>10, SaveQuiet

LEMMA SaveNext ==
    ASSUME PlanInv, Audit, SaveInv, [Next]_vars
    PROVE  SaveInv'
<1>1. CASE UNCHANGED vars
  <2>1. /\ entities' = entities /\ observations' = observations
        /\ history' = history /\ nextID' = nextID /\ req' = req
    BY <1>1 DEF vars
  <2>2. \A project, name : NamedByHand(project, name) => NamedByHand(project, name)'
    BY <2>1 DEF NamedByHand, Asked
  <2>3. /\ \A id : Edited(id)' <=> Edited(id)
        /\ \A id : Absent(id)' <=> Absent(id)
        /\ \A id : Contents(id)' = Contents(id)
    BY <2>1 DEF Edited, Trail, Absent, Contents, Obs
  <2>4. \A project, name : /\ SavesIn(project)' = SavesIn(project)
                            /\ SavesOf(project, name)' = SavesOf(project, name)
    BY <2>1 DEF SavesIn, SavesOf, IsSave
  <2>5. \A saves, id, S : HoldsOne(saves, id, S)' <=> HoldsOne(saves, id, S)
    BY <2>1 DEF HoldsOne, SavedContents
  <2>6. \A saves, id : Kept(saves, id)' <=> Kept(saves, id)
    BY <2>3, <2>5 DEF Kept
  <2>7. ASSUME NEW e \in entities PROVE Owned(e)' /\ Spared(e)' /\ WholeIn(e)'
    <3>1. Owned(e) /\ Spared(e) /\ WholeIn(e)
      BY DEF SaveInv
    <3>2. PICK id, project, name : id = e.id /\ project = e.project /\ name = e.name
      OBVIOUS
    <3>3. e.by = Nil => NamedByHand(project, name)'
                          \/ Kept(SavesOf(project, name), id)'
      BY <2>2, <2>4, <2>6, <3>1, <3>2 DEF WholeIn
    <3> QED
      BY <2>1, <2>2, <3>1, <3>2, <3>3 DEF Owned, Spared, WholeIn
  <2>8. /\ \A v \in observations : Marked(v)'
        /\ \A w, v \in observations : Rewrites(w, v)'
    <3>1. /\ \A id, s : Doomed(id, s) => Doomed(id, s)'
          /\ \A id, s : EditedBy(id, s) => EditedBy(id, s)'
          /\ \A v, s : Renewed(v, s) => Renewed(v, s)'
      BY <2>1 DEF Doomed, EditedBy, Renewed
    <3> QED
      BY <2>1, <3>1 DEF SaveInv, Marked, Rewrites
  <2>9. ASSUME NEW s \in Requests PROVE Serves(req[s], s)'
    <3>1. PICK q : q = req[s] /\ q = req'[s]
      BY <2>1
    <3>2. /\ NamesOf(q) /\ ProgressOf(q, s) /\ SnapOf(q) /\ ReadOf(q)
          /\ ReaderOf(q) /\ SeenOf(q)
      BY <3>1 DEF SaveInv, Serves
    <3>3. Frame(s)
      BY <2>1, QuietFrame, <1>1 DEF vars, tables
    <3>4. NamesOf(q)' /\ SnapOf(q)' /\ ReaderOf(q)' /\ SeenOf(q)'
      BY <3>2, <3>3, NamesStay, SnapStays, ReaderStays, SeenStays
    <3>5. ProgressOf(q, s)' /\ ReadOf(q)'
      BY <2>1, <2>3, <3>2 DEF ProgressOf, Put, ReadOf
    <3>6. Serves(q, s)'
      BY <3>4, <3>5 DEF Serves
    <3> QED
      BY <3>1, <3>6
  <2> QED
    BY <2>1, <2>7, <2>8, <2>9 DEF SaveInv
<1>2. ASSUME NEW r \in Requests, Step(r) \/ Abort(r) PROVE SaveInv'
  <2>1. CASE Fail(r)
    BY <1>2, <2>1, FailsRunning, SaveFails
  <2>2. CASE ~Fail(r)
    <3>1. \/ FindEntity(r) \/ InsertEntity(r) \/ SnapObservations(r)
          \/ ClearObservations(r) \/ InsertObservation(r) \/ InsertRelation(r)
          \/ CommitTx(r) \/ Single(r)
      BY <1>2, <2>2, Steps
    <3>2. Single(r) => SaveInv'
      BY <2>2, SaveReads, SaveCascade, SaveRename, SaveFindObservation,
         SaveEraseObservation, SaveWriteObservation, SaveOtherWrites,
         SaveReadEntities, SaveReadObservations DEF Single
    <3> QED
      BY <2>2, <3>1, <3>2, SaveFindEntity, SaveInsertEntity, SaveSnapObservations,
         SaveClearObservations, SaveInsertObservation, SaveInsertRelation, SaveCommits
  <2> QED
    BY <2>1, <2>2
<1> QED
  BY <1>1, <1>2, SaveBegins DEF Next

LEMMA InitSaveInv == Init => SaveInv
<1> SUFFICES ASSUME Init PROVE SaveInv
  OBVIOUS
<1>1. /\ \A e \in entities : /\ e.by = Nil /\ e.gone = Nil
                             /\ \E s \in SeedEntities : s.id = e.id
      /\ \A o \in observations : o.by = Nil /\ o.gone = Nil
  BY DEF Init
<1>2. ASSUME NEW id PROVE SeedContents(id) \subseteq Contents(id)
  <2>1. ASSUME NEW s \in SeedObservations, s.entity = id
        PROVE  s.content \in Contents(id)
    <3>1. PICK o : o = [by |-> Nil, gone |-> Nil, id |-> s.id, entity |-> s.entity,
                        content |-> s.content]
      OBVIOUS
    <3>2. o \in observations
      BY <3>1 DEF Init
    <3>3. o.by = Nil /\ o.entity = id /\ o.content = s.content
      BY <2>1, <3>1
    <3> QED
      BY <3>2, <3>3 DEF Contents, Obs, Committed
  <2> QED
    BY <2>1 DEF SeedContents
<1>3. \A e \in entities : Owned(e) /\ Spared(e) /\ WholeIn(e)
  BY <1>1, <1>2 DEF Owned, Spared, WholeIn, Kept, HoldsOne
<1>4. \A v \in observations : Marked(v)
  BY <1>1 DEF Marked
<1>5. \A w, v \in observations : Rewrites(w, v)
  BY <1>1 DEF Rewrites
<1>6. ASSUME NEW r \in Requests PROVE Serves(req[r], r)
  <2>1. req[r].pc = "idle"
    BY DEF Init, Fresh
  <2> QED
    BY <2>1 DEF Serves, NamesOf, ProgressOf, Holding, Replacing, Ended, SnapOf,
       ReadOf, ReaderOf, SeenOf
<1> QED
  BY <1>3, <1>4, <1>5, <1>6 DEF SaveInv

\* The active checkpoint is never seen half written, although a save replaces
\* it row by row while other saves, deletions and edits run, and any of them
\* may fail (ReplaceEntities in memory.go, one transaction).
THEOREM CheckpointIsWhole == Spec => []ActiveComplete
<1>1. PlanInv /\ Audit /\ SaveInv /\ [Next]_vars => SaveInv'
  BY SaveNext
<1>2. PlanInv /\ Audit /\ [Next]_vars => Audit'
  BY AuditNext
<1>3. SaveInv => ActiveComplete
  BY DEF SaveInv, ActiveComplete, Actives, Ents, Committed, WholeIn, Kept, Absent
<1> QED
  BY <1>1, <1>2, <1>3, InitAudit, InitSaveInv, PlanInvHolds, PTL DEF Spec

\* A session that starts is shown everything of at least one save in the
\* project, although two statements read the checkpoint and others write in
\* between; it is shown a blank checkpoint only when that was deleted between
\* the two.  Results that are cut off are excepted, by name: the code takes them
\* for whole ones (SessionBootstrap in checkpoint.go, ReadGraph in graph.go).
THEOREM BootstrapIsWhole == Spec => []BootstrapSeesASave
<1>1. PlanInv /\ Audit /\ SaveInv /\ [Next]_vars => SaveInv'
  BY SaveNext
<1>2. PlanInv /\ Audit /\ [Next]_vars => Audit'
  BY AuditNext
<1>3. SaveInv => BootstrapSeesASave
  BY DEF SaveInv, BootstrapSeesASave, Serves, SeenOf, Call, Absent, Ents, Committed
<1> QED
  BY <1>1, <1>2, <1>3, InitAudit, InitSaveInv, PlanInvHolds, PTL DEF Spec

(* ---- What the trail counts --------------------------------------------- *)

\* The trail has a row once.
OneEntry == \A h, k \in history : h.id = k.id => h = k

\* What a call may write into the trail.
Told(h, c) ==
    /\ h.action = "observation_created" =>
          /\ c.do = "items"
          /\ \E item \in Range(c.items) : h.new \in Range(item.obs)
    /\ h.action = "checkpoint_saved" => c.do = "log" /\ c.action = h.action

Source(h) == h.by # Nil => Told(h, Call(h.by))

\* The last two calls of a save write one entry each: the breadcrumb, and that
\* a checkpoint was saved.
Late(q) == IsSavePlan(q.asked) /\ q.pc \notin Ended /\ Len(q.plan) <= 2

Crumb(asked) == asked[3].items[1].obs[1]

Writing(q) ==
    Late(q) => /\ q.pc \in ItemPcs => q.items = Head(q.plan).items
               /\ q.pc = "insert_obs" => q.contents = Head(q.items).obs

Jotted(q, r) ==
    Late(q) =>
       IF q.pc = "commit"
       THEN \E h \in history :
               /\ h.by = r /\ \A k \in history : k.by = r => k = h
               /\ Len(q.plan) = 2 => /\ h.action = "observation_created"
                                     /\ h.new = Crumb(q.asked)
       ELSE \A h \in history : h.by # r

\* A save that recorded breadcrumb b, one that may have, and one that has but
\* not yet logged the event.
Crumbed(q, b) ==
    /\ IsSavePlan(q.asked) /\ Crumb(q.asked) = b
    /\ q.pc \notin {"idle", "failed"} /\ Len(q.plan) <= 1
MayHave(q, b) ==
    IsSavePlan(q.asked) /\ Crumb(q.asked) = b /\ Len(q.plan) <= 1
Pending(q) == IsSavePlan(q.asked) /\ q.pc \notin Ended /\ Len(q.plan) = 1

Recorded(b) == {r \in Requests : Crumbed(req[r], b)}
Candidates(b) == {r \in Requests : MayHave(req[r], b)}
Pendings == {r \in Requests : Pending(req[r])}
Asking == {r \in Requests : req[r].asked # << >>}

CrumbsOf(B) == {h \in Trail : h.action = "observation_created" /\ h.new \in B}
Events == {h \in Trail : h.action = "checkpoint_saved"}
Breadcrumbs == {Breadcrumb(r) : r \in {q \in Requests : IsSave(q)}}

Counted(b) ==
    /\ Cardinality(Recorded(b)) <= Cardinality(CrumbsOf({b}))
    /\ \/ WrittenByHand(b)
       \/ Cardinality(CrumbsOf({b})) <= Cardinality(Candidates(b))

Counts ==
    /\ \A b : Counted(b)
    /\ Cardinality(Events) + Cardinality(Pendings) <= Cardinality(CrumbsOf(Breadcrumbs))

(* ---- Finite sets -------------------------------------------------------- *)

LEMMA Smaller ==
    ASSUME NEW T, IsFiniteSet(T), NEW S, S \subseteq T
    PROVE  /\ IsFiniteSet(S) /\ Cardinality(S) \in Nat /\ Cardinality(T) \in Nat
           /\ Cardinality(S) <= Cardinality(T)
BY FS_Subset, FS_CardinalityType

LEMMA OneMore ==
    ASSUME NEW T, IsFiniteSet(T), NEW x
    PROVE  /\ IsFiniteSet(T \cup {x}) /\ Cardinality(T) \in Nat
           /\ Cardinality(T \cup {x}) \in Nat
           /\ Cardinality(T \cup {x}) <= Cardinality(T) + 1
           /\ x \notin T => Cardinality(T \cup {x}) = Cardinality(T) + 1
<1>1. /\ IsFiniteSet(T \cup {x})
      /\ Cardinality(T \cup {x}) = IF x \in T THEN Cardinality(T) ELSE Cardinality(T) + 1
  BY FS_AddElement
<1>2. Cardinality(T) \in Nat
  BY FS_CardinalityType
<1> QED
  BY <1>1, <1>2

\* The ids of the entries come from the sequence, so they are finitely many.
LEMMA NumberedIsFinite ==
    ASSUME NEW rows, NEW n \in Nat, Numbered(rows, n),
           \A h, k \in rows : h.id = k.id => h = k
    PROVE  IsFiniteSet(rows)
<1>1. IsFiniteSet(1 .. n - 1)
  BY FS_Interval
<1>2. PICK f : f = [h \in rows |-> h.id]
  OBVIOUS
<1>3. f \in [rows -> 1 .. n - 1] /\ \A h, k \in rows : f[h] = f[k] => h = k
  BY <1>2 DEF Numbered
<1>4. f \in Injection(rows, 1 .. n - 1)
  BY <1>3 DEF Injection, IsInjective
<1> QED
  BY <1>1, <1>4, FS_Injection

LEMMA EntriesAreFinite ==
    ASSUME Inv, OneEntry
    PROVE  IsFiniteSet(history)
BY NumberedIsFinite DEF Inv, Tables, OneEntry

LEMMA EntriesStayFinite ==
    ASSUME Inv', OneEntry'
    PROVE  IsFiniteSet(history')
<1>1. nextID' \in Nat /\ Numbered(history', nextID')
  BY DEF Inv, Tables
<1>2. \A h, k \in history' : h.id = k.id => h = k
  BY DEF OneEntry
<1> QED
  BY <1>1, <1>2, NumberedIsFinite

LEMMA TrailIsFinite ==
    ASSUME Inv, OneEntry
    PROVE  /\ Trail \subseteq history
           /\ IsFiniteSet(Events) /\ Cardinality(Events) \in Nat
           /\ \A B : /\ IsFiniteSet(CrumbsOf(B)) /\ Cardinality(CrumbsOf(B)) \in Nat
<1>1. Trail \subseteq history
  BY DEF Trail, Committed
<1>2. Events \subseteq history /\ \A B : CrumbsOf(B) \subseteq history
  BY <1>1 DEF Events, CrumbsOf
<1> QED
  BY <1>1, <1>2, EntriesAreFinite, Smaller

(* ---- What the actions do to the trail ----------------------------------- *)

\* The transaction of r enters H into the audit table.
Entered(r, H) ==
    /\ history' = history \cup H
    /\ \A h \in H : h.by = r /\ h.id \in {nextID, nextID + 1} /\ Told(h, Call(r))
    /\ \A h, k \in H : h.id = k.id => h = k

\* What readers see of the trail is changed by a commit only.
LEMMA EnteredIsHidden ==
    ASSUME NEW r \in Requests, NEW H, Entered(r, H)
    PROVE  Trail' = Trail
BY PlanAssumption DEF Entered, Trail, Committed

\* A rollback takes the entries of r, and nothing else.
LEMMA FailedEntries ==
    ASSUME PlanInv, Audit, NEW r \in Requests, Fail(r)
    PROVE  /\ history' = {h \in history : h.by # r} /\ Trail' = Trail
           /\ nextID' = nextID
<1>1. /\ history' = Rollback(history, r) /\ Nil \notin Requests /\ nextID' = nextID
  BY PlanAssumption DEF Fail, UndoHistory
<1>2. Rows(history, EntryColumns) /\ Columns(EntryColumns)
  BY ColumnsOfTables DEF PlanInv, Inv, Tables
<1>3. \A h : h \in history' <=> h \in history /\ h.by # r
  <2>1. ASSUME NEW h \in history, h.by # r PROVE h \in history'
    <3>1. PICK x \in Rollback(history, r) : RollingBack(h, x, r, EntryColumns)
      BY <1>2, <2>1, OfRollback
    <3>2. h.gone # r
      BY <1>1 DEF Audit
    <3> QED
      BY <1>1, <3>1, <3>2 DEF RollingBack
  <2>2. ASSUME NEW x \in history' PROVE x \in history /\ x.by # r
    <3>1. PICK h \in history : RollingBack(h, x, r, EntryColumns)
      BY <1>1, <1>2, <2>2, InRollback
    <3>2. h.gone # r
      BY <1>1 DEF Audit
    <3> QED
      BY <3>1, <3>2 DEF RollingBack
  <2> QED
    BY <2>1, <2>2
<1>4. history' = {h \in history : h.by # r}
  BY <1>3
<1> QED
  BY <1>1, <1>4 DEF Trail, Committed

\* x is the entry h once its transaction r has committed.
Settles(h, x, r) ==
    /\ x.by = (IF h.by = r THEN Nil ELSE h.by) /\ (h.by # r => x = h)
    /\ x.id = h.id /\ x.action = h.action /\ x.new = h.new
    /\ x = [h EXCEPT !.by = IF h.by = r THEN Nil ELSE h.by]

LEMMA CommittedEntries ==
    ASSUME PlanInv, Audit, NEW r \in Requests, CommitTx(r)
    PROVE  /\ \A x \in history' : \E h \in history : Settles(h, x, r)
           /\ \A h \in history : \E x \in history' : Settles(h, x, r)
           /\ Trail \subseteq Trail' /\ nextID' = nextID
<1>1. history' = Commit(history, r) /\ Nil \notin Requests /\ nextID' = nextID
  BY PlanAssumption DEF CommitTx
<1>2. Rows(history, EntryColumns) /\ Columns(EntryColumns)
  BY ColumnsOfTables DEF PlanInv, Inv, Tables
<1>3. /\ "id" \in EntryColumns /\ "action" \in EntryColumns /\ "new" \in EntryColumns
  BY DEF EntryColumns
<1>4. ASSUME NEW x \in history' PROVE \E h \in history : Settles(h, x, r)
  <2>1. PICK h \in history : Committing(h, x, r, EntryColumns)
    BY <1>1, <1>2, <1>4, InCommit
  <2> QED
    BY <1>3, <2>1 DEF Committing, Settles
<1>5. ASSUME NEW h \in history PROVE \E x \in history' : Settles(h, x, r)
  <2>1. h.gone # r
    BY <1>1 DEF Audit
  <2>2. PICK x \in history' : Committing(h, x, r, EntryColumns)
    BY <1>1, <1>2, <2>1, OfCommit
  <2> QED
    BY <1>3, <2>2 DEF Committing, Settles
<1>6. Trail \subseteq Trail'
  <2> SUFFICES ASSUME NEW h \in history, h.by = Nil PROVE h \in history'
    BY DEF Trail, Committed
  <2>1. h.by # r
    BY <1>1
  <2> QED
    BY <1>5, <2>1 DEF Settles
<1> QED
  BY <1>1, <1>4, <1>5, <1>6

LEMMA EntryIsOld ==
    ASSUME Inv
    PROVE  /\ nextID \in Nat
           /\ \A h \in history : h.id # nextID /\ h.id # nextID + 1
<1>1. nextID \in Nat \ {0} /\ \A h \in history : h.id \in 1 .. nextID - 1
  BY InvTypes DEF Inv, Tables, TypeOK
<1>2. \A i \in 1 .. nextID - 1 : i # nextID /\ i # nextID + 1
  BY <1>1
<1> QED
  BY <1>1, <1>2

\* What can be said of every entry.
Entries == OneEntry /\ \A h \in history : Source(h)

\* The other requests have their calls as they were.
LEMMA CallsRest ==
    ASSUME Inv, NEW r \in Requests, NEW n, Becomes(r, n)
    PROVE  /\ \A s \in Requests : s # r => Call(s)' = Call(s)
           /\ n.plan = req[r].plan => Call(r)' = Call(r)
BY OthersRest DEF Call

LEMMA EntriesEntered ==
    ASSUME PlanInv, Entries, NEW r \in Requests, NEW n, Becomes(r, n),
           n.plan = req[r].plan, NEW H, Entered(r, H)
    PROVE  Entries'
<1>1. Inv
  BY DEF PlanInv
<1>2. OneEntry'
  <2> SUFFICES ASSUME NEW h \in history', NEW k \in history', h.id = k.id
      PROVE  h = k
    BY DEF OneEntry
  <2>1. \A i \in history : i.id # nextID /\ i.id # nextID + 1
    BY <1>1, EntryIsOld
  <2> QED
    BY <2>1 DEF Entered, Entries, OneEntry
<1>3. Rows(history, EntryColumns)
  BY DEF PlanInv, Inv, Tables
<1>4. ASSUME NEW h \in history' PROVE Source(h)'
  <2>1. CASE h \in H
    <3>1. Told(h, Call(r)) /\ h.by = r
      BY <2>1 DEF Entered
    <3> QED
      BY <1>1, <3>1, CallsRest DEF Source, Told
  <2>2. CASE h \in history
    <3>1. h.by \in Requests \cup {Nil} /\ Source(h)
      BY <1>3, <2>2 DEF Entries, Rows, Owners
    <3> QED
      BY <1>1, <3>1, CallsRest DEF Source, Told
  <2> QED
    BY <1>4, <2>1, <2>2 DEF Entered
<1> QED
  BY <1>2, <1>4 DEF Entries

LEMMA EntriesFail ==
    ASSUME PlanInv, Audit, Entries, NEW r \in Requests, NEW n, Becomes(r, n), Fail(r)
    PROVE  Entries'
<1>1. Inv /\ Rows(history, EntryColumns)
  BY DEF PlanInv, Inv, Tables
<1>2. history' = {h \in history : h.by # r}
  BY FailedEntries
<1>3. ASSUME NEW h \in history' PROVE Source(h)'
  <2>1. h.by \in Requests \cup {Nil} /\ Source(h) /\ h.by # r
    BY <1>1, <1>2, <1>3 DEF Entries, Rows, Owners
  <2> QED
    BY <1>1, <2>1, CallsRest DEF Source, Told
<1>4. OneEntry'
  BY <1>2 DEF Entries, OneEntry
<1> QED
  BY <1>3, <1>4 DEF Entries

LEMMA EntriesCommit ==
    ASSUME PlanInv, Audit, Entries, NEW r \in Requests, NEW n, Becomes(r, n),
           CommitTx(r)
    PROVE  Entries'
<1>1. Inv /\ Rows(history, EntryColumns)
  BY DEF PlanInv, Inv, Tables
<1>2. \A x \in history' : \E h \in history : Settles(h, x, r)
  BY CommittedEntries
<1>3. ASSUME NEW x \in history' PROVE Source(x)'
  <2>1. PICK h \in history : Settles(h, x, r)
    BY <1>2, <1>3
  <2>2. h.by \in Requests \cup {Nil} /\ Source(h)
    BY <1>1, <2>1 DEF Entries, Rows, Owners
  <2>3. CASE h.by = r
    BY <2>1, <2>3 DEF Settles, Source
  <2>4. CASE h.by # r
    BY <1>1, <2>1, <2>2, <2>4, CallsRest DEF Settles, Source, Told
  <2> QED
    BY <2>3, <2>4
<1>4. OneEntry'
  <2> SUFFICES ASSUME NEW x \in history', NEW y \in history', x.id = y.id
      PROVE  x = y
    BY DEF OneEntry
  <2>1. PICK h \in history : Settles(h, x, r)
    BY <1>2
  <2>2. PICK k \in history : Settles(k, y, r)
    BY <1>2
  <2>3. h = k
    BY <2>1, <2>2 DEF Settles, Entries, OneEntry
  <2> QED
    BY <2>1, <2>2, <2>3 DEF Settles
<1> QED
  BY <1>3, <1>4 DEF Entries

(* ---- The entries of each statement -------------------------------------- *)

LEMMA NothingEntered ==
    ASSUME NEW r, UNCHANGED history
    PROVE  Entered(r, {})
BY DEF Entered

LEMMA OneEntered ==
    ASSUME NEW r, NEW h, history' = history \cup {h}, h.by = r, h.id = nextID,
           Told(h, Call(r))
    PROVE  Entered(r, {h})
BY DEF Entered

\* The entry of an inserted observation, which Import does not write.
LEMMA InsertObservationEntry ==
    ASSUME PlanInv, NEW r \in Requests, InsertObservation(r), ~Fail(r)
    PROVE  \/ UNCHANGED history /\ ~Call(r).audited
           \/ \E h : /\ history' = history \cup {h} /\ Entered(r, {h}) /\ h.by = r
                     /\ h.action = "observation_created"
                     /\ h.new = Head(req[r].contents)
<1>1. CASE ~Call(r).audited
  BY <1>1 DEF InsertObservation
<1>2. CASE Call(r).audited
  <2>1. PICK content, id, name : content = Head(req[r].contents) /\ id = req[r].id
                                /\ name = Item(r).name
    OBVIOUS
  <2>2. PICK h : h = Record(r, id, name, nextID, "observation_created", Nil, content)
    OBVIOUS
  <2>3. history' = history \cup {h}
    BY <1>2, <2>1, <2>2 DEF InsertObservation
  <2>4. /\ h.by = r /\ h.id = nextID /\ h.action = "observation_created"
        /\ h.new = content
    BY <2>2, RecordFields
  <2>5. req[r].pc \in ItemPcs /\ req[r].pc = "insert_obs" /\ PlanOf(req[r])
    BY DEF InsertObservation, ItemPcs, PlanInv, Planned
  <2>6. /\ Call(r).do = "items" /\ Head(req[r].items) \in Range(Call(r).items)
        /\ Loops(req[r], Call(r))
    BY <2>5, AtItem DEF Call
  <2>7. content \in Range(Head(req[r].items).obs)
    BY <2>1, <2>5, <2>6, HeadTailProperties DEF Loops
  <2>8. Told(h, Call(r))
    BY <2>4, <2>6, <2>7 DEF Told
  <2> QED
    BY <2>1, <2>3, <2>4, <2>8, OneEntered
<1> QED
  BY <1>1, <1>2

LEMMA RenameTells ==
    ASSUME NEW r \in Requests, Rename(r), ~Fail(r), nextID \in Nat
    PROVE  \E H : Entered(r, H)
<1>1. PICK c, q : c = Call(r) /\ q = req[r]
  OBVIOUS
<1>2. PICK x, z :
         /\ x = Record(r, q.id, c.newName, Nil, "entity_renamed", c.name, c.newName)
         /\ z = Record(r, q.id, c.newName, Nil, "entity_type_changed", q.old, c.newType)
  OBVIOUS
<1>3. PICK y : y = [z EXCEPT !.id = @ + 1]
  OBVIOUS
<1>4. PICK A, B : /\ A = (IF c.newName = c.name THEN {} ELSE {x})
                  /\ B = (IF c.newType = q.old THEN {} ELSE {y})
  OBVIOUS
<1>5. history' = history \cup A \cup B
  BY <1>1, <1>2, <1>3, <1>4 DEF Rename
<1>6. /\ x.by = r /\ x.id = nextID /\ x.action = "entity_renamed"
      /\ z.by = r /\ z.id = nextID /\ z.action = "entity_type_changed"
  BY <1>2, RecordFields
<1>7. y.by = r /\ y.id = nextID + 1 /\ y.action = "entity_type_changed"
  BY <1>2, <1>3 DEF Record
<1>8. /\ \A h \in A \cup B : h.by = r /\ h.id \in {nextID, nextID + 1}
                            /\ Told(h, Call(r))
      /\ \A h, k \in A \cup B : h.id = k.id => h = k
  BY <1>4, <1>6, <1>7 DEF Told
<1>9. history' = history \cup (A \cup B)
  BY <1>5
<1> QED
  BY <1>8, <1>9 DEF Entered

LEMMA EraseEntry ==
    ASSUME NEW r \in Requests, EraseObservation(r)
    PROVE  \E H : Entered(r, H)
<1>1. PICK q : q = req[r]
  OBVIOUS
<1>2. PICK h : h = Record(r, q.id, q.name, q.obs, "observation_deleted", q.old, Nil)
  OBVIOUS
<1>3. history' = history \cup {h}
  BY <1>1, <1>2 DEF EraseObservation
<1>4. h.by = r /\ h.id = nextID /\ h.action = "observation_deleted"
  BY <1>2, RecordFields
<1> QED
  BY <1>3, <1>4, OneEntered DEF Told

LEMMA EditEntry ==
    ASSUME NEW r \in Requests, WriteObservation(r), ~Fail(r)
    PROVE  \E H : Entered(r, H)
<1>1. PICK q, new : q = req[r] /\ new = Call(r).new
  OBVIOUS
<1>2. PICK h : h = Record(r, q.id, q.name, q.obs, "observation_updated", q.old, new)
  OBVIOUS
<1>3. UNCHANGED history \/ history' = history \cup {h}
  BY <1>1, <1>2 DEF WriteObservation, UpdateEntry
<1>4. h.by = r /\ h.id = nextID /\ h.action = "observation_updated"
  BY <1>2, RecordFields
<1> QED
  BY <1>3, <1>4, OneEntered, NothingEntered DEF Told

LEMMA LogEntry ==
    ASSUME PlanInv, NEW r \in Requests, LogInsert(r)
    PROVE  \E h : /\ history' = history \cup {h} /\ Entered(r, {h}) /\ h.by = r
                  /\ h.action = Call(r).action
<1>1. PICK id, name, action :
         id = req[r].id /\ name = Call(r).name /\ action = Call(r).action
  OBVIOUS
<1>2. PICK h : h = Record(r, id, name, Nil, action, Nil, Nil)
  OBVIOUS
<1>3. history' = history \cup {h}
  BY <1>1, <1>2 DEF LogInsert
<1>4. h.by = r /\ h.id = nextID /\ h.action = action
  BY <1>2, RecordFields
<1>5. req[r].pc = "log_insert" /\ Running(r)
  BY DEF LogInsert, Running
<1>6. Call(r) \in Calls /\ Call(r).do = "log"
  <2>1. /\ Suffix(req[r].plan, req[r].asked) /\ req[r].plan # << >>
        /\ Stands(req[r].pc, Call(r).do) /\ Call(r) = Head(req[r].plan)
    BY <1>5, Calling DEF PlanInv
  <2>2. Call(r).do = "log"
    BY <1>5, <2>1 DEF Stands, ItemPcs, TriplePcs, ObsKinds
  <2> QED
    BY <2>1, <2>2, NextCall
<1>7. action \in {"checkpoint_saved", "session_start"}
  BY <1>1, <1>6, PlanAssumption
<1>8. Told(h, Call(r))
  BY <1>1, <1>4, <1>6, <1>7 DEF Told
<1> QED
  BY <1>1, <1>3, <1>4, <1>8, OneEntered

LEMMA SingleEntries ==
    ASSUME PlanInv, NEW r \in Requests, Single(r), ~Fail(r)
    PROVE  \E H : Entered(r, H)
<1>1. CASE UNCHANGED history
  BY <1>1, NothingEntered
<1>2. nextID \in Nat
  BY EntryIsOld DEF PlanInv
<1>3. CASE Rename(r)
  BY <1>2, <1>3, RenameTells
<1>4. CASE EraseObservation(r)
  BY <1>4, EraseEntry
<1>5. CASE WriteObservation(r)
  BY <1>5, EditEntry
<1>6. CASE LogInsert(r)
  BY <1>6, LogEntry
<1>7. Rename(r) \/ EraseObservation(r) \/ WriteObservation(r) \/ LogInsert(r)
        \/ UNCHANGED history
  BY DEF Single, SnapEntities, Cascade, ReadEntity, CheckName, FindObservation,
         EraseRelation, LogLookup, ReadGraphEntities, ReadGraphObservations, tables
<1> QED
  BY <1>1, <1>3, <1>4, <1>5, <1>6, <1>7

(* ---- The last two calls of a save ---------------------------------------- *)

LEMMA NothingInEmpty ==
    /\ Range(<< >>) = {}
    /\ \A s : s \in Seq(Range(<< >>)) => s = << >>
<1>1. Range(<< >>) = {}
  BY DEF Range
<1>2. ASSUME NEW s \in Seq({}), s # << >> PROVE FALSE
  BY <1>2, HeadTailProperties
<1> QED
  BY <1>1, <1>2

LEMMA LateCall ==
    ASSUME NEW q, PlanOf(q), IsSavePlan(q.asked), q.plan # << >>, Len(q.plan) <= 2
    PROVE  \/ /\ Len(q.plan) = 2 /\ Head(q.plan) = q.asked[3]
              /\ Head(q.plan).do = "items" /\ Head(q.plan).audited
              /\ ~Head(q.plan).replace /\ Head(q.plan).triples = << >>
              /\ \E item : /\ Head(q.plan).items = << item >>
                           /\ item.obs = << Crumb(q.asked) >>
           \/ /\ Len(q.plan) = 1 /\ Head(q.plan) = q.asked[4]
              /\ Head(q.plan).do = "log" /\ Head(q.plan).action = "checkpoint_saved"
<1>1. PICK plan, asked, m, c : /\ plan = q.plan /\ asked = q.asked
                               /\ m = Len(plan) /\ c = Head(plan)
  OBVIOUS
<1>2. Suffix(plan, asked) /\ plan # << >> /\ IsSavePlan(asked) /\ m <= 2
  BY <1>1 DEF PlanOf
<1>3. m \in Nat \ {0}
  BY <1>1, <1>2, EmptySeq, LenProperties DEF Suffix
<1>4. Len(asked) = 4
  BY <1>2, SaveCalls
<1>5. c = asked[Len(asked) - m + 1]
  BY <1>1, <1>2, NextCall
<1>6. CASE m = 2
  <2>1. c = asked[3]
    BY <1>4, <1>5, <1>6
  <2>2. /\ c.do = "items" /\ c.audited /\ ~c.replace /\ c.triples = << >>
        /\ c.items = << c.items[1] >> /\ c.items[1].obs = << c.items[1].obs[1] >>
    BY <1>2, <2>1, SaveCalls
  <2> QED
    BY <1>1, <1>6, <2>1, <2>2 DEF Crumb
<1>7. CASE m = 1
  <2>1. c = asked[4]
    BY <1>4, <1>5, <1>7
  <2> QED
    BY <1>1, <1>2, <1>7, <2>1, SaveCalls
<1>8. m = 1 \/ m = 2
  BY <1>2, <1>3
<1> QED
  BY <1>6, <1>7, <1>8

\* The append of the breadcrumb stands at its only item, or at its end.
LEMMA Appending ==
    ASSUME NEW q, PlanOf(q), Late(q), Writing(q), Len(q.plan) = 2
    PROVE  /\ q.pc \in ItemPcs \cup {"commit"} /\ ~Head(q.plan).replace
           /\ q.pc \notin {"snap_obs", "clear_obs"} /\ q.triples = << >>
           /\ Head(q.plan).do = "items" /\ Head(q.plan).audited
           /\ q.pc \in ItemPcs =>
                 \E item : /\ q.items = << item >> /\ Head(q.plan).items = << item >>
                           /\ item.obs = << Crumb(q.asked) >>
<1>1. q.pc \notin Ended /\ IsSavePlan(q.asked) /\ Len(q.plan) <= 2
  BY DEF Late
<1>2. q.plan # << >> /\ Stands(q.pc, Head(q.plan).do)
  BY <1>1 DEF PlanOf
<1>3. /\ Head(q.plan).do = "items" /\ Head(q.plan).audited
      /\ ~Head(q.plan).replace /\ Head(q.plan).triples = << >>
      /\ \E item : /\ Head(q.plan).items = << item >>
                   /\ item.obs = << Crumb(q.asked) >>
  <2>1. PICK m, c, b : m = Len(q.plan) /\ c = Head(q.plan) /\ b = Crumb(q.asked)
    OBVIOUS
  <2>2. m = 2
    BY <2>1
  <2>3. \/ /\ c.do = "items" /\ c.audited /\ ~c.replace /\ c.triples = << >>
           /\ \E item : c.items = << item >> /\ item.obs = << b >>
        \/ m = 1
    BY <1>1, <1>2, <2>1, LateCall
  <2> QED
    BY <2>1, <2>2, <2>3
<1>4. Loops(q, Head(q.plan))
  BY <1>1, <1>3 DEF PlanOf
<1>5. q.triples = << >>
  <2>1. q.triples \in Seq(Range(Head(q.plan).triples))
    BY <1>4 DEF Loops
  <2> QED
    BY <1>3, <2>1, NothingInEmpty
<1>6. q.pc \in ItemPcs \cup TriplePcs \cup {"commit"}
  BY <1>2, <1>3 DEF Stands, ObsKinds
<1>7. q.pc \notin TriplePcs /\ q.pc \notin {"snap_obs", "clear_obs"}
  BY <1>3, <1>4, <1>5 DEF Loops
<1>8. q.pc \in ItemPcs => q.items = Head(q.plan).items
  BY DEF Writing, Late
<1> QED
  BY <1>3, <1>5, <1>6, <1>7, <1>8

\* The log of the save.
LEMMA Logging ==
    ASSUME NEW q, PlanOf(q), Late(q), Len(q.plan) # 2
    PROVE  /\ Len(q.plan) = 1 /\ q.pc \in {"log", "log_insert", "commit"}
           /\ Head(q.plan).do = "log" /\ Head(q.plan).action = "checkpoint_saved"
<1>1. q.pc \notin Ended /\ IsSavePlan(q.asked) /\ Len(q.plan) <= 2
  BY DEF Late
<1>2. q.plan # << >> /\ Stands(q.pc, Head(q.plan).do)
  BY <1>1 DEF PlanOf
<1>3. /\ Len(q.plan) = 1
      /\ Head(q.plan).do = "log" /\ Head(q.plan).action = "checkpoint_saved"
  BY <1>1, <1>2, LateCall
<1> QED
  BY <1>2, <1>3 DEF Stands, ObsKinds

\* A request that looks for its item, or inserts it.
LEMMA SeekJotted ==
    ASSUME PlanInv, NEW r \in Requests, NEW q, q = req[r], Writing(q), Jotted(q, r),
           q.pc \in Seeking, NEW n, Within(q, n), Late(n), UNCHANGED history,
           NotFound(q, n) \/ \E id : Resolved(q, n, id)
    PROVE  Writing(n) /\ Jotted(n, r)'
<1>1. PlanOf(q) /\ Late(q) /\ n.plan = q.plan /\ n.asked = q.asked
  BY DEF PlanInv, Planned, Late, Within, Seeking, Ended
<1>2. Len(q.plan) = 2
  BY <1>1, Logging DEF Seeking
<1>3. q.pc \in {"find_item", "insert_item"} /\ ~Head(q.plan).replace
  BY <1>1, <1>2, Appending DEF Seeking, ItemPcs
<1>b. PICK b : b = Crumb(q.asked)
  OBVIOUS
<1>4. PICK item : /\ q.items = << item >> /\ Head(q.plan).items = << item >>
                  /\ item.obs = << b >>
  <2>1. q.pc \in ItemPcs
    BY <1>3 DEF ItemPcs
  <2> QED
    BY <1>1, <1>2, <1>b, <2>1, Appending
<1>5. Head(q.items) = item /\ item.obs # << >>
  BY <1>4
<1>6. /\ n.items = q.items /\ n.pc \in {"insert_item", "insert_obs"}
      /\ n.pc = "insert_obs" => n.contents = item.obs
  <2>1. CASE NotFound(q, n)
    BY <1>3, <2>1 DEF NotFound
  <2>2. CASE \E id : Resolved(q, n, id)
    <3>1. Followed(q, n, item.obs)
      BY <1>3, <1>5, <2>2 DEF Resolved
    <3> QED
      BY <1>5, <3>1 DEF Followed
  <2> QED
    BY <2>1, <2>2
<1>7. \A h \in history' : h.by # r
  BY <1>1, <1>3 DEF Jotted
<1>8. Writing(n)
  BY <1>1, <1>4, <1>5, <1>6 DEF Writing
<1>9. Jotted(n, r)'
  BY <1>6, <1>7 DEF Jotted
<1> QED
  BY <1>8, <1>9

\* The insertion of the breadcrumb, whose entry is the only one.
LEMMA InsertJotted ==
    ASSUME PlanInv, NEW r \in Requests, InsertObservation(r), ~Fail(r),
           NEW q, q = req[r], Writing(q), Jotted(q, r),
           NEW n, Within(q, n), Late(n), Followed(q, n, Tail(q.contents))
    PROVE  Writing(n) /\ Jotted(n, r)'
<1>1. q.pc = "insert_obs"
  BY DEF InsertObservation
<1>2. PlanOf(q) /\ Late(q) /\ n.plan = q.plan /\ n.asked = q.asked
  BY <1>1 DEF PlanInv, Planned, Late, Within, Ended
<1>3. Len(q.plan) = 2
  BY <1>1, <1>2, Logging
<1>4. Head(q.plan).audited /\ q.triples = << >>
  BY <1>2, <1>3, Appending
<1>5. PICK item, b : /\ q.items = << item >> /\ Head(q.plan).items = << item >>
                     /\ item.obs = << b >> /\ b = Crumb(q.asked)
  BY <1>1, <1>2, <1>3, Appending DEF ItemPcs
<1>6. q.contents = << b >>
  BY <1>1, <1>2, <1>5 DEF Writing
<1>7. Head(q.contents) = b /\ Tail(q.contents) = << >> /\ Tail(q.items) = << >>
  BY <1>5, <1>6
<1>8. n.pc = "commit"
  BY <1>4, <1>7 DEF Followed, LoopPc
<1>9. PICK h : /\ history' = history \cup {h} /\ h.by = r
               /\ h.action = "observation_created" /\ h.new = b
  BY <1>4, <1>7, InsertObservationEntry DEF Call
<1>10. \A k \in history : k.by # r
  BY <1>1, <1>2 DEF Jotted
<1>11. Writing(n)
  BY <1>8 DEF Writing, ItemPcs
<1>12. Jotted(n, r)'
  BY <1>2, <1>5, <1>8, <1>9, <1>10 DEF Jotted
<1> QED
  BY <1>11, <1>12

\* Calls of other kinds: a late one is the log.
LEMMA SingleJotted ==
    ASSUME PlanInv, NEW r \in Requests, Single(r), ~Fail(r),
           NEW q, q = req[r], Writing(q), Jotted(q, r),
           NEW n, Becomes(r, n), PlanOf(n), n.asked = q.asked, n.plan = q.plan, Late(n)
    PROVE  Writing(n) /\ Jotted(n, r)'
<1>1. /\ q.pc \in {"delete_entities", "cascade", "update_entity", "check_name",
                   "rename", "write_obs", "delete_rel", "delete_rel_by_triple",
                   "log", "log_insert", "read_graph", "read_graph_obs"} \cup ObsKinds
  BY DEF Single, SnapEntities, Cascade, ReadEntity, CheckName, Rename,
         FindObservation, EraseObservation, WriteObservation, EraseRelation,
         LogLookup, LogInsert, ReadGraphEntities, ReadGraphObservations, ObsKinds
<1>2. PlanOf(q) /\ Late(q)
  BY <1>1 DEF PlanInv, Planned, Late, Ended, ObsKinds
<1>3. Len(q.plan) # 2
  <2> SUFFICES ASSUME Len(q.plan) = 2 PROVE FALSE
    OBVIOUS
  <2>1. q.pc \in ItemPcs \cup {"commit"}
    BY <1>2, Appending
  <2> QED
    BY <1>1, <2>1 DEF ItemPcs, ObsKinds
<1>4. q.pc \in {"log", "log_insert"}
  BY <1>1, <1>2, <1>3, Logging DEF ObsKinds
<1>5. Inv /\ Planned
  BY DEF PlanInv
<1>6. LogLookup(r) \/ LogInsert(r)
  BY <1>4 DEF Single, SnapEntities, Cascade, ReadEntity, CheckName, Rename,
         FindObservation, EraseObservation, WriteObservation, EraseRelation,
         ReadGraphEntities, ReadGraphObservations
<1>7. n.pc \in {"log", "log_insert", "commit"}
  BY <1>3, Logging
<1>8. Writing(n)
  BY <1>7 DEF Writing, ItemPcs
<1>9. \A h \in history : h.by # r
  BY <1>2, <1>4 DEF Jotted
<1>10. req'[r] = n
  BY <1>5, OthersRest
<1>11. CASE LogLookup(r)
  <2>1. PICK m : Becomes(r, m) /\ m.pc = "log_insert"
    BY <1>5, <1>11, LogLookupMove
  <2>2. m = n
    BY <1>5, <1>10, <2>1, OthersRest
  <2>3. history' = history
    BY <1>11 DEF LogLookup, tables
  <2>4. Jotted(n, r)'
    BY <1>9, <2>1, <2>2, <2>3 DEF Jotted
  <2> QED
    BY <1>8, <2>4
<1>12. CASE LogInsert(r)
  <2>1. req' = [req EXCEPT ![r].pc = "commit"] /\ q.pc = "log_insert"
    BY <1>12 DEF LogInsert
  <2>2. PICK m : Becomes(r, m) /\ m.pc = "commit"
    BY <1>5, <2>1, LastMove
  <2>3. m = n
    BY <1>5, <1>10, <2>2, OthersRest
  <2>4. PICK h : history' = history \cup {h} /\ h.by = r
    BY <1>12, LogEntry
  <2>5. Jotted(n, r)'
    BY <1>3, <1>9, <2>2, <2>3, <2>4 DEF Jotted
  <2> QED
    BY <1>8, <2>5
<1> QED
  BY <1>6, <1>11, <1>12

\* The next call begins with nothing entered.
LEMMA CommitJotted ==
    ASSUME PlanInv, Audit, NEW r \in Requests, CommitTx(r),
           NEW n, Goes(r, n), Late(n)
    PROVE  Writing(n) /\ Jotted(n, r)'
<1>1. /\ PlanOf(n) /\ n.pc \notin Ended /\ IsSavePlan(n.asked) /\ Len(n.plan) <= 2
      /\ n = StartCall(n.asked, n.plan)
  BY DEF Goes, Late
<1>2. n.plan # << >> /\ n.plan \in Seq(Calls)
  BY <1>1 DEF PlanOf, Suffix
<1>3. PICK c : c = Head(n.plan)
  OBVIOUS
<1>4. /\ c.do = "items" => n.items = c.items /\ n.pc = LoopPc(n.items, n.triples)
      /\ c.do # "items" => n.pc = c.do
  BY <1>1, <1>2, <1>3, StartFields
<1>5. \/ c.do = "items" /\ c.items # << >>
      \/ c.do = "log"
  BY <1>1, <1>2, <1>3, LateCall
<1>6. \/ c.do = "items" /\ n.items = c.items /\ n.pc = "find_item"
      \/ n.pc = "log"
  BY <1>4, <1>5 DEF LoopPc
<1>7. \A x \in history' : x.by # r
  <2>1. ASSUME NEW x \in history' PROVE x.by # r
    <3>1. PICK h \in history : Settles(h, x, r)
      BY <2>1, CommittedEntries
    <3> QED
      BY <3>1, PlanAssumption DEF Settles
  <2> QED
    BY <2>1
<1>8. Writing(n)
  BY <1>3, <1>6 DEF Writing, ItemPcs
<1>9. Jotted(n, r)'
  BY <1>6, <1>7 DEF Jotted
<1> QED
  BY <1>8, <1>9

Jotting == \A r \in Requests : Writing(req[r]) /\ Jotted(req[r], r)

\* The entries of the others are theirs.
LEMMA JottingStays ==
    ASSUME PlanInv, Jotting, NEW r \in Requests, NEW n, Becomes(r, n),
           Late(n) => Writing(n) /\ Jotted(n, r)',
           \A s \in Requests : s # r =>
              \A h : h \in history /\ h.by = s <=> h \in history' /\ h.by = s
    PROVE  Jotting'
<1>1. req'[r] = n /\ \A s \in Requests : s # r => req'[s] = req[s]
  BY OthersRest DEF PlanInv
<1>2. Writing(n) /\ Jotted(n, r)'
  <2>1. CASE Late(n)
    BY <2>1
  <2>2. CASE ~Late(n)
    BY <2>2 DEF Writing, Jotted
  <2> QED
    BY <2>1, <2>2
<1>3. ASSUME NEW s \in Requests PROVE (Writing(req[s]) /\ Jotted(req[s], s))'
  <2>1. PICK q : q = req'[s]
    OBVIOUS
  <2>2. CASE s = r
    <3>1. Writing(q) /\ Jotted(q, s)'
      BY <1>1, <1>2, <2>1, <2>2
    <3> QED
      BY <2>1, <3>1 DEF Writing, Jotted, Late
  <2>3. CASE s # r
    <3>1. q = req[s]
      BY <1>1, <2>1, <2>3
    <3>2. Writing(q) /\ Jotted(q, s)
      BY <3>1 DEF Jotting
    <3>3. \A h : h \in history /\ h.by = s <=> h \in history' /\ h.by = s
      BY <2>3
    <3>4. Jotted(q, s)'
      <4>1. CASE ~Late(q)
        BY <4>1 DEF Jotted
      <4>2. CASE Late(q) /\ q.pc # "commit"
        BY <3>2, <3>3, <4>2 DEF Jotted
      <4>3. CASE Late(q) /\ q.pc = "commit"
        BY <3>2, <3>3, <4>3 DEF Jotted
      <4> QED
        BY <4>1, <4>2, <4>3
    <3> QED
      BY <2>1, <3>2, <3>4 DEF Writing, Jotted, Late
  <2> QED
    BY <2>2, <2>3
<1> QED
  BY <1>3 DEF Jotting

LEMMA EnteredIsOwn ==
    ASSUME NEW r, NEW H, Entered(r, H), NEW s, s # r
    PROVE  \A h : h \in history /\ h.by = s <=> h \in history' /\ h.by = s
BY DEF Entered

LEMMA CommittedIsOwn ==
    ASSUME PlanInv, Audit, NEW r \in Requests, CommitTx(r), NEW s \in Requests, s # r
    PROVE  \A h : h \in history /\ h.by = s <=> h \in history' /\ h.by = s
<1>1. /\ \A x \in history' : \E h \in history : Settles(h, x, r)
      /\ \A h \in history : \E x \in history' : Settles(h, x, r)
  BY CommittedEntries
<1>2. \A h, x : Settles(h, x, r) /\ (h.by = s \/ x.by = s) => x = h
  BY PlanAssumption DEF Settles
<1> QED
  BY <1>1, <1>2

(* ---- The counts ----------------------------------------------------------- *)

LEMMA RequestsMove ==
    ASSUME Inv, NEW r \in Requests, NEW n, Becomes(r, n)
    PROVE  /\ \A b, s : s \in Recorded(b)' <=>
                 s \in Requests /\ (IF s = r THEN Crumbed(n, b) ELSE s \in Recorded(b))
           /\ \A b, s : s \in Candidates(b)' <=>
                 s \in Requests /\ (IF s = r THEN MayHave(n, b) ELSE s \in Candidates(b))
           /\ \A s : s \in Pendings' <=>
                 s \in Requests /\ (IF s = r THEN Pending(n) ELSE s \in Pendings)
           /\ Asking' \subseteq Asking \cup {r}
<1>1. req'[r] = n /\ \A s \in Requests : s # r => req'[s] = req[s]
  BY OthersRest
<1>2. ASSUME NEW s \in Requests, NEW b
      PROVE  /\ s \in Recorded(b)' <=> Crumbed(req'[s], b)
             /\ s \in Candidates(b)' <=> MayHave(req'[s], b)
             /\ s \in Pendings' <=> Pending(req'[s])
             /\ s \in Asking' <=> req'[s].asked # << >>
  BY DEF Recorded, Candidates, Pendings, Asking
<1>3. /\ \A b : Recorded(b)' \subseteq Requests /\ Candidates(b)' \subseteq Requests
      /\ Pendings' \subseteq Requests /\ Asking' \subseteq Requests
  BY DEF Recorded, Candidates, Pendings, Asking
<1>4. \A b, s : s \in Recorded(b)' <=>
         s \in Requests /\ (IF s = r THEN Crumbed(n, b) ELSE s \in Recorded(b))
  BY <1>1, <1>2, <1>3 DEF Recorded
<1>5. \A b, s : s \in Candidates(b)' <=>
         s \in Requests /\ (IF s = r THEN MayHave(n, b) ELSE s \in Candidates(b))
  BY <1>1, <1>2, <1>3 DEF Candidates
<1>6. \A s : s \in Pendings' <=>
         s \in Requests /\ (IF s = r THEN Pending(n) ELSE s \in Pendings)
  BY <1>1, <1>2, <1>3 DEF Pendings
<1>7. Asking' \subseteq Asking \cup {r}
  BY <1>1, <1>2, <1>3 DEF Asking
<1> QED
  BY <1>4, <1>5, <1>6, <1>7

LEMMA AskersAreFinite ==
    ASSUME IsFiniteSet(Asking)
    PROVE  /\ \A b : /\ IsFiniteSet(Recorded(b)) /\ Cardinality(Recorded(b)) \in Nat
                     /\ IsFiniteSet(Candidates(b)) /\ Cardinality(Candidates(b)) \in Nat
           /\ IsFiniteSet(Pendings) /\ Cardinality(Pendings) \in Nat
<1>1. \A r \in Requests : IsSavePlan(req[r].asked) => r \in Asking
  BY SaveIsAsked DEF Asking, IsSave
<1>2. /\ \A b : Recorded(b) \subseteq Asking /\ Candidates(b) \subseteq Asking
      /\ Pendings \subseteq Asking
  BY <1>1 DEF Recorded, Candidates, Pendings, Crumbed, MayHave, Pending
<1> QED
  BY <1>2, Smaller

LEMMA AskersStayFinite ==
    ASSUME Inv, NEW r \in Requests, NEW n, Becomes(r, n), IsFiniteSet(Asking)
    PROVE  IsFiniteSet(Asking)'
<1>1. PICK A : A = Asking'
  OBVIOUS
<1>2. A \subseteq Asking \cup {r}
  BY <1>1, RequestsMove
<1>3. IsFiniteSet(A)
  BY <1>2, OneMore, Smaller
<1> QED
  BY <1>1, <1>3

\* What was asked stays asked.
LEMMA ByHandStays ==
    ASSUME PlanInv, [Next]_vars, NEW b, WrittenByHand(b)
    PROVE  WrittenByHand(b)'
<1>1. PICK r \in Requests : \E i \in DOMAIN req[r].asked :
         /\ ~(IsSave(r) /\ i = 3) /\ req[r].asked[i].do = "items"
         /\ \E item \in Range(req[r].asked[i].items) : b \in Range(item.obs)
  BY DEF WrittenByHand
<1>2. req[r].asked # << >>
  BY <1>1
<1>3. req'[r].asked = req[r].asked
  BY <1>2, AskedStays DEF PlanInv
<1> QED
  BY <1>1, <1>3 DEF WrittenByHand, IsSave

LEMMA BreadcrumbsStay ==
    ASSUME PlanInv, [Next]_vars
    PROVE  CrumbsOf(Breadcrumbs) \subseteq {h \in Trail :
              h.action = "observation_created" /\ h.new \in Breadcrumbs'}
<1>1. ASSUME NEW r \in Requests, IsSave(r)
      PROVE  req'[r].asked = req[r].asked
  BY <1>1, SaveIsAsked, AskedStays DEF PlanInv
<1>2. Breadcrumbs \subseteq Breadcrumbs'
  BY <1>1 DEF Breadcrumbs, Breadcrumb, IsSave
<1> QED
  BY <1>2 DEF CrumbsOf

\* A step that shows readers nothing new.
LEMMA CountsStay ==
    ASSUME PlanInv, Entries, [Next]_vars, IsFiniteSet(Asking), Counts,
           NEW r \in Requests, NEW n, Becomes(r, n), Trail' = Trail,
           \A b : /\ Crumbed(n, b) => Crumbed(req[r], b)
                  /\ MayHave(req[r], b) => MayHave(n, b),
           Pending(n) => Pending(req[r])
    PROVE  Counts'
<1>1. Inv /\ OneEntry
  BY DEF PlanInv, Entries
<1>2. /\ \A b : Recorded(b)' \subseteq Recorded(b) /\ Candidates(b) \subseteq Candidates(b)'
      /\ Pendings' \subseteq Pendings
  <2>1. /\ \A b, s : s \in Recorded(b) <=> s \in Requests /\ Crumbed(req[s], b)
        /\ \A b, s : s \in Candidates(b) <=> s \in Requests /\ MayHave(req[s], b)
        /\ \A s : s \in Pendings <=> s \in Requests /\ Pending(req[s])
    BY DEF Recorded, Candidates, Pendings
  <2> QED
    BY <1>1, <2>1, RequestsMove
<1>4. ASSUME NEW b PROVE Counted(b)'
  <2>1. PICK D, E, U, V, C : /\ D = Recorded(b) /\ E = Recorded(b)'
                             /\ U = Candidates(b) /\ V = Candidates(b)'
                             /\ C = CrumbsOf({b})
    OBVIOUS
  <2>2. CrumbsOf({b})' = C
    BY <2>1 DEF CrumbsOf
  <2>3. /\ IsFiniteSet(D) /\ IsFiniteSet(V) /\ E \subseteq D /\ U \subseteq V
        /\ Cardinality(C) \in Nat
    <3>1. V \subseteq U \cup {r}
      BY <1>1, <2>1, RequestsMove
    <3>2. IsFiniteSet(U) /\ IsFiniteSet(D) /\ Cardinality(C) \in Nat
      BY <1>1, <2>1, AskersAreFinite, TrailIsFinite
    <3>3. IsFiniteSet(V)
      BY <3>1, <3>2, OneMore, Smaller
    <3> QED
      BY <1>2, <2>1, <3>2, <3>3
  <2>4. /\ Cardinality(E) \in Nat /\ Cardinality(D) \in Nat
        /\ Cardinality(E) <= Cardinality(D)
        /\ Cardinality(U) \in Nat /\ Cardinality(V) \in Nat
        /\ Cardinality(U) <= Cardinality(V)
    BY <2>3, Smaller
  <2>5. /\ Cardinality(D) <= Cardinality(C)
        /\ WrittenByHand(b) \/ Cardinality(C) <= Cardinality(U)
    BY <2>1 DEF Counts, Counted
  <2>6. WrittenByHand(b) => WrittenByHand(b)'
    BY ByHandStays
  <2>7. /\ Cardinality(E) <= Cardinality(C)
        /\ WrittenByHand(b)' \/ Cardinality(C) <= Cardinality(V)
    BY <2>3, <2>4, <2>5, <2>6
  <2> QED
    BY <2>1, <2>2, <2>7 DEF Counted
<1>5. (Cardinality(Events) + Cardinality(Pendings) <= Cardinality(CrumbsOf(Breadcrumbs)))'
  <2>1. PICK E, P, Q, C, B : /\ E = Events /\ P = Pendings /\ Q = Pendings'
                             /\ C = CrumbsOf(Breadcrumbs) /\ B = CrumbsOf(Breadcrumbs)'
    OBVIOUS
  <2>2. Events' = E
    BY <2>1 DEF Events
  <2>3. C \subseteq B
    BY <2>1, BreadcrumbsStay DEF CrumbsOf
  <2>4. IsFiniteSet(B) /\ IsFiniteSet(P) /\ Q \subseteq P /\ Cardinality(E) \in Nat
    <3>1. B \subseteq history
      BY <1>1, <2>1, TrailIsFinite DEF CrumbsOf
    <3>2. IsFiniteSet(B)
      BY <1>1, <3>1, EntriesAreFinite, Smaller
    <3> QED
      BY <1>1, <1>2, <2>1, <3>2, AskersAreFinite, TrailIsFinite
  <2>5. /\ Cardinality(Q) \in Nat /\ Cardinality(P) \in Nat
        /\ Cardinality(Q) <= Cardinality(P)
        /\ Cardinality(C) \in Nat /\ Cardinality(B) \in Nat
        /\ Cardinality(C) <= Cardinality(B)
    BY <2>3, <2>4, Smaller
  <2>6. Cardinality(E) + Cardinality(P) <= Cardinality(C)
    BY <2>1 DEF Counts
  <2>7. Cardinality(E) + Cardinality(Q) <= Cardinality(B)
    BY <2>4, <2>5, <2>6
  <2> QED
    BY <2>1, <2>2, <2>7
<1> QED
  BY <1>4, <1>5 DEF Counts

(* ---- What a commit adds to the counts ------------------------------------- *)

\* Where a call stands among those asked.
LEMMA CallIsAsked ==
    ASSUME PlanInv, NEW r \in Requests, Running(r)
    PROVE  \E i \in DOMAIN req[r].asked :
              /\ Call(r) = req[r].asked[i]
              /\ i = Len(req[r].asked) - Len(req[r].plan) + 1
<1>1. /\ Suffix(req[r].plan, req[r].asked) /\ req[r].plan # << >>
      /\ Call(r) = Head(req[r].plan)
  BY Calling DEF PlanInv
<1>2. DOMAIN req[r].asked = 1 .. Len(req[r].asked)
  BY <1>1, LenProperties DEF Suffix
<1> QED
  BY <1>1, <1>2, NextCall

LEMMA EntryIsOpen ==
    ASSUME Inv, NEW h \in history, NEW r \in Requests, h.by = r
    PROVE  Running(r)
BY InvTypes DEF TypeOK

\* A creation is the breadcrumb of a save, or somebody else asked for it.
LEMMA CreationTells ==
    ASSUME PlanInv, Entries, NEW h \in history, NEW r \in Requests, h.by = r,
           h.action = "observation_created"
    PROVE  \/ WrittenByHand(h.new)
           \/ IsSave(r) /\ Len(req[r].plan) = 2 /\ h.new = Crumb(req[r].asked)
<1>1. Running(r)
  BY EntryIsOpen DEF PlanInv
<1>2. Told(h, Call(r))
  BY PlanAssumption DEF Entries, Source
<1>3. PICK i \in DOMAIN req[r].asked :
         Call(r) = req[r].asked[i] /\ i = Len(req[r].asked) - Len(req[r].plan) + 1
  BY <1>1, CallIsAsked
<1>4. /\ Call(r).do = "items"
      /\ \E item \in Range(Call(r).items) : h.new \in Range(item.obs)
  BY <1>2 DEF Told
<1>5. CASE ~(IsSave(r) /\ i = 3)
  BY <1>3, <1>4, <1>5 DEF WrittenByHand
<1>6. CASE IsSave(r) /\ i = 3
  <2>1. PICK q, m, b : q = req[r] /\ m = Len(q.plan) /\ b = Crumb(q.asked)
    OBVIOUS
  <2>2. PlanOf(q) /\ q.plan # << >> /\ Call(r) = Head(q.plan)
    BY <1>1, <2>1, Calling DEF PlanInv
  <2>3. IsSavePlan(q.asked) /\ Len(q.asked) = 4
    BY <1>6, <2>1, SaveCalls DEF IsSave
  <2>4. m \in Nat
    BY <2>1, <2>2, LenProperties DEF PlanOf, Suffix
  <2>5. m = 2
    <3>1. i = Len(q.asked) - m + 1
      BY <1>3, <2>1
    <3>2. 3 = 4 - m + 1
      BY <1>6, <2>3, <3>1
    <3> QED
      BY <2>4, <3>2
  <2>6. PICK c : c = Head(q.plan)
    OBVIOUS
  <2>7. \/ \E item : c.items = << item >> /\ item.obs = << b >>
        \/ m = 1
    <3>1. Len(q.plan) <= 2
      BY <2>1, <2>5
    <3> QED
      BY <2>1, <2>2, <2>3, <2>6, <3>1, LateCall
  <2>8. PICK item : c.items = << item >> /\ item.obs = << b >>
    BY <2>5, <2>7
  <2>9. Range(c.items) = {item} /\ Range(item.obs) = {b}
    BY <2>8 DEF Range
  <2>10. h.new = b
    BY <1>4, <2>2, <2>6, <2>9
  <2> QED
    BY <1>6, <2>1, <2>5, <2>10
<1> QED
  BY <1>5, <1>6

LEMMA EventTells ==
    ASSUME PlanInv, Entries, NEW h \in history, NEW r \in Requests, h.by = r,
           h.action = "checkpoint_saved"
    PROVE  IsSave(r) /\ Len(req[r].plan) = 1
<1>1. Running(r)
  BY EntryIsOpen DEF PlanInv
<1>2. Told(h, Call(r))
  BY PlanAssumption DEF Entries, Source
<1>3. PICK i \in DOMAIN req[r].asked :
         Call(r) = req[r].asked[i] /\ i = Len(req[r].asked) - Len(req[r].plan) + 1
  BY <1>1, CallIsAsked
<1>4. Call(r).do = "log" /\ Call(r).action = "checkpoint_saved"
  BY <1>2 DEF Told
<1>5. PICK q, m : q = req[r] /\ m = Len(q.plan)
  OBVIOUS
<1>6. /\ PlanOf(q) /\ q.asked \in Plans /\ Suffix(q.plan, q.asked)
  BY <1>1, <1>5, Calling DEF PlanInv
<1>7. Call(r) \in Range(q.asked)
  BY <1>3, <1>5 DEF Range
<1>8. IsSavePlan(q.asked)
  BY <1>4, <1>6, <1>7, SaveAssumption
<1>9. Len(q.asked) = 4 /\ \A j \in 1 .. 3 : q.asked[j].do = "items"
  BY <1>8, SaveCalls
<1>10. m \in Nat /\ i \in 1 .. 4
  BY <1>3, <1>5, <1>6, <1>9, LenProperties DEF Suffix
<1>11. i \notin 1 .. 3
  BY <1>3, <1>4, <1>5, <1>9
<1>12. m = 1
  <2>1. i = Len(q.asked) - m + 1
    BY <1>3, <1>5
  <2>2. i = 4 - m + 1
    BY <1>9, <2>1
  <2> QED
    BY <1>10, <1>11, <2>2
<1> QED
  BY <1>5, <1>8, <1>12 DEF IsSave

\* The entries of r become visible, and they are new.
LEMMA TrailGrows ==
    ASSUME PlanInv, Audit, Entries, NEW r \in Requests, CommitTx(r)
    PROVE  /\ \A x \in Trail' : x \in Trail \/ \E h \in history : h.by = r /\ Settles(h, x, r)
           /\ \A h \in history : h.by = r =>
                 \E x \in Trail' : Settles(h, x, r) /\ x \notin Trail
<1>1. /\ \A x \in history' : \E h \in history : Settles(h, x, r)
      /\ \A h \in history : \E x \in history' : Settles(h, x, r)
  BY CommittedEntries
<1>2. ASSUME NEW x \in Trail'
      PROVE  x \in Trail \/ \E h \in history : h.by = r /\ Settles(h, x, r)
  <2>1. x \in history' /\ x.by = Nil
    BY <1>2 DEF Trail, Committed
  <2>2. PICK h \in history : Settles(h, x, r)
    BY <1>1, <2>1
  <2>3. CASE h.by # r
    BY <2>1, <2>2, <2>3 DEF Settles, Trail, Committed
  <2> QED
    BY <2>2, <2>3
<1>3. ASSUME NEW h \in history, h.by = r
      PROVE  \E x \in Trail' : Settles(h, x, r) /\ x \notin Trail
  <2>1. PICK x \in history' : Settles(h, x, r)
    BY <1>1
  <2>2. x.by = Nil /\ x.id = h.id
    BY <1>3, <2>1 DEF Settles
  <2>3. x \notin Trail
    BY <1>3, <2>2, PlanAssumption DEF Trail, Committed, Entries, OneEntry
  <2> QED
    BY <2>1, <2>2, <2>3 DEF Trail, Committed
<1> QED
  BY <1>2, <1>3

\* How much of the plan of a save is left.
LEMMA PlanShrinks ==
    ASSUME PlanInv, NEW r \in Requests, CommitTx(r), NEW q, q = req[r],
           NEW n, Goes(r, n) \/ Failed(r, n)
    PROVE  /\ q.pc = "commit" /\ PlanOf(q) /\ q.plan # << >> /\ n.asked = q.asked
           /\ Len(q.plan) \in Nat \ {0}
           /\ Goes(r, n) => Len(n.plan) = Len(q.plan) - 1
           /\ Failed(r, n) => n.pc = "failed" /\ Len(n.plan) = 0
           /\ Goes(r, n) /\ n.pc \notin Ended => n.plan # << >>
           /\ q.pc \notin Ended
<1>1. q.pc = "commit" /\ Running(r)
  BY DEF CommitTx, Running
<1>2. PlanOf(q) /\ q.plan # << >> /\ q.pc \notin Ended
  BY <1>1, Calling DEF PlanInv
<1>3. q.plan \in Seq(Calls) /\ Len(q.plan) \in Nat \ {0}
  BY <1>2, EmptySeq, LenProperties DEF PlanOf, Suffix
<1>4. Goes(r, n) => /\ n.plan = Tail(q.plan) /\ n.asked = q.asked
                    /\ n.pc \notin Ended => n.plan # << >>
  BY DEF Goes, PlanOf
<1>5. Goes(r, n) => Len(n.plan) = Len(q.plan) - 1
  BY <1>2, <1>3, <1>4, HeadTailProperties
<1>6. Failed(r, n) => n.pc = "failed" /\ Len(n.plan) = 0 /\ n.asked = q.asked
  BY DEF Failed
<1> QED
  BY <1>1, <1>2, <1>3, <1>4, <1>5, <1>6

\* A save that appends its breadcrumb, at its commit: one entry, seen from now on.
LEMMA CrumbAppears ==
    ASSUME PlanInv, Audit, Entries, Jotting, NEW r \in Requests, CommitTx(r),
           IsSave(r), Len(req[r].plan) = 2
    PROVE  \E x \in Trail' :
              /\ x \notin Trail /\ x.action = "observation_created"
              /\ x.new = Crumb(req[r].asked)
              /\ \A y \in Trail' : y \in Trail \/ y = x
<1>1. PICK q, b : q = req[r] /\ b = Crumb(q.asked)
  OBVIOUS
<1>2. q.pc = "commit" /\ Late(q)
  <2>1. q.pc = "commit"
    BY <1>1 DEF CommitTx
  <2>2. IsSavePlan(q.asked) /\ Len(q.plan) <= 2
    <3>1. IsSavePlan(q.asked) /\ Len(q.plan) = 2
      BY <1>1 DEF IsSave
    <3>2. PICK m : m = Len(q.plan)
      OBVIOUS
    <3>3. m = 2
      BY <3>1, <3>2
    <3>4. m <= 2
      BY <3>3
    <3> QED
      BY <3>1, <3>2, <3>4
  <2> QED
    BY <2>1, <2>2 DEF Late, Ended
<1>3. Jotted(q, r) /\ Len(q.plan) = 2
  BY <1>1 DEF Jotting
<1>4. PICK h \in history : /\ h.by = r /\ \A k \in history : k.by = r => k = h
                          /\ h.action = "observation_created" /\ h.new = b
  BY <1>1, <1>2, <1>3 DEF Jotted
<1>5. PICK x \in Trail' : Settles(h, x, r) /\ x \notin Trail
  BY <1>4, TrailGrows
<1>6. \A y \in Trail' : y \in Trail \/ y = x
  <2> SUFFICES ASSUME NEW y \in Trail', y \notin Trail PROVE y = x
    OBVIOUS
  <2>1. PICK k \in history : k.by = r /\ Settles(k, y, r)
    BY TrailGrows
  <2>2. k = h
    BY <1>4, <2>1
  <2> QED
    BY <1>5, <2>1, <2>2 DEF Settles
<1> QED
  BY <1>1, <1>4, <1>5, <1>6 DEF Settles

\* The log of a save, at its commit: at most one entry.
LEMMA EventAppears ==
    ASSUME PlanInv, Audit, Entries, Jotting, NEW r \in Requests, CommitTx(r),
           IsSave(r), Len(req[r].plan) = 1
    PROVE  \E x : \A y \in Trail' : y \in Trail \/ y = x
<1>1. PICK q : q = req[r]
  OBVIOUS
<1>2. q.pc = "commit" /\ Late(q)
  <2>1. q.pc = "commit"
    BY <1>1 DEF CommitTx
  <2>2. IsSavePlan(q.asked) /\ Len(q.plan) <= 2
    <3>1. IsSavePlan(q.asked) /\ Len(q.plan) = 1
      BY <1>1 DEF IsSave
    <3>2. PICK m : m = Len(q.plan)
      OBVIOUS
    <3>3. m = 1
      BY <3>1, <3>2
    <3>4. m <= 2
      BY <3>3
    <3> QED
      BY <3>1, <3>2, <3>4
  <2> QED
    BY <2>1, <2>2 DEF Late, Ended
<1>3. Jotted(q, r)
  BY <1>1 DEF Jotting
<1>4. PICK h \in history : /\ h.by = r /\ \A k \in history : k.by = r => k = h
  BY <1>1, <1>2, <1>3 DEF Jotted
<1>5. PICK x \in Trail' : Settles(h, x, r)
  BY <1>4, TrailGrows
<1>6. ASSUME NEW y \in Trail', y \notin Trail PROVE y = x
  <2>1. PICK k \in history : k.by = r /\ Settles(k, y, r)
    BY <1>6, TrailGrows
  <2>2. k = h
    BY <1>4, <2>1
  <2> QED
    BY <1>5, <2>1, <2>2 DEF Settles
<1> QED
  BY <1>6

LEMMA TrailStaysFinite ==
    ASSUME PlanInv, Audit, Entries', Inv', NEW r \in Requests, CommitTx(r)
    PROVE  /\ IsFiniteSet(Events') /\ Cardinality(Events') \in Nat
           /\ \A B : /\ IsFiniteSet(CrumbsOf(B)')
                     /\ Cardinality(CrumbsOf(B)') \in Nat
           /\ IsFiniteSet(CrumbsOf(Breadcrumbs)')
           /\ Cardinality(CrumbsOf(Breadcrumbs)') \in Nat
           /\ Events \subseteq Events' /\ \A B : CrumbsOf(B) \subseteq CrumbsOf(B)'
<1>1. IsFiniteSet(history')
  BY EntriesStayFinite DEF Entries
<1>2. Trail \subseteq Trail' /\ Trail' \subseteq history'
  BY CommittedEntries DEF Trail, Committed
<1>3. /\ Events' \subseteq history' /\ CrumbsOf(Breadcrumbs)' \subseteq history'
      /\ \A B : CrumbsOf(B)' \subseteq history'
  BY <1>2 DEF Events, CrumbsOf
<1>4. Events \subseteq Events' /\ \A B : CrumbsOf(B) \subseteq CrumbsOf(B)'
  BY <1>2 DEF Events, CrumbsOf
<1> QED
  BY <1>1, <1>3, <1>4, Smaller

\* A save has recorded its breadcrumb once it is past that call.
LEMMA RecordedCommit ==
    ASSUME PlanInv, Audit, Entries, Entries', Inv', Jotting, IsFiniteSet(Asking),
           NEW r \in Requests, CommitTx(r), NEW n, Becomes(r, n),
           Goes(r, n) \/ Failed(r, n), NEW b,
           Cardinality(Recorded(b)) <= Cardinality(CrumbsOf({b}))
    PROVE  Cardinality(Recorded(b)') <= Cardinality(CrumbsOf({b})')
<1>1. PICK D, E, C, B, q, m : /\ D = Recorded(b) /\ E = Recorded(b)'
                              /\ C = CrumbsOf({b}) /\ B = CrumbsOf({b})'
                              /\ q = req[r] /\ m = Len(q.plan)
  OBVIOUS
<1>2. Inv /\ OneEntry
  BY DEF PlanInv, Entries
<1>3. /\ IsFiniteSet(D) /\ Cardinality(D) \in Nat
      /\ IsFiniteSet(C) /\ Cardinality(C) \in Nat
      /\ IsFiniteSet(B) /\ Cardinality(B) \in Nat /\ C \subseteq B
  BY <1>1, <1>2, AskersAreFinite, TrailIsFinite, TrailStaysFinite
<1>4. Cardinality(C) <= Cardinality(B) /\ Cardinality(D) <= Cardinality(C)
  BY <1>1, <1>3, Smaller
<1>5. /\ q.pc = "commit" /\ n.asked = q.asked /\ m \in Nat \ {0} /\ q.pc \notin Ended
      /\ Goes(r, n) => Len(n.plan) = m - 1
      /\ Failed(r, n) => n.pc = "failed"
  BY <1>1, PlanShrinks
<1>6. E \subseteq D \cup {r}
  BY <1>1, <1>2, RequestsMove
<1>7. CASE E \subseteq D
  <2>1. Cardinality(E) \in Nat /\ Cardinality(E) <= Cardinality(D)
    BY <1>3, <1>7, Smaller
  <2>2. Cardinality(E) <= Cardinality(B)
    BY <1>3, <1>4, <2>1
  <2> QED
    BY <1>1, <2>2
<1>8. CASE ~(E \subseteq D)
  <2>1. r \in E /\ r \notin D
    BY <1>6, <1>8
  <2>2. Crumbed(n, b) /\ ~Crumbed(q, b)
    BY <1>1, <1>2, <2>1, RequestsMove DEF Recorded
  <2>3. IsSavePlan(q.asked) /\ Crumb(q.asked) = b /\ n.pc # "failed" /\ Len(n.plan) <= 1
    BY <1>5, <2>2 DEF Crumbed
  <2>4. m - 1 <= 1 /\ ~(m <= 1)
    BY <1>1, <1>5, <2>2, <2>3 DEF Crumbed
  <2>5. m = 2
    BY <1>5, <2>4
  <2>6. IsSave(r) /\ Len(req[r].plan) = 2
    BY <1>1, <2>3, <2>5 DEF IsSave
  <2>7. PICK x \in Trail' : /\ x \notin Trail /\ x.action = "observation_created"
                            /\ x.new = Crumb(req[r].asked)
    BY <2>6, CrumbAppears
  <2>8. x \in B /\ x \notin C
    BY <1>1, <2>3, <2>7 DEF CrumbsOf
  <2>9. C \cup {x} \subseteq B
    BY <1>3, <2>8
  <2>10. /\ Cardinality(C \cup {x}) = Cardinality(C) + 1
         /\ Cardinality(C \cup {x}) <= Cardinality(B)
    BY <1>3, <2>8, <2>9, OneMore, Smaller
  <2>11. /\ Cardinality(D \cup {r}) <= Cardinality(D) + 1
         /\ Cardinality(D \cup {r}) \in Nat
         /\ IsFiniteSet(D \cup {r})
    BY <1>3, OneMore
  <2>12. Cardinality(E) \in Nat /\ Cardinality(E) <= Cardinality(D \cup {r})
    BY <1>6, <2>11, Smaller
  <2>13. Cardinality(E) <= Cardinality(B)
    BY <1>3, <1>4, <2>10, <2>11, <2>12
  <2> QED
    BY <1>1, <2>13
<1> QED
  BY <1>7, <1>8

\* A breadcrumb that nobody else writes is recorded once by each save.
LEMMA CandidatesCommit ==
    ASSUME PlanInv, Audit, Entries, Entries', Inv', Jotting, IsFiniteSet(Asking),
           NEW r \in Requests, CommitTx(r), NEW n, Becomes(r, n),
           Goes(r, n) \/ Failed(r, n), NEW b, ~WrittenByHand(b),
           Cardinality(CrumbsOf({b})) <= Cardinality(Candidates(b))
    PROVE  Cardinality(CrumbsOf({b})') <= Cardinality(Candidates(b)')
<1>1. PICK U, V, C, B, q, m : /\ U = Candidates(b) /\ V = Candidates(b)'
                              /\ C = CrumbsOf({b}) /\ B = CrumbsOf({b})'
                              /\ q = req[r] /\ m = Len(q.plan)
  OBVIOUS
<1>2. Inv /\ OneEntry
  BY DEF PlanInv, Entries
<1>3. /\ IsFiniteSet(U) /\ Cardinality(U) \in Nat
      /\ IsFiniteSet(C) /\ Cardinality(C) \in Nat
      /\ IsFiniteSet(B) /\ Cardinality(B) \in Nat /\ C \subseteq B
  BY <1>1, <1>2, AskersAreFinite, TrailIsFinite, TrailStaysFinite
<1>4. Cardinality(C) <= Cardinality(U)
  BY <1>1
<1>5. /\ q.pc = "commit" /\ n.asked = q.asked /\ m \in Nat \ {0}
      /\ Goes(r, n) => Len(n.plan) = m - 1
      /\ Failed(r, n) => Len(n.plan) = 0
  BY <1>1, PlanShrinks
<1>6. PICK k : k = Len(n.plan)
  OBVIOUS
<1>7. k = 0 \/ k = m - 1
  BY <1>5, <1>6
<1>8. U \subseteq V /\ V \subseteq U \cup {r}
  <2>1. V \subseteq U \cup {r}
    BY <1>1, <1>2, RequestsMove
  <2>2. MayHave(q, b) => MayHave(n, b)
    <3>1. m <= 1 => k <= 1
      BY <1>5, <1>7
    <3> QED
      BY <1>1, <1>5, <1>6, <3>1 DEF MayHave
  <2>3. r \in U => MayHave(q, b)
    BY <1>1 DEF Candidates
  <2>4. U \subseteq Requests
    BY <1>1 DEF Candidates
  <2>5. U \subseteq V
    BY <1>1, <1>2, <2>2, <2>3, <2>4, RequestsMove
  <2> QED
    BY <2>1, <2>5
<1>9. /\ IsFiniteSet(V) /\ Cardinality(V) \in Nat /\ Cardinality(U) <= Cardinality(V)
  BY <1>3, <1>8, OneMore, Smaller
<1>10. CASE B \subseteq C
  <2>1. Cardinality(B) <= Cardinality(C)
    BY <1>3, <1>10, Smaller
  <2>2. Cardinality(B) <= Cardinality(V)
    BY <1>3, <1>4, <1>9, <2>1
  <2> QED
    BY <1>1, <2>2
<1>11. CASE ~(B \subseteq C)
  <2>1. PICK y : y \in B /\ y \notin C
    BY <1>11
  <2>2. /\ y \in Trail' /\ y \notin Trail /\ y.action = "observation_created"
        /\ y.new = b
    BY <1>1, <2>1 DEF CrumbsOf
  <2>3. PICK h \in history : h.by = r /\ Settles(h, y, r)
    BY <2>2, TrailGrows
  <2>4. h.action = "observation_created" /\ h.new = b
    BY <2>2, <2>3 DEF Settles
  <2>5. IsSave(r) /\ Len(req[r].plan) = 2 /\ b = Crumb(req[r].asked)
    BY <2>3, <2>4, CreationTells
  <2>6. PICK x \in Trail' : \A z \in Trail' : z \in Trail \/ z = x
    BY <2>5, CrumbAppears
  <2>7. B \subseteq C \cup {x}
    BY <1>1, <2>6 DEF CrumbsOf
  <2>8. m = 2
    BY <1>1, <2>5
  <2>9. k <= 1
    BY <1>7, <2>8
  <2>10. r \in V /\ r \notin U
    <3>1. MayHave(n, b)
      BY <1>1, <1>5, <1>6, <2>5, <2>9 DEF MayHave, IsSave
    <3>2. ~MayHave(q, b)
      BY <1>1, <2>8 DEF MayHave
    <3> QED
      BY <1>1, <1>2, <3>1, <3>2, RequestsMove DEF Candidates
  <2>11. U \cup {r} \subseteq V
    BY <1>8, <2>10
  <2>12. /\ Cardinality(U \cup {r}) = Cardinality(U) + 1
         /\ Cardinality(U \cup {r}) <= Cardinality(V)
    BY <1>3, <1>9, <2>10, <2>11, OneMore, Smaller
  <2>13. /\ Cardinality(C \cup {x}) <= Cardinality(C) + 1
         /\ Cardinality(C \cup {x}) \in Nat /\ IsFiniteSet(C \cup {x})
    BY <1>3, OneMore
  <2>14. Cardinality(B) <= Cardinality(C \cup {x})
    BY <2>7, <2>13, Smaller
  <2>15. Cardinality(B) <= Cardinality(V)
    BY <1>3, <1>4, <1>9, <2>12, <2>13, <2>14
  <2> QED
    BY <1>1, <2>15
<1> QED
  BY <1>10, <1>11

\* Between its breadcrumb and its event a save is pending.
LEMMA EventsCommit ==
    ASSUME PlanInv, Audit, Entries, Entries', Inv', Jotting, IsFiniteSet(Asking),
           [Next]_vars, NEW r \in Requests, CommitTx(r), NEW n, Becomes(r, n),
           Goes(r, n) \/ Failed(r, n),
           Cardinality(Events) + Cardinality(Pendings) <= Cardinality(CrumbsOf(Breadcrumbs))
    PROVE  Cardinality(Events') + Cardinality(Pendings')
              <= Cardinality(CrumbsOf(Breadcrumbs)')
<1>1. PICK E, F, P, Q, C, B, q, m :
         /\ E = Events /\ F = Events' /\ P = Pendings /\ Q = Pendings'
         /\ C = CrumbsOf(Breadcrumbs) /\ B = CrumbsOf(Breadcrumbs)'
         /\ q = req[r] /\ m = Len(q.plan)
  OBVIOUS
<1>2. Inv /\ OneEntry
  BY DEF PlanInv, Entries
<1>3. /\ IsFiniteSet(E) /\ Cardinality(E) \in Nat /\ Cardinality(F) \in Nat
      /\ IsFiniteSet(P) /\ Cardinality(P) \in Nat /\ IsFiniteSet(F)
      /\ IsFiniteSet(C) /\ Cardinality(C) \in Nat /\ E \subseteq F
      /\ IsFiniteSet(B) /\ Cardinality(B) \in Nat
  BY <1>1, <1>2, AskersAreFinite, TrailIsFinite, TrailStaysFinite
<1>4. C \subseteq B
  BY <1>1, BreadcrumbsStay, CommittedEntries DEF CrumbsOf
<1>5. Cardinality(C) <= Cardinality(B) /\ Cardinality(E) + Cardinality(P) <= Cardinality(C)
  BY <1>1, <1>3, <1>4, Smaller
<1>6. /\ q.pc = "commit" /\ n.asked = q.asked /\ m \in Nat \ {0} /\ q.pc \notin Ended
      /\ Goes(r, n) => Len(n.plan) = m - 1
      /\ Failed(r, n) => n.pc = "failed"
  BY <1>1, PlanShrinks
<1>7. \A s : s \in Q <=> s \in Requests /\ (IF s = r THEN Pending(n) ELSE s \in P)
  BY <1>1, <1>2, RequestsMove
<1>8. P \subseteq Requests /\ (r \in P <=> Pending(q))
  BY <1>1 DEF Pendings
<1>9. Q \subseteq P \cup {r}
  BY <1>7
<1>10. IsFiniteSet(Q) /\ Cardinality(Q) \in Nat
  BY <1>3, <1>9, OneMore, Smaller
<1>11. Pending(n) => IsSave(r) /\ m = 2
  <2> SUFFICES ASSUME Pending(n) PROVE IsSave(r) /\ m = 2
    OBVIOUS
  <2>1. IsSavePlan(q.asked) /\ n.pc # "failed" /\ Len(n.plan) = 1
    BY <1>6 DEF Pending, Ended
  <2>2. m - 1 = 1
    BY <1>6, <2>1
  <2> QED
    BY <1>1, <1>6, <2>1, <2>2 DEF IsSave
<1>12. CASE IsSave(r) /\ m = 2
  <2>1. PICK x \in Trail' :
           /\ x \notin Trail /\ x.action = "observation_created"
           /\ x.new = Crumb(req[r].asked)
           /\ \A y \in Trail' : y \in Trail \/ y = x
    BY <1>1, <1>12, CrumbAppears
  <2>2. F \subseteq E
    BY <1>1, <2>1 DEF Events
  <2>3. x \notin C
    BY <1>1, <2>1 DEF CrumbsOf
  <2>4. x.new \in Breadcrumbs'
    <3>1. req[r].asked # << >>
      BY <1>12, SaveIsAsked
    <3>2. req'[r].asked = req[r].asked
      BY <1>2, <3>1, AskedStays DEF PlanInv
    <3> QED
      BY <1>12, <2>1, <3>2 DEF Breadcrumbs, Breadcrumb, Crumb, IsSave
  <2>5. x \in B
    BY <1>1, <2>1, <2>4 DEF CrumbsOf
  <2>6. C \cup {x} \subseteq B
    BY <1>4, <2>5
  <2>7. /\ Cardinality(C \cup {x}) = Cardinality(C) + 1
        /\ Cardinality(C \cup {x}) <= Cardinality(B)
    BY <1>3, <2>3, <2>6, OneMore, Smaller
  <2>8. /\ Cardinality(P \cup {r}) <= Cardinality(P) + 1
        /\ Cardinality(P \cup {r}) \in Nat /\ IsFiniteSet(P \cup {r})
    BY <1>3, OneMore
  <2>9. Cardinality(Q) <= Cardinality(P \cup {r})
    BY <1>9, <2>8, Smaller
  <2>10. Cardinality(F) <= Cardinality(E)
    BY <1>3, <2>2, Smaller
  <2>11. Cardinality(F) + Cardinality(Q) <= Cardinality(B)
    BY <1>3, <1>5, <1>10, <2>7, <2>8, <2>9, <2>10
  <2> QED
    BY <1>1, <2>11
<1>13. CASE IsSave(r) /\ m = 1
  <2>1. PICK x : \A y \in Trail' : y \in Trail \/ y = x
    BY <1>1, <1>13, EventAppears
  <2>2. F \subseteq E \cup {x}
    BY <1>1, <2>1 DEF Events
  <2>3. r \in P
    BY <1>1, <1>6, <1>8, <1>13 DEF Pending, IsSave
  <2>4. r \notin Q
    BY <1>7, <1>11, <1>13
  <2>5. Q \cup {r} \subseteq P
    BY <1>9, <2>3, <2>4
  <2>6. /\ Cardinality(Q \cup {r}) = Cardinality(Q) + 1
        /\ Cardinality(Q \cup {r}) <= Cardinality(P)
    BY <1>3, <1>10, <2>4, <2>5, OneMore, Smaller
  <2>7. /\ Cardinality(E \cup {x}) <= Cardinality(E) + 1
        /\ Cardinality(E \cup {x}) \in Nat /\ IsFiniteSet(E \cup {x})
    BY <1>3, OneMore
  <2>8. Cardinality(F) <= Cardinality(E \cup {x})
    BY <2>2, <2>7, Smaller
  <2>9. Cardinality(F) + Cardinality(Q) <= Cardinality(B)
    BY <1>3, <1>5, <1>10, <2>6, <2>7, <2>8
  <2> QED
    BY <1>1, <2>9
<1>14. CASE ~(IsSave(r) /\ (m = 1 \/ m = 2))
  <2>1. F \subseteq E
    <3> SUFFICES ASSUME NEW y \in F, y \notin E PROVE FALSE
      OBVIOUS
    <3>1. y \in Trail' /\ y \notin Trail /\ y.action = "checkpoint_saved"
      BY <1>1 DEF Events
    <3>2. PICK h \in history : h.by = r /\ Settles(h, y, r)
      BY <3>1, TrailGrows
    <3>3. h.action = "checkpoint_saved"
      BY <3>1, <3>2 DEF Settles
    <3>4. IsSave(r) /\ Len(req[r].plan) = 1
      BY <3>2, <3>3, EventTells
    <3> QED
      BY <1>1, <1>14, <3>4
  <2>2. Q \subseteq P
    BY <1>7, <1>11, <1>14
  <2>3. Cardinality(F) <= Cardinality(E) /\ Cardinality(Q) <= Cardinality(P)
    BY <1>3, <2>1, <2>2, Smaller
  <2>4. Cardinality(F) + Cardinality(Q) <= Cardinality(B)
    BY <1>3, <1>5, <1>10, <2>3
  <2> QED
    BY <1>1, <2>4
<1> QED
  BY <1>12, <1>13, <1>14

LEMMA CountsCommit ==
    ASSUME PlanInv, Audit, Entries, Entries', Inv', Jotting, IsFiniteSet(Asking), Counts,
           [Next]_vars, NEW r \in Requests, CommitTx(r), NEW n, Becomes(r, n),
           Goes(r, n) \/ Failed(r, n)
    PROVE  Counts'
<1>1. ASSUME NEW b PROVE Counted(b)'
  <2>1. Cardinality(Recorded(b)) <= Cardinality(CrumbsOf({b}))
    BY DEF Counts, Counted
  <2>2. Cardinality(Recorded(b)') <= Cardinality(CrumbsOf({b})')
    BY <2>1, RecordedCommit
  <2>3. \/ WrittenByHand(b)'
        \/ Cardinality(CrumbsOf({b})') <= Cardinality(Candidates(b)')
    <3>1. CASE WrittenByHand(b)
      BY <3>1, ByHandStays
    <3>2. CASE ~WrittenByHand(b)
      <4>1. Cardinality(CrumbsOf({b})) <= Cardinality(Candidates(b))
        BY <3>2 DEF Counts, Counted
      <4> QED
        BY <3>2, <4>1, CandidatesCommit
    <3> QED
      BY <3>1, <3>2
  <2> QED
    BY <2>2, <2>3 DEF Counted
<1>2. Cardinality(Events) + Cardinality(Pendings) <= Cardinality(CrumbsOf(Breadcrumbs))
  BY DEF Counts
<1>3. Cardinality(Events') + Cardinality(Pendings') <= Cardinality(CrumbsOf(Breadcrumbs)')
  BY <1>2, EventsCommit
<1> QED
  BY <1>1, <1>3 DEF Counts

(* ---- The trail accounts for the saves ------------------------------------- *)

TrailInv == Entries /\ Jotting /\ IsFiniteSet(Asking) /\ Counts

\* A statement that ends no call.
LEMMA TrailEnters ==
    ASSUME PlanInv, TrailInv, [Next]_vars, NEW r \in Requests, Running(r),
           NEW n, Becomes(r, n), n.asked = req[r].asked, n.plan = req[r].plan,
           NEW H, Entered(r, H), Late(n) => Writing(n) /\ Jotted(n, r)'
    PROVE  TrailInv'
<1>1. Inv /\ Entries /\ Jotting /\ IsFiniteSet(Asking) /\ Counts
  BY DEF PlanInv, TrailInv
<1>2. Entries'
  BY <1>1, EntriesEntered
<1>3. Jotting'
  BY <1>1, EnteredIsOwn, JottingStays
<1>4. IsFiniteSet(Asking)'
  BY <1>1, AskersStayFinite
<1>5. Counts'
  <2>1. Trail' = Trail
    BY EnteredIsHidden
  <2>2. /\ \A b : /\ Crumbed(n, b) => Crumbed(req[r], b)
                  /\ MayHave(req[r], b) => MayHave(n, b)
        /\ Pending(n) => Pending(req[r])
    BY DEF Crumbed, MayHave, Pending, Running, Ended
  <2> QED
    BY <1>1, <2>1, <2>2, CountsStay
<1> QED
  BY <1>2, <1>3, <1>4, <1>5 DEF TrailInv

LEMMA TrailSeeks ==
    ASSUME PlanInv, TrailInv, [Next]_vars, NEW r \in Requests, ~Fail(r),
           FindEntity(r) \/ InsertEntity(r)
    PROVE  TrailInv'
<1>1. Inv /\ Planned /\ Writing(req[r]) /\ Jotted(req[r], r)
  BY DEF PlanInv, TrailInv, Jotting
<1>2. req[r].pc \in Seeking /\ Running(r)
  BY DEF FindEntity, InsertEntity, Seeking, Running
<1>3. PICK n : /\ Becomes(r, n) /\ Within(req[r], n)
               /\ NotFound(req[r], n) \/ \E id : Resolved(req[r], n, id)
  BY <1>1, FindEntityMove, InsertEntityMove
<1>4. UNCHANGED history
  BY DEF FindEntity, InsertEntity, tables
<1>5. Late(n) => Writing(n) /\ Jotted(n, r)'
  BY <1>1, <1>2, <1>3, <1>4, SeekJotted
<1>6. Entered(r, {})
  BY <1>4, NothingEntered
<1> QED
  BY <1>2, <1>3, <1>5, <1>6, TrailEnters DEF Within

\* The statements that only the first call of a save, or no save, makes.
LEMMA TrailPasses ==
    ASSUME PlanInv, TrailInv, [Next]_vars, NEW r \in Requests, ~Fail(r),
           SnapObservations(r) \/ ClearObservations(r) \/ InsertRelation(r)
    PROVE  TrailInv'
<1>1. Inv /\ Planned /\ PlanOf(req[r]) /\ Writing(req[r])
  BY DEF PlanInv, Planned, TrailInv, Jotting
<1>2. req[r].pc \in {"snap_obs", "clear_obs", "insert_rel"} /\ Running(r)
  BY DEF SnapObservations, ClearObservations, InsertRelation, Running
<1>3. PICK n : Becomes(r, n) /\ Within(req[r], n)
  BY <1>1, SnapObservationsMove, ClearObservationsMove, InsertRelationMove
<1>4. UNCHANGED history
  BY DEF SnapObservations, ClearObservations, InsertRelation, tables
<1>5. ~Late(n)
  <2> SUFFICES ASSUME Late(n) PROVE FALSE
    OBVIOUS
  <2>1. Late(req[r])
    BY <1>2, <1>3 DEF Late, Within, Ended
  <2>2. CASE Len(req[r].plan) = 2
    BY <1>1, <1>2, <2>1, <2>2, Appending DEF ItemPcs
  <2>3. CASE Len(req[r].plan) # 2
    BY <1>1, <1>2, <2>1, <2>3, Logging
  <2> QED
    BY <2>2, <2>3
<1>6. Entered(r, {})
  BY <1>4, NothingEntered
<1> QED
  BY <1>2, <1>3, <1>5, <1>6, TrailEnters DEF Within

LEMMA TrailInserts ==
    ASSUME PlanInv, TrailInv, [Next]_vars, NEW r \in Requests, ~Fail(r),
           InsertObservation(r)
    PROVE  TrailInv'
<1>1. Inv /\ Planned /\ Writing(req[r]) /\ Jotted(req[r], r)
  BY DEF PlanInv, TrailInv, Jotting
<1>2. Running(r)
  BY DEF InsertObservation, Running
<1>3. PICK n : /\ Becomes(r, n) /\ Within(req[r], n)
               /\ Followed(req[r], n, Tail(req[r].contents))
  BY <1>1, InsertObservationMove
<1>4. Late(n) => Writing(n) /\ Jotted(n, r)'
  BY <1>1, <1>3, InsertJotted
<1>5. PICK H : Entered(r, H)
  BY InsertObservationEntry, NothingEntered
<1> QED
  BY <1>2, <1>3, <1>4, <1>5, TrailEnters DEF Within

LEMMA TrailSingle ==
    ASSUME PlanInv, TrailInv, [Next]_vars, NEW r \in Requests, ~Fail(r),
           Single(r), Running(r)
    PROVE  TrailInv'
<1>1. Writing(req[r]) /\ Jotted(req[r], r)
  BY DEF TrailInv, Jotting
<1>2. PICK n : /\ Becomes(r, n) /\ PlanOf(n)
               /\ n.asked = req[r].asked /\ n.plan = req[r].plan
  BY SingleMove
<1>3. Late(n) => Writing(n) /\ Jotted(n, r)'
  BY <1>1, <1>2, SingleJotted
<1>4. PICK H : Entered(r, H)
  BY SingleEntries
<1> QED
  BY <1>2, <1>3, <1>4, TrailEnters

LEMMA TrailFails ==
    ASSUME PlanInv, Audit, TrailInv, [Next]_vars, NEW r \in Requests,
           Running(r), Fail(r)
    PROVE  TrailInv'
<1>1. Inv /\ Planned /\ Entries /\ Jotting /\ IsFiniteSet(Asking) /\ Counts
  BY DEF PlanInv, TrailInv
<1>2. PICK n : Becomes(r, n) /\ Failed(r, n)
  BY <1>1, FailMove
<1>3. /\ history' = {h \in history : h.by # r} /\ Trail' = Trail
  BY FailedEntries
<1>4. Entries'
  BY <1>1, <1>2, EntriesFail
<1>5. n.pc = "failed" /\ n.plan = << >> /\ n.asked = req[r].asked /\ Len(n.plan) = 0
  BY <1>2 DEF Failed
<1>6. Jotting'
  <2>1. ~Late(n)
    BY <1>5 DEF Late, Ended
  <2>2. \A s \in Requests : s # r =>
           \A h : h \in history /\ h.by = s <=> h \in history' /\ h.by = s
    BY <1>3
  <2> QED
    BY <1>1, <1>2, <2>1, <2>2, JottingStays
<1>7. IsFiniteSet(Asking)'
  BY <1>1, <1>2, AskersStayFinite
<1>8. Counts'
  <2>1. /\ \A b : /\ Crumbed(n, b) => Crumbed(req[r], b)
                  /\ MayHave(req[r], b) => MayHave(n, b)
        /\ Pending(n) => Pending(req[r])
    BY <1>5 DEF Crumbed, MayHave, Pending, Ended
  <2> QED
    BY <1>1, <1>2, <1>3, <2>1, CountsStay
<1> QED
  BY <1>4, <1>6, <1>7, <1>8 DEF TrailInv

LEMMA TrailCommits ==
    ASSUME PlanInv, Audit, TrailInv, [Next]_vars, NEW r \in Requests, CommitTx(r)
    PROVE  TrailInv'
<1>1. Inv /\ Planned /\ Entries /\ Jotting /\ IsFiniteSet(Asking) /\ Counts
  BY DEF PlanInv, TrailInv
<1>2. Inv'
  BY PlanInvNext DEF PlanInv
<1>3. PICK n : Becomes(r, n) /\ (Goes(r, n) \/ Failed(r, n))
  BY <1>1, CommitMove
<1>4. Entries'
  BY <1>1, <1>3, EntriesCommit
<1>5. Jotting'
  <2>1. Late(n) => Writing(n) /\ Jotted(n, r)'
    <3>1. Failed(r, n) => ~Late(n)
      BY DEF Failed, Late, Ended
    <3> QED
      BY <1>3, <3>1, CommitJotted
  <2> QED
    BY <1>1, <1>3, <2>1, CommittedIsOwn, JottingStays
<1>6. IsFiniteSet(Asking)'
  BY <1>1, <1>3, AskersStayFinite
<1>7. Counts'
  BY <1>1, <1>2, <1>3, <1>4, CountsCommit
<1> QED
  BY <1>4, <1>5, <1>6, <1>7 DEF TrailInv

\* A save begins with four calls to make.
LEMMA TrailBegins ==
    ASSUME PlanInv, TrailInv, [Next]_vars, NEW r \in Requests,
           NEW plan \in Plans, Begin(r, plan)
    PROVE  TrailInv'
<1>1. Inv /\ Planned /\ Entries /\ Jotting /\ IsFiniteSet(Asking) /\ Counts
  BY DEF PlanInv, TrailInv
<1>2. PICK n : /\ Becomes(r, n) /\ n.asked = plan /\ n.plan = plan
               /\ req[r].asked = << >>
  BY <1>1, BeginMove
<1>3. IsSavePlan(n.asked) => ~(Len(n.plan) <= 2) /\ ~(Len(n.plan) <= 1) /\ Len(n.plan) # 1
  <2>1. PICK m : m = Len(n.plan)
    OBVIOUS
  <2>2. IsSavePlan(n.asked) => m = 4
    BY <1>2, <2>1 DEF IsSavePlan
  <2>3. IsSavePlan(n.asked) => ~(m <= 2) /\ ~(m <= 1) /\ m # 1
    BY <2>2
  <2> QED
    BY <2>1, <2>3
<1>4. ~IsSavePlan(req[r].asked)
  BY <1>2 DEF IsSavePlan
<1>5. history' = history /\ Trail' = Trail /\ \A h \in history : h.by # r
  <2>1. history' = history
    BY DEF Begin, tables
  <2>2. \A h \in history : h.by # r
    BY <1>1, EntryIsOpen DEF Begin, Running
  <2> QED
    BY <2>1, <2>2 DEF Trail
<1>6. Entries'
  <2>1. \A s \in Requests : s # r => Call(s)' = Call(s)
    BY <1>1, <1>2, CallsRest
  <2>2. ASSUME NEW h \in history PROVE Source(h)'
    <3>1. Source(h) /\ h.by # r
      BY <1>1, <1>5 DEF Entries
    <3>2. h.by \in Requests \cup {Nil}
      BY <1>1, InvTypes DEF TypeOK
    <3> QED
      BY <2>1, <3>1, <3>2 DEF Source, Told
  <2> QED
    BY <1>1, <1>5, <2>2 DEF Entries, OneEntry
<1>7. Jotting'
  <2>1. ~Late(n)
    BY <1>3 DEF Late
  <2> QED
    BY <1>1, <1>2, <1>5, <2>1, JottingStays
<1>8. IsFiniteSet(Asking)'
  BY <1>1, <1>2, AskersStayFinite
<1>9. Counts'
  <2>1. /\ \A b : /\ Crumbed(n, b) => Crumbed(req[r], b)
                  /\ MayHave(req[r], b) => MayHave(n, b)
        /\ Pending(n) => Pending(req[r])
    BY <1>3, <1>4 DEF Crumbed, MayHave, Pending
  <2> QED
    BY <1>1, <1>2, <1>5, <2>1, CountsStay
<1> QED
  BY <1>6, <1>7, <1>8, <1>9 DEF TrailInv

LEMMA TrailRests ==
    ASSUME TrailInv, UNCHANGED vars
    PROVE  TrailInv'
<1>1. history' = history /\ req' = req
  BY DEF vars
<1>2. Entries'
  BY <1>1 DEF TrailInv, Entries, OneEntry, Source, Call
<1>3. Jotting'
  BY <1>1 DEF TrailInv, Jotting, Jotted
<1>4. /\ Asking' = Asking /\ Pendings' = Pendings /\ Events' = Events
      /\ CrumbsOf(Breadcrumbs)' = CrumbsOf(Breadcrumbs)
  BY <1>1 DEF Asking, Pendings, Events, CrumbsOf, Breadcrumbs, Breadcrumb, IsSave, Trail
<1>5. \A b : Counted(b) => Counted(b)'
  BY <1>1 DEF Counted, Recorded, Candidates, CrumbsOf, Trail, WrittenByHand, IsSave
<1> QED
  BY <1>2, <1>3, <1>4, <1>5 DEF TrailInv, Counts

LEMMA TrailNext ==
    ASSUME PlanInv, Audit, TrailInv, [Next]_vars
    PROVE  TrailInv'
<1>1. CASE UNCHANGED vars
  BY <1>1, TrailRests
<1>2. ASSUME NEW r \in Requests, Step(r) \/ Abort(r) PROVE TrailInv'
  <2>1. Running(r)
    BY <1>2, FailsRunning
  <2>2. CASE Fail(r)
    BY <2>1, <2>2, TrailFails
  <2>3. CASE ~Fail(r)
    BY <1>2, <2>1, <2>3, Steps, TrailSeeks, TrailPasses, TrailInserts,
       TrailSingle, TrailCommits
  <2> QED
    BY <2>2, <2>3
<1> QED
  BY <1>1, <1>2, TrailBegins DEF Next

LEMMA InitTrailInv == Init => TrailInv
<1> SUFFICES ASSUME Init PROVE TrailInv
  OBVIOUS
<1>1. /\ history = {}
      /\ \A r \in Requests : req[r].asked = << >> /\ req[r].pc = "idle"
  BY DEF Init, Fresh
<1>2. \A r \in Requests : ~IsSavePlan(req[r].asked)
  BY <1>1 DEF IsSavePlan
<1>3. Entries
  BY <1>1 DEF Entries, OneEntry
<1>4. Jotting
  BY <1>2 DEF Jotting, Writing, Jotted, Late
<1>5. IsFiniteSet({}) /\ Cardinality({}) = 0
  BY FS_EmptySet
<1>6. Asking = {} /\ Pendings = {} /\ Events = {} /\ \A B : CrumbsOf(B) = {}
  BY <1>1, <1>2 DEF Asking, Pendings, Pending, Events, CrumbsOf, Trail, Committed
<1>7. \A b : Recorded(b) = {} /\ Candidates(b) = {}
  BY <1>2 DEF Recorded, Candidates, Crumbed, MayHave
<1>8. \A b : Counted(b)
  BY <1>5, <1>6, <1>7 DEF Counted
<1>9. Counts
  BY <1>5, <1>6, <1>8 DEF Counts
<1> QED
  BY <1>3, <1>4, <1>5, <1>6, <1>9 DEF TrailInv

LEMMA CountsAccount ==
    ASSUME PlanInv, TrailInv
    PROVE  TrailAccounts
<1> DEFINE saves(b) == {r \in Requests : IsSave(r) /\ Breadcrumb(r) = b}
           done(b) == {r \in saves(b) : req[r].pc = "done"}
<1>1. Inv /\ OneEntry /\ IsFiniteSet(Asking) /\ Counts
  BY DEF PlanInv, TrailInv, Entries
<1>2. ASSUME NEW b
      PROVE  /\ Cardinality(done(b)) <= Cardinality(CrumbsOf({b}))
             /\ WrittenByHand(b) \/ Cardinality(CrumbsOf({b})) <= Cardinality(saves(b))
  <2>1. PICK D, S, R, C, K : /\ D = done(b) /\ S = saves(b) /\ R = Recorded(b)
                             /\ C = Candidates(b) /\ K = CrumbsOf({b})
    OBVIOUS
  <2>2. S \subseteq Asking
    BY <2>1, SaveIsAsked DEF Asking
  <2>3. D \subseteq R
    <3>1. ASSUME NEW r \in D PROVE r \in R
      <4>1. r \in Requests /\ IsSave(r) /\ Breadcrumb(r) = b /\ req[r].pc = "done"
        BY <2>1
      <4>2. req[r].plan = << >>
        BY <4>1 DEF PlanInv, Planned, PlanOf
      <4>3. Len(req[r].plan) <= 1
        BY <4>2
      <4> QED
        BY <2>1, <4>1, <4>3 DEF Recorded, Crumbed, Crumb, Breadcrumb, IsSave
    <3> QED
      BY <3>1
  <2>4. C \subseteq S
    BY <2>1 DEF Candidates, MayHave, Crumb, Breadcrumb, IsSave
  <2>5. IsFiniteSet(R) /\ IsFiniteSet(S) /\ Cardinality(K) \in Nat
    BY <1>1, <2>1, <2>2, AskersAreFinite, TrailIsFinite, Smaller
  <2>6. /\ Cardinality(D) \in Nat /\ Cardinality(R) \in Nat
        /\ Cardinality(D) <= Cardinality(R)
        /\ Cardinality(C) \in Nat /\ Cardinality(S) \in Nat
        /\ Cardinality(C) <= Cardinality(S)
    BY <2>3, <2>4, <2>5, Smaller
  <2>7. /\ Cardinality(R) <= Cardinality(K)
        /\ WrittenByHand(b) \/ Cardinality(K) <= Cardinality(C)
    BY <1>1, <2>1 DEF Counts, Counted
  <2>8. /\ Cardinality(D) <= Cardinality(K)
        /\ WrittenByHand(b) \/ Cardinality(K) <= Cardinality(S)
    BY <2>5, <2>6, <2>7
  <2> QED
    BY <2>1, <2>8
<1>3. Cardinality(Events) <= Cardinality(CrumbsOf(Breadcrumbs))
  <2>1. PICK e, p, c : /\ e = Cardinality(Events) /\ p = Cardinality(Pendings)
                       /\ c = Cardinality(CrumbsOf(Breadcrumbs))
    OBVIOUS
  <2>2. e \in Nat /\ p \in Nat /\ c \in Nat /\ e + p <= c
    BY <1>1, <2>1, AskersAreFinite, TrailIsFinite DEF Counts
  <2>3. e <= c
    BY <2>2
  <2> QED
    BY <2>1, <2>3
<1> QED
  BY <1>2, <1>3 DEF TrailAccounts, CrumbsOf, Events, Breadcrumbs

\* The trail and the log account for the saves, however many run and whatever
\* fails in between: a save that succeeded left its breadcrumb, none leaves it
\* twice, and each checkpoint_saved has a breadcrumb (SaveCheckpoint in
\* usecase/checkpoint.go, four transactions).
THEOREM SavesAreAccounted == Spec => []TrailAccounts
<1>1. PlanInv /\ Audit /\ TrailInv /\ [Next]_vars => TrailInv'
  BY TrailNext
<1>2. PlanInv /\ Audit /\ [Next]_vars => Audit'
  BY AuditNext
<1>3. PlanInv /\ TrailInv => TrailAccounts
  BY CountsAccount
<1> QED
  BY <1>1, <1>2, <1>3, InitAudit, InitTrailInv, PlanInvHolds, PTL DEF Spec
=============================================================================
