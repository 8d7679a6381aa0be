--------------------------- MODULE BroadcastProofs ---------------------------
(***************************************************************************)
(* What every broadcast satisfies, and with it everything that implements  *)
(* one (EventBusProofs).                                                   *)
(***************************************************************************)
EXTENDS Broadcast, TLAPS

\* A stream that was never opened has had nothing.
Fresh == \A s \in Streams \ made : given[s] = << >> /\ lost[s] = {}

\* A call that still lasts overlaps all that were announced after it.
Overlap ==
    \A e \in ongoing, f \in 1 .. Len(log) : e < f => e \in log[f].overlaps

IInv == /\ TypeOK /\ Fresh /\ Overlap
        /\ Isolation /\ AtMostOnce /\ RealTimeOrder /\ NoSilentLoss

LEMMA InitInv == Init => IInv
BY DEF Init, IInv, TypeOK, Fresh, Overlap, Isolation, AtMostOnce,
       RealTimeOrder, NoSilentLoss

\* The new stream has had nothing, and all events are older than it.
LEMMA SubscribeInv ==
    ASSUME IInv, NEW s \in Streams, NEW p \in Projects, Subscribe(s, p)
    PROVE  IInv'
<1> USE DEF IInv, Subscribe
<1>1. /\ s \notin made /\ given[s] = << >> /\ lost[s] = {}
      /\ Len(log) \in Nat /\ stream'[s] = [project |-> p, since |-> Len(log)]
      /\ \A t \in Streams \ {s} : stream'[t] = stream[t]
  BY DEF TypeOK, Fresh
<1>2. TypeOK'
  BY <1>1 DEF TypeOK
<1>3. Fresh' /\ Overlap' /\ AtMostOnce' /\ RealTimeOrder'
  BY DEF Fresh, Overlap, AtMostOnce, RealTimeOrder
<1>4. Isolation'
  BY <1>1 DEF Isolation, Wants, TypeOK
<1>5. NoSilentLoss'
  BY <1>1 DEF NoSilentLoss, Wants, HadItsTurn, TypeOK
<1> QED
  BY <1>2, <1>3, <1>4, <1>5

LEMMA LeaveInv ==
    ASSUME IInv, NEW s \in Streams, Leave(s)
    PROVE  IInv'
<1> USE DEF IInv, Leave
<1>1. TypeOK' /\ Fresh' /\ Overlap' /\ AtMostOnce' /\ RealTimeOrder'
  BY DEF TypeOK, Fresh, Overlap, AtMostOnce, RealTimeOrder
<1>2. Isolation' /\ NoSilentLoss'
  BY DEF Isolation, NoSilentLoss, Wants, HadItsTurn
<1> QED
  BY <1>1, <1>2

\* The log only grows, and the new event overlaps what is ongoing.
LEMMA AnnounceInv ==
    ASSUME IInv, NEW p \in Projects, Announce(p)
    PROVE  IInv'
<1> USE DEF IInv, Announce
<1> DEFINE n == Len(log) + 1
           entry == [project |-> p, overlaps |-> ongoing]
<1>1. /\ Len(log) \in Nat /\ Len(log') = n /\ log'[n] = entry
      /\ \A e \in 1 .. Len(log) : log'[e] = log[e]
      /\ entry \in [project : Projects, overlaps : SUBSET Nat]
  BY DEF TypeOK
<1>2. TypeOK'
  BY <1>1 DEF TypeOK
<1>3. Fresh' /\ AtMostOnce'
  BY DEF Fresh, AtMostOnce
<1>4. Overlap'
  <2> SUFFICES ASSUME NEW e \in ongoing', NEW f \in 1 .. n, e < f
               PROVE  e \in log'[f].overlaps
    BY <1>1 DEF Overlap
  <2>1. e \in ongoing
    BY <1>1
  <2>2. CASE f = n
    BY <1>1, <2>1, <2>2
  <2>3. CASE f \in 1 .. Len(log)
    BY <1>1, <2>1, <2>3 DEF Overlap
  <2> QED
    BY <1>1, <2>2, <2>3
<1>5. Isolation'
  BY <1>1 DEF Isolation, Wants
<1>6. RealTimeOrder'
  BY <1>1 DEF RealTimeOrder, Isolation, TypeOK
<1>7. NoSilentLoss'
  <2> SUFFICES ASSUME NEW s \in open, NEW e \in 1 .. n,
                      Wants(s, e)', stream[s].since < e, e \notin ongoing' \cup torn
               PROVE  HadItsTurn(s, e)
    BY <1>1 DEF NoSilentLoss, HadItsTurn
  <2>1. e \in 1 .. Len(log)
    BY <1>1
  <2> QED
    BY <1>1, <2>1 DEF NoSilentLoss, Wants
<1> QED
  BY <1>2, <1>3, <1>4, <1>5, <1>6, <1>7

\* What a stream whose turn it is has not had: the event goes to the end, after
\* only such later ones as its call overlaps.
LEMMA GiveInv ==
    ASSUME IInv, NEW s \in Streams, NEW e \in ongoing, Give(s, e)
    PROVE  IInv'
<1> USE DEF IInv, Give
<1> DEFINE n == Len(given[s]) + 1
<1>1. /\ e \in Nat /\ e \in 1 .. Len(log) /\ given[s] \in Seq(Nat)
      /\ s \in open /\ s \in made /\ Wants(s, e) /\ ~HadItsTurn(s, e)
  BY DEF TypeOK, Due
<1>2. /\ n \in Nat /\ Len(given'[s]) = n /\ given'[s][n] = e
      /\ given'[s] \in Seq(Nat)
      /\ \A i \in 1 .. Len(given[s]) : given'[s][i] = given[s][i]
      /\ \A t \in Streams \ {s} : given'[t] = given[t]
  BY <1>1 DEF TypeOK
<1>3. \A i \in 1 .. n : i = n \/ i \in 1 .. Len(given[s])
  BY <1>1
<1>4. TypeOK' /\ Overlap' /\ Fresh'
  BY <1>1, <1>2 DEF TypeOK, Overlap, Fresh
<1>5. Isolation'
  <2>1. \A i \in 1 .. n : given'[s][i] \in 1 .. Len(log) /\ Wants(s, given'[s][i])
    BY <1>1, <1>2, <1>3 DEF Isolation
  <2> QED
    BY <1>2, <2>1 DEF Isolation, Wants
<1>6. AtMostOnce'
  <2>1. \A i \in 1 .. Len(given[s]) : given[s][i] # e
    BY <1>1 DEF HadItsTurn
  <2>2. \A i, j \in 1 .. n : given'[s][i] = given'[s][j] => i = j
    BY <1>2, <1>3, <2>1 DEF AtMostOnce
  <2>3. \A i \in 1 .. n : given'[s][i] \notin lost[s]
    BY <1>1, <1>2, <1>3 DEF AtMostOnce, HadItsTurn
  <2> QED
    BY <1>2, <2>2, <2>3 DEF AtMostOnce
<1>7. RealTimeOrder'
  <2>1. ASSUME NEW i \in 1 .. n, NEW j \in 1 .. n, i < j,
               given'[s][j] < given'[s][i]
        PROVE  given'[s][j] \in log[given'[s][i]].overlaps
    <3>1. i \in 1 .. Len(given[s])
      BY <1>1, <2>1
    <3>2. CASE j = n
      BY <1>1, <1>2, <2>1, <3>1, <3>2 DEF Overlap, Isolation
    <3>3. CASE j \in 1 .. Len(given[s])
      BY <1>2, <2>1, <3>1, <3>3 DEF RealTimeOrder
    <3> QED
      BY <1>3, <3>2, <3>3
  <2>2. ASSUME NEW t \in Streams \ {s},
               NEW i \in 1 .. Len(given[t]), NEW j \in 1 .. Len(given[t]),
               i < j, given[t][j] < given[t][i]
        PROVE  given[t][j] \in log[given[t][i]].overlaps
    BY <2>2 DEF RealTimeOrder
  <2> HIDE DEF IInv, Give
  <2>3. log' = log
    BY DEF Give
  <2> QED
    BY <1>2, <2>1, <2>2, <2>3 DEF RealTimeOrder
<1>8. NoSilentLoss'
  <2>1. \A t \in Streams, f \in Nat : HadItsTurn(t, f) => HadItsTurn(t, f)'
    BY <1>1, <1>2 DEF HadItsTurn
  <2> QED
    BY <2>1 DEF NoSilentLoss, Wants, TypeOK
<1> QED
  BY <1>4, <1>5, <1>6, <1>7, <1>8

LEMMA LoseInv ==
    ASSUME IInv, NEW s \in Streams, NEW e \in ongoing, Lose(s, e)
    PROVE  IInv'
<1> USE DEF IInv, Lose
<1>1. /\ e \in Nat /\ e \in 1 .. Len(log) /\ s \in made
      /\ Wants(s, e) /\ ~HadItsTurn(s, e)
      /\ lost'[s] = lost[s] \cup {e}
      /\ \A t \in Streams \ {s} : lost'[t] = lost[t]
  BY DEF TypeOK, Due
<1>2. TypeOK' /\ Overlap' /\ Fresh' /\ RealTimeOrder'
  BY <1>1 DEF TypeOK, Overlap, Fresh, RealTimeOrder
<1>3. Isolation'
  BY <1>1 DEF Isolation, Wants
<1>4. AtMostOnce'
  <2>1. \A i \in 1 .. Len(given[s]) : given[s][i] # e
    BY <1>1 DEF HadItsTurn
  <2>2. \A t \in Streams : \A i \in 1 .. Len(given[t]) : given[t][i] \notin lost'[t]
    BY <1>1, <2>1 DEF AtMostOnce
  <2> QED
    BY <2>2 DEF AtMostOnce
<1>5. NoSilentLoss'
  <2>1. \A t \in Streams, f \in Nat : HadItsTurn(t, f) => HadItsTurn(t, f)'
    BY <1>1 DEF HadItsTurn
  <2> QED
    BY <2>1 DEF NoSilentLoss, Wants, TypeOK
<1> QED
  BY <1>2, <1>3, <1>4, <1>5

\* A call ends: by its guard nothing is missing, and what is torn off is not
\* promised.
LEMMA EndInv ==
    ASSUME IInv, NEW e \in ongoing, Finish(e) \/ TearOff(e)
    PROVE  IInv'
<1> USE DEF IInv, Finish, TearOff
<1>1. TypeOK' /\ Overlap' /\ Fresh' /\ AtMostOnce' /\ RealTimeOrder'
  BY DEF TypeOK, Overlap, Fresh, AtMostOnce, RealTimeOrder
<1>2. Isolation'
  BY DEF Isolation, Wants
<1>3. NoSilentLoss'
  <2>1. CASE Finish(e)
    BY <2>1 DEF NoSilentLoss, Wants, HadItsTurn
  <2>2. CASE TearOff(e)
    BY <2>2 DEF NoSilentLoss, Wants, HadItsTurn
  <2> QED
    BY <2>1, <2>2
<1> QED
  BY <1>1, <1>2, <1>3

LEMMA StutterInv ==
    ASSUME IInv, UNCHANGED vars
    PROVE  IInv'
BY DEF IInv, vars, TypeOK, Fresh, Overlap, Isolation, AtMostOnce,
       RealTimeOrder, NoSilentLoss, Wants, HadItsTurn

LEMMA StepInv == IInv /\ [Next]_vars => IInv'
BY SubscribeInv, LeaveInv, AnnounceInv, GiveInv, LoseInv, EndInv, StutterInv
   DEF Next

LEMMA Invariance == Spec => []IInv
BY InitInv, StepInv, PTL DEF Spec

\* Every broadcast isolates the projects, gives no event twice, respects real
\* time and loses nothing silently (the contract of bus.go Bus).
THEOREM Promises ==
    Spec => [](Isolation /\ AtMostOnce /\ RealTimeOrder /\ NoSilentLoss)
<1>1. IInv => Isolation /\ AtMostOnce /\ RealTimeOrder /\ NoSilentLoss
  BY DEF IInv
<1> QED
  BY <1>1, Invariance, PTL
=============================================================================
