--------------------------- MODULE EventBusProofs ---------------------------
(***************************************************************************)
(* The safety of the event bus, for every number of projects, connections  *)
(* and publishers, every channel capacity and every bound.                 *)
(***************************************************************************)
EXTENDS EventBus, SequenceTheorems, TLAPS

LEMMA Constants ==
    /\ Cap \in Nat \ {0} /\ MaxStreams \in Nat /\ MaxEvents \in Nat
    /\ (CHOOSE p \in Projects : TRUE) \in Projects
    /\ NoStream \notin Streams /\ NoEvent \notin Events
BY CapAssumption, BoundsAssumption, ProjectsAssumption
   DEF Streams, NoStream, Events, NoEvent

LEMMA IdleTypes == IdleConn \in HandlerState /\ IdlePub \in PublishState
BY Constants DEF IdleConn, IdlePub, HandlerState, PublishState

LEMMA InitInv == Init => IInv
<1> SUFFICES ASSUME Init PROVE IInv
  OBVIOUS
<1>1. TypeOK
  BY Constants, IdleTypes DEF Init, TypeOK, Streams, Events
<1>2. HandlersOwn
  BY DEF Init, HandlersOwn, Subscribed, IdleConn
<1>3. RegistryMatches /\ OneOwner
  BY Constants DEF Init, RegistryMatches, OneOwner, Live, Subscribed, IdleConn
<1>4. CopiesMatch
  BY DEF Init, CopiesMatch, IdlePub
<1> QED
  BY <1>1, <1>2, <1>3, <1>4 DEF IInv

-----------------------------------------------------------------------------
(* Most steps change the handler of one connection and leave every stream  *)
(* where it is; these facts say what such a step keeps.                    *)

\* A step that leaves the registry alone keeps RegistryMatches.
LEMMA RegistryFrame ==
    ASSUME RegistryMatches,
           UNCHANGED <<nextID, subs, topics, closed, stream>>
    PROVE  RegistryMatches'
BY DEF RegistryMatches, Live

\* A step that changes neither who is subscribed nor to what keeps OneOwner.
LEMMA OwnerFrame ==
    ASSUME OneOwner, UNCHANGED <<nextID, closed>>,
           \A d \in Conns : /\ Subscribed(d)' <=> Subscribed(d)
                            /\ Subscribed(d) => conn'[d].id = conn[d].id
    PROVE  OneOwner'
<1>1. Live' = Live
  BY DEF Live
<1>2. \A s \in Live' : \E c \in Conns : Subscribed(c)' /\ conn'[c].id = s
  BY <1>1 DEF OneOwner
<1>3. \A c, d \in Conns : Subscribed(c)' /\ Subscribed(d)'
                          /\ conn'[c].id = conn'[d].id => c = d
  BY DEF OneOwner
<1> QED
  BY <1>2, <1>3 DEF OneOwner

\* A step that only logs new events and keeps every subscribed handler as it
\* is keeps HandlersOwn.
LEMMA HandlersFrame ==
    ASSUME HandlersOwn, TypeOK, UNCHANGED <<nextID, closed, stream, log>>,
           \A d \in Conns :
              /\ Subscribed(d)' => /\ Subscribed(d)
                                   /\ conn'[d].id = conn[d].id
                                   /\ conn'[d].project = conn[d].project
              /\ conn'[d].pc = "writing" => /\ conn[d].pc = "writing"
                                            /\ conn'[d].hand = conn[d].hand
    PROVE  HandlersOwn'
<1> SUFFICES ASSUME NEW d \in Conns
             PROVE  /\ Subscribed(d)' =>
                          /\ conn'[d].id \in Live'
                          /\ stream'[conn'[d].id].project = conn'[d].project
                    /\ conn'[d].pc = "writing" =>
                          /\ conn'[d].hand \in 1 .. Len(log')
                          /\ log'[conn'[d].hand].project = conn'[d].project
  BY DEF HandlersOwn
<1>1. Live' = Live
  BY DEF Live
<1>2. conn'[d].pc = "writing" => Subscribed(d)'
  BY DEF Subscribed
<1> QED
  BY <1>1, <1>2 DEF HandlersOwn

\* The part of CopiesMatch about one stream, and the part about one publisher.
StreamMatches(s) ==
    /\ \A i \in 1 .. Len(buf[s]) : /\ buf[s][i] \in 1 .. Len(log)
                                   /\ log[buf[s][i]].project = stream[s].project
    /\ \A i \in 1 .. Len(sent[s]) : /\ sent[s][i] \in 1 .. Len(log)
                                    /\ log[sent[s][i]].project = stream[s].project
    /\ s >= nextID => buf[s] = << >> /\ sent[s] = << >>

PubMatches(p) ==
    /\ pub[p].pc # "idle" => pub[p].event \in 1 .. Len(log)
    /\ pub[p].pc = "idle" => pub[p].channels = {}
    /\ \A s \in pub[p].channels :
          s < nextID /\ stream[s].project = log[pub[p].event].project

LEMMA CopiesSplit ==
    CopiesMatch <=> /\ \A s \in Streams : StreamMatches(s)
                    /\ \A p \in Publishers : PubMatches(p)
BY DEF CopiesMatch, StreamMatches, PubMatches

\* A step that only moves publishers keeps the part about the streams.
LEMMA PubFrame ==
    ASSUME CopiesMatch, UNCHANGED <<buf, sent, log, stream, nextID>>,
           \A p \in Publishers : PubMatches(p)'
    PROVE  CopiesMatch'
<1>1. \A s \in Streams : StreamMatches(s)'
  BY CopiesSplit DEF StreamMatches
<1> QED
  BY <1>1 DEF CopiesMatch, StreamMatches, PubMatches

LEMMA Bounded ==
    ASSUME IInv, NEW s \in Live
    PROVE  s < nextID /\ s \in Int /\ nextID \in Int
BY DEF IInv, TypeOK, Live

LEMMA LiveStreams ==
    ASSUME TypeOK
    PROVE  Live \subseteq Streams /\ \A s \in Live : s < nextID
BY Constants DEF TypeOK, Live, Streams

\* What a subscribed handler may rely on.
LEMMA Ownership ==
    ASSUME IInv, NEW c \in Conns, Subscribed(c)
    PROVE  /\ conn[c].id \in Live
           /\ conn[c].id \in Streams
           /\ conn[c].id < nextID
           /\ conn[c].project \in Projects
           /\ stream[conn[c].id].project = conn[c].project
           /\ buf[conn[c].id] \in Seq(Events)
           /\ sent[conn[c].id] \in Seq(Events)
           /\ Len(buf[conn[c].id]) <= Cap
<1>1. conn[c].id \in Live /\ stream[conn[c].id].project = conn[c].project
  BY DEF IInv, HandlersOwn
<1>2. conn[c].id \in Streams /\ conn[c].id < nextID
  BY <1>1, LiveStreams DEF IInv
<1> QED
  BY <1>1, <1>2 DEF IInv, TypeOK, HandlerState

-----------------------------------------------------------------------------
(* The SSE handler *)

LEMMA GreetInv ==
    ASSUME IInv, NEW c \in Conns, NEW p \in Projects, Greet(c, p)
    PROVE  IInv'
<1> USE DEF IInv, Greet
<1>1. TypeOK'
  BY IdleTypes DEF TypeOK, IdleConn, HandlerState
<1>2. \A d \in Conns : /\ Subscribed(d)' <=> Subscribed(d)
                       /\ Subscribed(d) => conn'[d] = conn[d]
                       /\ conn'[d].pc = "writing" => conn'[d] = conn[d]
  <2>1. /\ \A d \in Conns \ {c} : conn'[d] = conn[d]
        /\ conn[c].pc = "idle" /\ conn'[c].pc = "greeted"
    BY DEF TypeOK, IdleConn
  <2> QED
    BY <2>1 DEF Subscribed
<1>3. HandlersOwn'
  BY <1>2, HandlersFrame
<1>4. RegistryMatches' /\ OneOwner'
  BY <1>2, RegistryFrame, OwnerFrame
<1>5. CopiesMatch'
  BY DEF CopiesMatch
<1> QED
  BY <1>1, <1>3, <1>4, <1>5

LEMMA RegisterInv ==
    ASSUME IInv, NEW c \in Conns, Register(c)
    PROVE  IInv'
<1> USE DEF IInv, Register, Subscribe
<1> DEFINE p == conn[c].project
<1>1. /\ nextID \in Streams /\ nextID \notin closed /\ nextID' = nextID + 1
      /\ nextID \notin Live /\ Live' = Live \cup {nextID}
      /\ Live \subseteq Streams /\ closed \subseteq 0 .. nextID' - 1
  <2>1. /\ MaxStreams \in Nat /\ nextID \in Nat /\ nextID < MaxStreams
        /\ nextID' = nextID + 1 /\ closed' = closed
        /\ closed \subseteq 0 .. nextID - 1
    BY Constants DEF TypeOK, RegistryMatches
  <2> HIDE DEF IInv, Register, Subscribe
  <2>2. nextID \in Streams /\ nextID \notin closed /\ nextID \notin Live
    BY <2>1 DEF Streams, Live
  <2>3. closed \subseteq 0 .. nextID' - 1 /\ Live \subseteq Streams
    BY <2>1 DEF Streams, Live
  <2>4. Live' = Live \cup {nextID}
    BY <2>1, <2>2 DEF Live
  <2> QED
    BY <2>1, <2>2, <2>3, <2>4
<1>2. /\ \A d \in Conns \ {c} : conn'[d] = conn[d]
      /\ conn'[c].pc = "select" /\ conn'[c].id = nextID
      /\ conn'[c].project = p /\ p \in Projects
      /\ Subscribed(c)' /\ ~Subscribed(c)
  BY <1>1 DEF TypeOK, HandlerState, Subscribed
<1>3. /\ stream'[nextID].project = p
      /\ \A s \in Streams \ {nextID} : stream'[s] = stream[s]
  <2>1. stream \in [Streams -> [project : Projects, since : 0 .. MaxEvents]]
        /\ stream' = [stream EXCEPT ![nextID] = [project |-> p, since |-> Len(log)]]
    BY DEF TypeOK
  <2>2. nextID \in Streams
    BY <1>1
  <2> HIDE DEF IInv, Register, Subscribe
  <2>3. stream'[nextID] = [project |-> p, since |-> Len(log)]
    BY <2>1, <2>2
  <2>4. \A s \in Streams \ {nextID} : stream'[s] = stream[s]
    BY <2>1
  <2> QED
    BY <2>3, <2>4
<1>4. TypeOK'
  <2>1. conn' \in [Conns -> HandlerState]
    <3>1. [conn[c] EXCEPT !.pc = "select", !.id = nextID] \in HandlerState
      <4>1. conn[c] \in HandlerState /\ nextID \in Streams
        BY <1>1 DEF TypeOK
      <4> HIDE DEF IInv, Register, Subscribe
      <4> QED
        BY <4>1 DEF HandlerState
    <3>2. conn' = [conn EXCEPT ![c] =
                      [conn[c] EXCEPT !.pc = "select", !.id = nextID]]
      OBVIOUS
    <3> QED
      BY <3>1, <3>2 DEF TypeOK
  <2>2. stream' \in [Streams -> [project : Projects, since : 0 .. MaxEvents]]
    <3>1. Len(log) \in 0 .. MaxEvents
      BY Constants DEF TypeOK
    <3> QED
      BY <1>1, <1>2, <3>1 DEF TypeOK
  <2>3. /\ nextID' \in 0 .. MaxStreams
        /\ subs' \in [Projects -> SUBSET Streams]
        /\ topics' \subseteq Projects
    BY <1>1, <1>2, Constants DEF TypeOK
  <2> QED
    BY <2>1, <2>2, <2>3 DEF TypeOK
<1>5. HandlersOwn'
  <2> SUFFICES ASSUME NEW d \in Conns
               PROVE  /\ Subscribed(d)' =>
                            /\ conn'[d].id \in Live'
                            /\ stream'[conn'[d].id].project = conn'[d].project
                      /\ conn'[d].pc = "writing" =>
                            /\ conn'[d].hand \in 1 .. Len(log)
                            /\ log[conn'[d].hand].project = conn'[d].project
    BY DEF HandlersOwn
  <2>1. CASE d = c
    BY <2>1, <1>1, <1>2, <1>3
  <2>2. CASE d # c
    <3>1. conn'[d] = conn[d] /\ (Subscribed(d)' <=> Subscribed(d))
      BY <2>2, <1>2 DEF Subscribed
    <3> QED
      BY <3>1, <1>1, <1>3 DEF HandlersOwn
  <2> QED
    BY <2>1, <2>2
<1>6. RegistryMatches'
  <2>1. ASSUME NEW q \in Projects, NEW s \in Streams
        PROVE  s \in subs'[q] <=> s \in Live' /\ stream'[s].project = q
    BY <1>1, <1>2, <1>3 DEF RegistryMatches, TypeOK
  <2>2. ASSUME NEW q \in Projects
        PROVE  q \in topics' <=> subs'[q] # {}
    BY <1>1, <1>2 DEF RegistryMatches, TypeOK
  <2> QED
    BY <2>1, <2>2, <1>1 DEF RegistryMatches
<1>7. OneOwner'
  <2>1. ASSUME NEW s \in Live'
        PROVE  \E d \in Conns : Subscribed(d)' /\ conn'[d].id = s
    <3>1. CASE s = nextID
      BY <3>1, <1>2
    <3>2. CASE s \in Live
      <4>1. PICK d \in Conns : Subscribed(d) /\ conn[d].id = s
        BY <3>2 DEF OneOwner
      <4>2. d # c /\ conn'[d] = conn[d]
        BY <4>1, <1>2
      <4> QED
        BY <4>1, <4>2 DEF Subscribed
    <3> QED
      BY <3>1, <3>2, <1>1
  <2>2. ASSUME NEW d \in Conns, NEW e \in Conns, Subscribed(d)', Subscribed(e)',
               conn'[d].id = conn'[e].id
        PROVE  d = e
    <3>1. \A f \in Conns \ {c} : Subscribed(f)' =>
              Subscribed(f) /\ conn'[f].id = conn[f].id /\ conn[f].id \in Live
      BY <1>2 DEF HandlersOwn, Subscribed
    <3>2. CASE d # c /\ e # c
      BY <2>2, <3>1, <3>2 DEF OneOwner
    <3>3. CASE d = c /\ e # c
      <4>1. conn'[e].id \in Live
        BY <2>2, <3>1, <3>3
      <4> QED
        BY <4>1, <2>2, <3>3, <1>1, <1>2
    <3>4. CASE d # c /\ e = c
      <4>1. conn'[d].id \in Live
        BY <2>2, <3>1, <3>4
      <4> QED
        BY <4>1, <2>2, <3>4, <1>1, <1>2
    <3> QED
      BY <3>2, <3>3, <3>4
  <2> QED
    BY <2>1, <2>2 DEF OneOwner
<1>8. CopiesMatch'
  <2>1. ASSUME NEW s \in Streams PROVE StreamMatches(s)'
    <3>1. CASE s = nextID
      <4>1. buf[s] = << >> /\ sent[s] = << >>
        BY <3>1, <1>1, CopiesSplit DEF StreamMatches, Streams
      <4> QED
        BY <4>1 DEF StreamMatches
    <3>2. CASE s # nextID
      BY <3>2, <1>1, <1>3, CopiesSplit DEF StreamMatches, Streams, TypeOK
    <3> QED
      BY <3>1, <3>2
  <2>2. ASSUME NEW q \in Publishers PROVE PubMatches(q)'
    <3>1. pub[q].channels \subseteq Streams
      BY DEF TypeOK, PublishState
    <3> QED
      BY <3>1, <1>1, <1>3, CopiesSplit DEF PubMatches, Streams, TypeOK
  <2> QED
    BY <2>1, <2>2 DEF CopiesMatch, StreamMatches, PubMatches
<1> QED
  BY <1>4, <1>5, <1>6, <1>7, <1>8

LEMMA ReceiveInv ==
    ASSUME IInv, NEW c \in Conns, Receive(c)
    PROVE  IInv'
<1> USE DEF IInv, Receive
<1> DEFINE s == conn[c].id
<1>1. /\ Subscribed(c) /\ s \in Live /\ s \in Streams
      /\ stream[s].project = conn[c].project
      /\ buf[s] \in Seq(Events) /\ buf[s] # << >> /\ Len(buf[s]) <= Cap
  BY Ownership DEF Subscribed
<1>2. /\ Head(buf[s]) = buf[s][1] /\ Head(buf[s]) \in Events
      /\ Head(buf[s]) \in 1 .. Len(log)
      /\ log[Head(buf[s])].project = stream[s].project
  BY <1>1, CopiesSplit DEF StreamMatches
<1>3. /\ buf'[s] = Tail(buf[s]) /\ Tail(buf[s]) \in Seq(Events)
      /\ Len(buf[s]) \in Nat /\ Len(buf'[s]) = Len(buf[s]) - 1
      /\ \A i \in 1 .. Len(buf'[s]) : buf'[s][i] = buf[s][i + 1]
      /\ \A r \in Streams \ {s} : buf'[r] = buf[r]
  BY <1>1 DEF TypeOK
<1>4. /\ [conn[c] EXCEPT !.pc = "writing", !.hand = Head(buf[s])] \in HandlerState
      /\ conn' = [conn EXCEPT ![c] =
                     [conn[c] EXCEPT !.pc = "writing", !.hand = Head(buf[s])]]
      /\ \A d \in Conns \ {c} : conn'[d] = conn[d]
      /\ conn'[c].pc = "writing" /\ conn'[c].hand = Head(buf[s])
      /\ conn'[c].id = s /\ conn'[c].project = conn[c].project
  BY <1>1, <1>2 DEF TypeOK, HandlerState
<1>5. TypeOK'
  <2>1. conn' \in [Conns -> HandlerState]
    BY <1>4 DEF TypeOK
  <2>2. buf' \in [Streams -> Seq(Events)] /\ \A r \in Streams : Len(buf'[r]) <= Cap
    BY <1>1, <1>3, Constants DEF TypeOK
  <2> QED
    BY <2>1, <2>2 DEF TypeOK
<1>6. \A d \in Conns : (Subscribed(d)' <=> Subscribed(d))
                       /\ conn'[d].id = conn[d].id
                       /\ conn'[d].project = conn[d].project
  BY <1>1, <1>4 DEF Subscribed
<1>7. HandlersOwn'
  <2> SUFFICES ASSUME NEW d \in Conns
               PROVE  /\ Subscribed(d)' =>
                            /\ conn'[d].id \in Live'
                            /\ stream[conn'[d].id].project = conn'[d].project
                      /\ conn'[d].pc = "writing" =>
                            /\ conn'[d].hand \in 1 .. Len(log)
                            /\ log[conn'[d].hand].project = conn'[d].project
    BY DEF HandlersOwn
  <2>1. Live' = Live
    BY DEF Live
  <2>2. conn'[d].pc = "writing" /\ d # c => conn[d] = conn'[d]
    BY <1>4
  <2>3. CASE d = c
    BY <2>1, <2>3, <1>1, <1>2, <1>4
  <2>4. CASE d # c
    <3>1. /\ Subscribed(d) => /\ conn[d].id \in Live
                              /\ stream[conn[d].id].project = conn[d].project
          /\ conn[d].pc = "writing" => /\ conn[d].hand \in 1 .. Len(log)
                                       /\ log[conn[d].hand].project = conn[d].project
      BY DEF HandlersOwn
    <3> HIDE DEF IInv, Receive
    <3> QED
      BY <3>1, <2>1, <2>2, <2>4, <1>6
  <2> QED
    BY <2>3, <2>4
<1>8. RegistryMatches' /\ OneOwner'
  BY <1>6, RegistryFrame, OwnerFrame
<1>9. CopiesMatch'
  <2>1. ASSUME NEW r \in Streams PROVE StreamMatches(r)'
    <3>1. CASE r = s
      <4>1. \A i \in 1 .. Len(buf'[s]) : /\ buf'[s][i] \in 1 .. Len(log)
                                         /\ log[buf'[s][i]].project = stream[s].project
        <5> SUFFICES ASSUME NEW i \in 1 .. Len(buf'[s])
                     PROVE  /\ buf'[s][i] \in 1 .. Len(log)
                            /\ log[buf'[s][i]].project = stream[s].project
          OBVIOUS
        <5>1. i + 1 \in 1 .. Len(buf[s])
          BY <1>3
        <5>2. buf'[s][i] = buf[s][i + 1]
          BY <1>3
        <5> QED
          BY <5>1, <5>2, <1>1, CopiesSplit DEF StreamMatches
      <4>2. StreamMatches(s) /\ sent' = sent /\ log' = log /\ stream' = stream
            /\ nextID' = nextID
        BY <1>1, CopiesSplit
      <4>3. s < nextID /\ s \in Int /\ nextID \in Int
        BY <1>1, Bounded
      <4> HIDE DEF IInv, Receive, s
      <4> QED
        BY <3>1, <4>1, <4>2, <4>3 DEF StreamMatches
    <3>2. CASE r # s
      BY <3>2, <1>3, CopiesSplit DEF StreamMatches
    <3> QED
      BY <3>1, <3>2
  <2> QED
    BY <2>1, CopiesSplit DEF CopiesMatch, StreamMatches
<1> QED
  BY <1>5, <1>7, <1>8, <1>9

LEMMA WriteFrameInv ==
    ASSUME IInv, NEW c \in Conns, WriteFrame(c)
    PROVE  IInv'
<1> USE DEF IInv, WriteFrame
<1> DEFINE s == conn[c].id
           e == conn[c].hand
<1>1. /\ Subscribed(c) /\ s \in Live /\ s \in Streams /\ s < nextID
      /\ stream[s].project = conn[c].project
      /\ e \in 1 .. Len(log) /\ log[e].project = conn[c].project
      /\ e \in Events /\ sent[s] \in Seq(Events)
  <2>1. Subscribed(c) /\ e \in 1 .. Len(log) /\ log[e].project = conn[c].project
    BY DEF HandlersOwn, Subscribed
  <2>2. e \in Events
    BY <2>1, Constants DEF TypeOK, Events
  <2> QED
    BY <2>1, <2>2, Ownership
<1>2. /\ sent'[s] = Append(sent[s], e)
      /\ \A r \in Streams \ {s} : sent'[r] = sent[r]
      /\ sent' \in [Streams -> Seq(Events)]
  <2>1. sent \in [Streams -> Seq(Events)]
        /\ sent' = [sent EXCEPT ![s] = Append(@, e)]
    BY DEF TypeOK
  <2> HIDE DEF IInv, WriteFrame, s, e
  <2>2. Append(sent[s], e) \in Seq(Events)
    BY <1>1
  <2> QED
    BY <2>1, <2>2, <1>1
<1>3. /\ [conn[c] EXCEPT !.pc = "select", !.hand = NoEvent] \in HandlerState
      /\ conn' = [conn EXCEPT ![c] = [conn[c] EXCEPT !.pc = "select",
                                                     !.hand = NoEvent]]
      /\ \A d \in Conns \ {c} : conn'[d] = conn[d]
      /\ conn'[c].pc = "select" /\ conn'[c].id = s
      /\ conn'[c].project = conn[c].project
  <2>1. conn \in [Conns -> HandlerState]
        /\ conn' = [conn EXCEPT ![c].pc = "select", ![c].hand = NoEvent]
    BY DEF TypeOK
  <2> HIDE DEF IInv, WriteFrame
  <2> QED
    BY <2>1 DEF HandlerState
<1>4. TypeOK'
  <2>1. conn' \in [Conns -> HandlerState]
    BY <1>3 DEF TypeOK
  <2> QED
    BY <1>2, <2>1 DEF TypeOK
<1>5. \A d \in Conns : /\ (Subscribed(d)' <=> Subscribed(d))
                       /\ conn'[d].id = conn[d].id
                       /\ conn'[d].project = conn[d].project
                       /\ conn'[d].pc = "writing" => conn'[d] = conn[d]
  BY <1>1, <1>3 DEF Subscribed
<1>6. HandlersOwn'
  BY <1>5, HandlersFrame
<1>7. RegistryMatches' /\ OneOwner'
  BY <1>5, RegistryFrame, OwnerFrame
<1>8. CopiesMatch'
  <2>1. ASSUME NEW r \in Streams PROVE StreamMatches(r)'
    <3>1. CASE r = s
      <4>1. \A i \in 1 .. Len(sent'[s]) : /\ sent'[s][i] \in 1 .. Len(log)
                                          /\ log[sent'[s][i]].project = stream[s].project
        <5>1. StreamMatches(s)
          BY <1>1, CopiesSplit
        <5> HIDE DEF IInv, WriteFrame, s, e
        <5>2. /\ Len(sent'[s]) = Len(sent[s]) + 1 /\ Len(sent[s]) \in Nat
              /\ sent'[s][Len(sent[s]) + 1] = e
              /\ \A i \in 1 .. Len(sent[s]) : sent'[s][i] = sent[s][i]
          BY <1>1, <1>2
        <5>3. \A i \in 1 .. Len(sent'[s]) :
                  i \in 1 .. Len(sent[s]) \/ i = Len(sent[s]) + 1
          BY <5>2
        <5>4. \A i \in 1 .. Len(sent[s]) :
                  sent[s][i] \in 1 .. Len(log)
                  /\ log[sent[s][i]].project = stream[s].project
          BY <5>1 DEF StreamMatches
        <5> QED
          BY <5>2, <5>3, <5>4, <1>1
      <4>2. StreamMatches(s) /\ buf' = buf /\ log' = log /\ stream' = stream
            /\ nextID' = nextID
        BY <1>1, CopiesSplit
      <4>3. s < nextID /\ s \in Int /\ nextID \in Int
        BY <1>1, Bounded
      <4> HIDE DEF IInv, WriteFrame, s, e
      <4> QED
        BY <3>1, <4>1, <4>2, <4>3 DEF StreamMatches
    <3>2. CASE r # s
      <4>1. StreamMatches(r) /\ UNCHANGED <<buf, log, stream, nextID>>
            /\ sent'[r] = sent[r]
        BY <3>2, <1>2, CopiesSplit
      <4> HIDE DEF IInv, WriteFrame
      <4> QED
        BY <4>1 DEF StreamMatches
    <3> QED
      BY <3>1, <3>2
  <2> QED
    BY <2>1, CopiesSplit DEF CopiesMatch, StreamMatches
<1> QED
  BY <1>4, <1>6, <1>7, <1>8

LEMMA DisconnectInv ==
    ASSUME IInv, NEW c \in Conns, Disconnect(c)
    PROVE  IInv'
<1> USE DEF IInv, Disconnect
<1>1. /\ [conn[c] EXCEPT !.gone = TRUE] \in HandlerState
      /\ conn' = [conn EXCEPT ![c] = [conn[c] EXCEPT !.gone = TRUE]]
  BY DEF TypeOK, HandlerState
<1>2. TypeOK'
  BY <1>1 DEF TypeOK
<1>3. \A d \in Conns : /\ Subscribed(d)' <=> Subscribed(d)
                       /\ conn'[d].id = conn[d].id
                       /\ conn'[d].project = conn[d].project
                       /\ conn'[d].pc = conn[d].pc
                       /\ conn'[d].hand = conn[d].hand
  BY <1>1 DEF Subscribed, TypeOK, HandlerState
<1>4. HandlersOwn'
  BY <1>3, HandlersFrame
<1>5. RegistryMatches' /\ OneOwner'
  BY <1>3, RegistryFrame, OwnerFrame
<1>6. CopiesMatch'
  BY DEF CopiesMatch
<1> QED
  BY <1>2, <1>4, <1>5, <1>6

\* Closing is the delicate step: the stream leaves the registry and the set of
\* live streams at once, and its handler gives it up in the same step.
LEMMA ReturnInv ==
    ASSUME IInv, NEW c \in Conns, Return(c)
    PROVE  IInv'
<1> USE DEF IInv, Return, Unsubscribe
<1> DEFINE s == conn[c].id
           p == conn[c].project
<1>1. /\ Subscribed(c) /\ s \in Live /\ s \in Streams
      /\ stream[s].project = p /\ p \in Projects
  BY Ownership DEF Subscribed
<1>2. s \in subs[p] /\ p \in topics /\ closed' = closed \cup {s}
  BY <1>1 DEF RegistryMatches
<1>3. Live' = Live \ {s}
  BY <1>2 DEF Live
<1>4. /\ conn'[c] = IdleConn /\ ~Subscribed(c)' /\ conn'[c].pc # "writing"
      /\ \A d \in Conns \ {c} : conn'[d] = conn[d]
  BY DEF TypeOK, Subscribed, IdleConn
<1>5. TypeOK'
  <2>1. subs' \in [Projects -> SUBSET Streams] /\ topics' \subseteq Projects
    BY <1>1 DEF TypeOK
  <2>2. closed' \subseteq Streams
    BY <1>1, <1>2 DEF TypeOK
  <2>3. conn' \in [Conns -> HandlerState]
    BY IdleTypes DEF TypeOK
  <2> QED
    BY <2>1, <2>2, <2>3 DEF TypeOK
<1>6. HandlersOwn'
  <2> SUFFICES ASSUME NEW d \in Conns
               PROVE  /\ Subscribed(d)' =>
                            /\ conn'[d].id \in Live'
                            /\ stream[conn'[d].id].project = conn'[d].project
                      /\ conn'[d].pc = "writing" =>
                            /\ conn'[d].hand \in 1 .. Len(log)
                            /\ log[conn'[d].hand].project = conn'[d].project
    BY DEF HandlersOwn
  <2>1. CASE d = c
    BY <2>1, <1>4
  <2>2. CASE d # c
    <3>1. conn'[d] = conn[d] /\ (Subscribed(d)' <=> Subscribed(d))
      BY <2>2, <1>4 DEF Subscribed
    <3>2. Subscribed(d) => conn[d].id # s
      BY <2>2, <1>1 DEF OneOwner
    <3> QED
      BY <3>1, <3>2, <1>3 DEF HandlersOwn
  <2> QED
    BY <2>1, <2>2
<1>7. RegistryMatches'
  <2>1. closed' \subseteq 0 .. nextID - 1
    BY <1>1, <1>2 DEF RegistryMatches, Live
  <2>2. ASSUME NEW q \in Projects, NEW r \in Streams
        PROVE  r \in subs'[q] <=> r \in Live' /\ stream[r].project = q
    BY <1>1, <1>3 DEF RegistryMatches, TypeOK
  <2>3. ASSUME NEW q \in Projects
        PROVE  q \in topics' <=> subs'[q] # {}
    BY <1>1, <1>2 DEF RegistryMatches, TypeOK
  <2> QED
    BY <2>1, <2>2, <2>3 DEF RegistryMatches
<1>8. OneOwner'
  <2>1. ASSUME NEW r \in Live'
        PROVE  \E d \in Conns : Subscribed(d)' /\ conn'[d].id = r
    <3>1. PICK d \in Conns : Subscribed(d) /\ conn[d].id = r
      BY <1>3 DEF OneOwner
    <3>2. d # c /\ conn'[d] = conn[d]
      BY <3>1, <1>3, <1>4
    <3> QED
      BY <3>1, <3>2 DEF Subscribed
  <2>2. ASSUME NEW d \in Conns, NEW e \in Conns, Subscribed(d)', Subscribed(e)',
               conn'[d].id = conn'[e].id
        PROVE  d = e
    <3>1. d # c /\ e # c
      BY <2>2, <1>4
    <3>2. conn'[d] = conn[d] /\ conn'[e] = conn[e] /\ Subscribed(d) /\ Subscribed(e)
      BY <2>2, <3>1, <1>4 DEF Subscribed
    <3> QED
      BY <2>2, <3>2 DEF OneOwner
  <2> QED
    BY <2>1, <2>2 DEF OneOwner
<1>9. CopiesMatch'
  BY DEF CopiesMatch
<1> QED
  BY <1>5, <1>6, <1>7, <1>8, <1>9

-----------------------------------------------------------------------------
(* Publish *)

\* The steps of a publisher leave the handlers and the registry alone.
LEMMA PublisherFrame ==
    ASSUME IInv, UNCHANGED <<nextID, subs, topics, closed, conn, stream, log>>
    PROVE  HandlersOwn' /\ RegistryMatches' /\ OneOwner'
<1>1. RegistryMatches'
  BY RegistryFrame DEF IInv
<1>2. OneOwner'
  BY OwnerFrame DEF IInv, Subscribed
<1>3. HandlersOwn'
  BY HandlersFrame DEF IInv, Subscribed
<1> QED
  BY <1>1, <1>2, <1>3

LEMMA StampInv ==
    ASSUME IInv, NEW p \in Publishers, NEW project \in Projects,
           Stamp(p, project)
    PROVE  IInv'
<1> USE DEF IInv, Stamp
<1> DEFINE n == Len(log) + 1
           entry == [project |-> project, overlaps |-> InFlight]
<1>1. n \in Events /\ Len(log) \in Nat
  BY Constants DEF TypeOK, Events
<1>2. InFlight \subseteq Events
  <2>1. \A q \in Publishers : pub[q].pc # "idle" => pub[q].event \in Events
    BY Constants, CopiesSplit DEF PubMatches, TypeOK, Events
  <2> QED
    BY <2>1 DEF InFlight
<1>9. entry \in LogEntry
  BY <1>2 DEF LogEntry
<1>3. /\ log' = Append(log, entry)
      /\ log' \in Seq(LogEntry)
      /\ Len(log') = n
      /\ \A i \in 1 .. Len(log) : i \in 1 .. Len(log') /\ log'[i] = log[i]
  BY <1>1, <1>9 DEF TypeOK
<1>4. /\ [pc |-> "stamped", event |-> n, channels |-> {}] \in PublishState
      /\ \A q \in Publishers \ {p} : pub'[q] = pub[q]
      /\ pub'[p] = [pc |-> "stamped", event |-> n, channels |-> {}]
      /\ pub' \in [Publishers -> PublishState]
  BY <1>1 DEF TypeOK, PublishState
<1>5. TypeOK'
  BY <1>1, <1>3, <1>4, Constants DEF TypeOK
<1>6. RegistryMatches' /\ OneOwner'
  BY RegistryFrame, OwnerFrame DEF Subscribed
<1>7. HandlersOwn'
  <2>1. \A d \in Conns : Subscribed(d)' <=> Subscribed(d)
    BY DEF Subscribed
  <2>2. Live' = Live
    BY DEF Live
  <2> QED
    BY <2>1, <2>2, <1>3 DEF HandlersOwn
<1>8. CopiesMatch'
  <2>1. ASSUME NEW s \in Streams PROVE StreamMatches(s)'
    BY <1>3, CopiesSplit DEF StreamMatches
  <2>2. ASSUME NEW q \in Publishers PROVE PubMatches(q)'
    <3>1. CASE q = p
      BY <3>1, <1>1, <1>3, <1>4 DEF PubMatches
    <3>2. CASE q # p
      BY <3>2, <1>3, <1>4, CopiesSplit DEF PubMatches
    <3> QED
      BY <3>1, <3>2
  <2> QED
    BY <2>1, <2>2 DEF CopiesMatch, StreamMatches, PubMatches
<1> QED
  BY <1>5, <1>6, <1>7, <1>8

\* What a publisher that is in the middle of a call may rely on.
LEMMA Publishing ==
    ASSUME IInv, NEW p \in Publishers, pub[p].pc # "idle"
    PROVE  /\ pub[p] \in PublishState
           /\ pub[p].event \in Events
           /\ pub[p].event \in 1 .. Len(log)
           /\ log[pub[p].event].project \in Projects
           /\ pub[p].channels \subseteq Streams
<1>1. pub[p] \in PublishState /\ pub[p].channels \subseteq Streams
  BY DEF IInv, TypeOK, PublishState
<1>2. pub[p].event \in 1 .. Len(log)
  BY CopiesSplit DEF IInv, PubMatches
<1>3. /\ Len(log) \in Nat /\ Len(log) <= MaxEvents
      /\ log \in Seq(LogEntry)
  BY DEF IInv, TypeOK
<1>4. pub[p].event \in Events
  BY <1>2, <1>3, Constants DEF Events
<1>5. log[pub[p].event].project \in Projects
  <2>1. log[pub[p].event] \in LogEntry
    BY <1>2, <1>3
  <2> QED
    BY <2>1 DEF LogEntry
<1> QED
  BY <1>1, <1>2, <1>4, <1>5

LEMMA SnapshotInv ==
    ASSUME IInv, NEW p \in Publishers, Snapshot(p)
    PROVE  IInv'
<1> USE DEF IInv, Snapshot, ChannelsOf
<1> DEFINE e == pub[p].event
           project == log[e].project
<1>1. e \in 1 .. Len(log) /\ project \in Projects /\ pub[p] \in PublishState
  BY Publishing
<1>2. \A s \in subs[project] : /\ s \in Streams /\ s < nextID
                               /\ stream[s].project = project
  <2>1. subs[project] \subseteq Streams
    BY <1>1 DEF TypeOK
  <2> QED
    BY <2>1, <1>1, LiveStreams DEF RegistryMatches
<1>3. /\ [pub[p] EXCEPT !.pc = "sending", !.channels = subs[project]]
            \in PublishState
      /\ pub' = [pub EXCEPT ![p] = [pub[p] EXCEPT !.pc = "sending",
                                                  !.channels = subs[project]]]
      /\ \A q \in Publishers \ {p} : pub'[q] = pub[q]
      /\ pub'[p].event = e /\ pub'[p].channels = subs[project]
      /\ pub'[p].pc = "sending"
  <2>1. /\ pub \in [Publishers -> PublishState] /\ subs[project] \in SUBSET Streams
        /\ pub' = [pub EXCEPT ![p].pc = "sending", ![p].channels = subs[project]]
    BY <1>1 DEF TypeOK
  <2> HIDE DEF IInv, Snapshot
  <2> QED
    BY <2>1 DEF PublishState
<1>4. TypeOK'
  BY <1>3 DEF TypeOK
<1>5. HandlersOwn' /\ RegistryMatches' /\ OneOwner'
  BY PublisherFrame
<1>6. CopiesMatch'
  <2>1. ASSUME NEW q \in Publishers PROVE PubMatches(q)'
    <3>1. CASE q = p
      <4>1. \A s \in pub'[p].channels :
                s < nextID' /\ stream'[s].project = log'[pub'[p].event].project
        BY <1>2, <1>3
      <4>2. pub'[p].pc # "idle" /\ pub'[p].event \in 1 .. Len(log')
        BY <1>1, <1>3
      <4> QED
        BY <3>1, <4>1, <4>2 DEF PubMatches
    <3>2. CASE q # p
      <4>1. PubMatches(q) /\ pub'[q] = pub[q]
        BY <3>2, <1>3, CopiesSplit
      <4> QED
        BY <4>1 DEF PubMatches
    <3> QED
      BY <3>1, <3>2
  <2>2. CopiesMatch /\ UNCHANGED <<buf, sent, log, stream, nextID>>
    OBVIOUS
  <2> HIDE DEF IInv, Snapshot, ChannelsOf
  <2> QED
    BY <2>1, <2>2, PubFrame
<1> QED
  BY <1>4, <1>5, <1>6

LEMMA SendInv ==
    ASSUME IInv, NEW p \in Publishers, NEW s \in Streams, Send(p, s)
    PROVE  IInv'
<1> USE DEF IInv, Send
<1> DEFINE e == pub[p].event
<1>1. /\ e \in 1 .. Len(log) /\ e \in Events /\ pub[p] \in PublishState
      /\ s < nextID /\ log[e].project = stream[s].project
  BY Publishing, CopiesSplit DEF PubMatches
<1>2. /\ [pub[p] EXCEPT !.channels = @ \ {s}] \in PublishState
      /\ pub' = [pub EXCEPT ![p] = [pub[p] EXCEPT !.channels = @ \ {s}]]
      /\ \A q \in Publishers \ {p} : pub'[q] = pub[q]
      /\ pub'[p].event = e /\ pub'[p].channels = pub[p].channels \ {s}
      /\ pub'[p].pc = "sending"
  BY <1>1 DEF TypeOK, PublishState
<1>3. /\ \A r \in Streams \ {s} : buf'[r] = buf[r]
      /\ \/ buf'[s] = buf[s]
         \/ buf'[s] = Append(buf[s], e) /\ Len(buf[s]) < Cap
      /\ buf' \in [Streams -> Seq(Events)]
      /\ lost' \in [Streams -> SUBSET Events]
  <2>1. CASE Len(buf[s]) < Cap
    <3>1. buf' = [buf EXCEPT ![s] = Append(@, e)] /\ lost' = lost
      BY <2>1 DEF Offer, Buffer
    <3>2. Append(buf[s], e) \in Seq(Events)
      BY <1>1 DEF TypeOK
    <3> QED
      BY <2>1, <3>1, <3>2 DEF TypeOK
  <2>2. CASE ~(Len(buf[s]) < Cap)
    <3>1. lost' = [lost EXCEPT ![s] = @ \cup {e}] /\ buf' = buf
      BY <2>2 DEF Offer, Drop
    <3> QED
      BY <3>1, <1>1 DEF TypeOK
  <2> QED
    BY <2>1, <2>2
<1>4. TypeOK'
  <2>1. pub' \in [Publishers -> PublishState]
    BY <1>2 DEF TypeOK
  <2>2. \A r \in Streams : Len(buf'[r]) <= Cap
    <3>1. buf[s] \in Seq(Events) /\ Len(buf[s]) <= Cap
      BY DEF TypeOK
    <3>2. Len(buf'[s]) <= Cap
      BY <1>1, <1>3, <3>1, Constants
    <3> QED
      BY <1>3, <3>2 DEF TypeOK
  <2> QED
    BY <2>1, <2>2, <1>3 DEF TypeOK
<1>5. HandlersOwn' /\ RegistryMatches' /\ OneOwner'
  BY PublisherFrame
<1>6. CopiesMatch'
  <2>1. ASSUME NEW r \in Streams PROVE StreamMatches(r)'
    <3>1. CASE r = s
      <4>1. ~(s >= nextID) /\ buf[s] \in Seq(Events)
        BY <1>1 DEF TypeOK, Streams
      <4>2. \A i \in 1 .. Len(buf'[s]) : /\ buf'[s][i] \in 1 .. Len(log)
                                         /\ log[buf'[s][i]].project = stream[s].project
        <5>1. \A i \in 1 .. Len(buf[s]) : /\ buf[s][i] \in 1 .. Len(log)
                                         /\ log[buf[s][i]].project = stream[s].project
          BY CopiesSplit DEF StreamMatches
        <5>2. CASE buf'[s] = buf[s]
          BY <5>1, <5>2
        <5>3. CASE buf'[s] = Append(buf[s], e)
          <6>1. /\ Len(buf'[s]) = Len(buf[s]) + 1 /\ buf'[s][Len(buf[s]) + 1] = e
                /\ \A i \in 1 .. Len(buf[s]) : buf'[s][i] = buf[s][i]
            BY <4>1, <5>3, <1>1
          <6>2. \A i \in 1 .. Len(buf'[s]) : i \in 1 .. Len(buf[s]) \/ i = Len(buf[s]) + 1
            BY <4>1, <6>1
          <6> HIDE DEF e
          <6> QED
            BY <5>1, <6>1, <6>2, <1>1
        <5> QED
          BY <1>3, <5>2, <5>3
      <4> QED
        BY <3>1, <4>1, <4>2, CopiesSplit DEF StreamMatches
    <3>2. CASE r # s
      BY <3>2, <1>3, CopiesSplit DEF StreamMatches
    <3> QED
      BY <3>1, <3>2
  <2>2. ASSUME NEW q \in Publishers PROVE PubMatches(q)'
    <3>1. CASE q = p
      BY <3>1, <1>1, <1>2, CopiesSplit DEF PubMatches
    <3>2. CASE q # p
      BY <3>2, <1>2, CopiesSplit DEF PubMatches
    <3> QED
      BY <3>1, <3>2
  <2> QED
    BY <2>1, <2>2 DEF CopiesMatch, StreamMatches, PubMatches
<1> QED
  BY <1>4, <1>5, <1>6

LEMMA SendPanicsInv ==
    ASSUME IInv, NEW p \in Publishers, NEW s \in Streams, SendPanics(p, s)
    PROVE  IInv'
<1> USE DEF IInv, SendPanics
<1>1. pub[p].event \in 1 .. Len(log) /\ pub[p].event \in Events
      /\ pub[p] \in PublishState
  BY Publishing
<1>2. /\ [pub[p] EXCEPT !.pc = "panicked", !.channels = {}] \in PublishState
      /\ pub' = [pub EXCEPT ![p] = [pub[p] EXCEPT !.pc = "panicked",
                                                  !.channels = {}]]
      /\ \A q \in Publishers \ {p} : pub'[q] = pub[q]
      /\ pub'[p].event = pub[p].event /\ pub'[p].channels = {}
      /\ pub'[p].pc = "panicked"
  BY <1>1 DEF TypeOK, PublishState
<1>3. TypeOK'
  BY <1>1, <1>2 DEF TypeOK
<1>4. HandlersOwn' /\ RegistryMatches' /\ OneOwner'
  BY PublisherFrame
<1>5. CopiesMatch'
  <2>1. ASSUME NEW q \in Publishers PROVE PubMatches(q)'
    <3>1. CASE q = p
      BY <3>1, <1>1, <1>2 DEF PubMatches
    <3>2. CASE q # p
      <4>1. PubMatches(q) /\ pub'[q] = pub[q]
        BY <3>2, <1>2, CopiesSplit
      <4> QED
        BY <4>1 DEF PubMatches
    <3> QED
      BY <3>1, <3>2
  <2>2. CopiesMatch /\ UNCHANGED <<buf, sent, log, stream, nextID>>
    OBVIOUS
  <2> HIDE DEF IInv, SendPanics
  <2> QED
    BY <2>1, <2>2, PubFrame
<1> QED
  BY <1>3, <1>4, <1>5

\* Published and Recovered both put the publisher back to rest.
LEMMA RestInv ==
    ASSUME IInv, NEW p \in Publishers, Published(p) \/ Recovered(p)
    PROVE  IInv'
<1>1. /\ pub' = [pub EXCEPT ![p] = IdlePub]
      /\ UNCHANGED <<nextID, subs, topics, buf, closed, conn, log, stream, sent,
                     lost, torn>>
  BY DEF Published, Recovered
<1> USE <1>1 DEF IInv
<1>2. TypeOK'
  BY IdleTypes DEF TypeOK
<1>3. HandlersOwn' /\ RegistryMatches' /\ OneOwner'
  BY PublisherFrame
<1>4. CopiesMatch'
  <2>1. ASSUME NEW q \in Publishers PROVE PubMatches(q)'
    BY CopiesSplit DEF PubMatches, TypeOK, IdlePub
  <2> QED
    BY <2>1, PubFrame
<1> QED
  BY <1>2, <1>3, <1>4

LEMMA StutterInv ==
    ASSUME IInv, UNCHANGED vars
    PROVE  IInv'
<1>1. TypeOK'
  BY DEF IInv, vars, TypeOK
<1>2. HandlersOwn' /\ RegistryMatches' /\ OneOwner'
  BY PublisherFrame DEF vars
<1>3. CopiesMatch'
  BY DEF IInv, vars, CopiesMatch
<1> QED
  BY <1>1, <1>2, <1>3 DEF IInv

-----------------------------------------------------------------------------
(* The theorems *)

\* Every element of a concatenation is an element of one of its parts.
LEMMA ConcatElements ==
    ASSUME NEW S, NEW a \in Seq(S), NEW b \in Seq(S)
    PROVE  \A i \in 1 .. Len(a \o b) :
              \/ \E j \in 1 .. Len(a) : (a \o b)[i] = a[j]
              \/ \E j \in 1 .. Len(b) : (a \o b)[i] = b[j]
<1> SUFFICES ASSUME NEW i \in 1 .. Len(a \o b)
             PROVE  \/ \E j \in 1 .. Len(a) : (a \o b)[i] = a[j]
                    \/ \E j \in 1 .. Len(b) : (a \o b)[i] = b[j]
  OBVIOUS
<1>1. Len(a) \in Nat /\ Len(b) \in Nat /\ Len(a \o b) = Len(a) + Len(b)
  OBVIOUS
<1>2. CASE i \in 1 .. Len(a)
  BY <1>2
<1>3. CASE i \notin 1 .. Len(a)
  <2>1. i - Len(a) \in 1 .. Len(b)
    BY <1>1, <1>3
  <2>2. (a \o b)[i] = b[i - Len(a)]
    BY <1>1, <1>3
  <2> QED
    BY <2>1, <2>2
<1> QED
  BY <1>2, <1>3

LEMMA StepInv == IInv /\ [Next]_vars => IInv'
<1> SUFFICES ASSUME IInv, [Next]_vars PROVE IInv'
  OBVIOUS
<1>1. ASSUME NEW c \in Conns,
             HandlerNext(c) \/ Disconnect(c) \/ \E p \in Projects : Greet(c, p)
      PROVE  IInv'
  BY <1>1, GreetInv, RegisterInv, ReceiveInv, WriteFrameInv, DisconnectInv,
     ReturnInv DEF HandlerNext
<1>2. ASSUME NEW p \in Publishers,
             PublishNext(p) \/ \E project \in Projects : Stamp(p, project)
      PROVE  IInv'
  BY <1>2, StampInv, SnapshotInv, SendInv, SendPanicsInv, RestInv
     DEF PublishNext
<1>3. CASE UNCHANGED vars
  BY <1>3, StutterInv
<1> QED
  BY <1>1, <1>2, <1>3 DEF Next

\* The inductive invariant holds in every reachable state of the bus.
THEOREM InductiveInvariant == Spec => []IInv
BY InitInv, StepInv, PTL DEF Spec

\* Type correctness: in particular no channel ever holds more than Cap events.
THEOREM TypeCorrect == Spec => []TypeOK
<1>1. IInv => TypeOK
  BY DEF IInv
<1> QED
  BY <1>1, InductiveInvariant, PTL

\* The registry and the channels never disagree, so no channel is closed twice
\* and none stays registered after it is closed (bus.go Subscribe and its
\* closure).
THEOREM RegistryCorrect == Spec => []RegistryExact
<1>1. IInv => RegistryExact
  BY DEF IInv, RegistryExact
<1> QED
  BY <1>1, InductiveInvariant, PTL

\* No client is ever shown an event of another project (bus.go Publish).
THEOREM ProjectsIsolated == Spec => []ProjectIsolation
<1>1. IInv => ProjectIsolation
  <2> SUFFICES ASSUME IInv, NEW s \in Streams, NEW i \in 1 .. Len(Delivered(s))
               PROVE  log[Delivered(s)[i]].project = stream[s].project
    BY DEF ProjectIsolation
  <2>1. /\ sent[s] \in Seq(Events) /\ buf[s] \in Seq(Events)
        /\ StreamMatches(s)
    BY CopiesSplit DEF IInv, TypeOK
  <2>2. /\ InHand(s) \in Seq(Events)
        /\ \A j \in 1 .. Len(InHand(s)) :
              log[InHand(s)[j]].project = stream[s].project
    <3> DEFINE C == {c \in Conns : conn[c].pc = "writing" /\ conn[c].id = s}
               d == CHOOSE c \in C : TRUE
    <3>1. CASE C = {}
      <4>1. InHand(s) = << >>
        BY <3>1 DEF InHand
      <4> HIDE DEF C, d
      <4> QED
        BY <4>1
    <3>2. CASE C # {}
      <4>1. d \in C
        BY <3>2
      <4>2. Subscribed(d) /\ conn[d].id = s /\ d \in Conns
            /\ conn[d].pc = "writing"
        BY <4>1 DEF Subscribed
      <4>3. /\ conn[d].hand \in 1 .. Len(log)
            /\ log[conn[d].hand].project = stream[s].project
        BY <4>2 DEF IInv, HandlersOwn
      <4>4. conn[d].hand \in Events
        <5> HIDE DEF C, d
        <5>1. Len(log) \in Nat /\ Len(log) <= MaxEvents /\ MaxEvents \in Nat
          BY Constants DEF IInv, TypeOK
        <5> QED
          BY <5>1, <4>3 DEF Events
      <4>5. InHand(s) = <<conn[d].hand>>
        BY <3>2 DEF InHand
      <4> HIDE DEF C, d
      <4>6. /\ Len(InHand(s)) = 1 /\ InHand(s)[1] = conn[d].hand
            /\ InHand(s) \in Seq(Events)
        BY <4>4, <4>5
      <4>7. \A j \in 1 .. Len(InHand(s)) : j = 1
        BY <4>6
      <4> QED
        BY <4>3, <4>6, <4>7
    <3> QED
      BY <3>1, <3>2
  <2>3. /\ sent[s] \o InHand(s) \in Seq(Events)
        /\ Delivered(s) = (sent[s] \o InHand(s)) \o buf[s]
    BY <2>1, <2>2, SMTT(30) DEF Delivered
  <2>4. CASE \E j \in 1 .. Len(buf[s]) : Delivered(s)[i] = buf[s][j]
    BY <2>1, <2>4 DEF StreamMatches
  <2>5. CASE \E k \in 1 .. Len(sent[s] \o InHand(s)) :
                Delivered(s)[i] = (sent[s] \o InHand(s))[k]
    <3>1. PICK k \in 1 .. Len(sent[s] \o InHand(s)) :
                 Delivered(s)[i] = (sent[s] \o InHand(s))[k]
      BY <2>5
    <3>2. CASE \E j \in 1 .. Len(sent[s]) :
                  (sent[s] \o InHand(s))[k] = sent[s][j]
      BY <2>1, <3>1, <3>2, SMTT(30) DEF StreamMatches
    <3>3. CASE \E j \in 1 .. Len(InHand(s)) :
                  (sent[s] \o InHand(s))[k] = InHand(s)[j]
      BY <2>2, <3>1, <3>3
    <3> QED
      BY <2>1, <2>2, <3>1, <3>2, <3>3, ConcatElements
  <2>6. \/ \E k \in 1 .. Len(sent[s] \o InHand(s)) :
              ((sent[s] \o InHand(s)) \o buf[s])[i] = (sent[s] \o InHand(s))[k]
        \/ \E j \in 1 .. Len(buf[s]) :
              ((sent[s] \o InHand(s)) \o buf[s])[i] = buf[s][j]
    <3> DEFINE a == sent[s] \o InHand(s)
               b == buf[s]
    <3>1. a \in Seq(Events) /\ b \in Seq(Events) /\ i \in 1 .. Len(a \o b)
      BY <2>1, <2>3
    <3> HIDE DEF a, b
    <3>2. \A l \in 1 .. Len(a \o b) :
             \/ \E k \in 1 .. Len(a) : (a \o b)[l] = a[k]
             \/ \E j \in 1 .. Len(b) : (a \o b)[l] = b[j]
      BY <3>1, ConcatElements
    <3> QED
      BY <3>1, <3>2 DEF a, b
  <2> QED
    BY <2>3, <2>4, <2>5, <2>6
<1> QED
  BY <1>1, InductiveInvariant, PTL
-----------------------------------------------------------------------------
(* The refinement.  The event bus implements the abstract broadcast, and so *)
(* keeps what every broadcast promises.  Beyond IInv the argument needs to  *)
(* know where a Publish call stands: a stream it has still to send to has   *)
(* not had its event, and once it has its copy of the channels, every       *)
(* stream that was there before it is in the copy or has had the event.     *)

Active(p) == pub[p].pc \in {"stamped", "sending"}

\* e was handed to s or dropped for it.
Had(s, e) == \/ e \in lost[s]
             \/ \E i \in 1 .. Len(Delivered(s)) : Delivered(s)[i] = e

DistinctEvents ==
    \A p, q \in Publishers :
        Active(p) /\ Active(q) /\ pub[p].event = pub[q].event => p = q

Untouched ==
    \A p \in Publishers, s \in Streams :
        \/ pub[p].pc = "stamped"
        \/ pub[p].pc = "sending" /\ s \in pub[p].channels
        => ~Had(s, pub[p].event)

Covered ==
    \A p \in Publishers : pub[p].pc = "sending" =>
        \A s \in Live :
            /\ stream[s].project = log[pub[p].event].project
            /\ stream[s].since < pub[p].event
            => s \in pub[p].channels \/ Had(s, pub[p].event)

Logged ==
    \A s \in Streams : \A e \in Events : Had(s, e) => e <= Len(log)

RInv == IInv /\ DistinctEvents /\ Untouched /\ Covered /\ Logged

-----------------------------------------------------------------------------
(* What a stream has been given                                            *)

LEMMA InHandOne ==
    ASSUME OneOwner, NEW c \in Conns, conn[c].pc = "writing"
    PROVE  InHand(conn[c].id) = << conn[c].hand >>
<1> DEFINE C == {d \in Conns : conn[d].pc = "writing" /\ conn[d].id = conn[c].id}
<1>1. C = {c}
  BY DEF OneOwner, Subscribed
<1>2. (CHOOSE d \in C : TRUE) = c
  BY <1>1
<1> QED
  BY <1>1, <1>2 DEF InHand

LEMMA InHandNone ==
    ASSUME NEW s, \A c \in Conns : ~(conn[c].pc = "writing" /\ conn[c].id = s)
    PROVE  InHand(s) = << >>
BY DEF InHand

\* The same of the state after a step.
LEMMA InHandNext ==
    ASSUME NEW s, NEW c \in Conns,
           \A d \in Conns : conn'[d].pc = "writing" /\ conn'[d].id = s <=> d = c
    PROVE  InHand(s)' = << conn'[c].hand >>
<1>1. {d \in Conns : conn'[d].pc = "writing" /\ conn'[d].id = s} = {c}
  OBVIOUS
<1>2. (CHOOSE e \in {d \in Conns : conn'[d].pc = "writing" /\ conn'[d].id = s} : TRUE) = c
  BY <1>1
<1> QED
  BY <1>1, <1>2 DEF InHand

LEMMA InHandFrame ==
    ASSUME OneOwner, NEW s,
           \A c \in Conns :
              /\ conn'[c].pc = "writing" /\ conn'[c].id = s
                    <=> conn[c].pc = "writing" /\ conn[c].id = s
              /\ conn[c].pc = "writing" /\ conn[c].id = s
                    => conn'[c].hand = conn[c].hand
    PROVE  InHand(s)' = InHand(s)
<1>1. CASE \A c \in Conns : ~(conn[c].pc = "writing" /\ conn[c].id = s)
  <2>1. InHand(s) = << >>
    BY <1>1, InHandNone
  <2>2. InHand(s)' = << >>
    BY <1>1 DEF InHand
  <2> QED
    BY <2>1, <2>2
<1>2. CASE \E c \in Conns : conn[c].pc = "writing" /\ conn[c].id = s
  <2>1. PICK c \in Conns : conn[c].pc = "writing" /\ conn[c].id = s
    BY <1>2
  <2>2. \A d \in Conns : conn'[d].pc = "writing" /\ conn'[d].id = s <=> d = c
    BY <2>1 DEF OneOwner, Subscribed
  <2>3. InHand(s)' = << conn'[c].hand >>
    BY <2>2, InHandNext
  <2>4. InHand(s) = << conn[c].hand >>
    BY <2>1, InHandOne
  <2> QED
    BY <2>1, <2>3, <2>4
<1> QED
  BY <1>1, <1>2

LEMMA InHandType ==
    ASSUME IInv, NEW s
    PROVE  InHand(s) \in Seq(Events)
<1>1. CASE \A c \in Conns : ~(conn[c].pc = "writing" /\ conn[c].id = s)
  BY <1>1, InHandNone, EmptySeq
<1>2. CASE \E c \in Conns : conn[c].pc = "writing" /\ conn[c].id = s
  <2>1. PICK c \in Conns : conn[c].pc = "writing" /\ conn[c].id = s
    BY <1>2
  <2>2. conn[c].hand \in Events
    <3>1. conn[c].hand \in 1 .. Len(log) /\ Len(log) <= MaxEvents
      BY <2>1 DEF IInv, HandlersOwn, TypeOK
    <3> QED
      BY <3>1, Constants DEF Events, IInv, TypeOK
  <2>3. InHand(s) = << conn[c].hand >>
    BY <2>1, InHandOne DEF IInv
  <2> QED
    BY <2>2, <2>3
<1> QED
  BY <1>1, <1>2

LEMMA DeliveredFrame ==
    ASSUME NEW s, sent'[s] = sent[s], buf'[s] = buf[s], InHand(s)' = InHand(s)
    PROVE  Delivered(s)' = Delivered(s)
BY DEF Delivered

LEMMA Regroup ==
    \A a, b, c \in Seq(Events) : (a \o b) \o c = a \o (b \o c)
<1> SUFFICES ASSUME NEW a \in Seq(Events), NEW b \in Seq(Events), NEW c \in Seq(Events)
             PROVE  (a \o b) \o c = a \o (b \o c)
  OBVIOUS
<1> QED
  BY ONLY ConcatAssociative, a \in Seq(Events), b \in Seq(Events), c \in Seq(Events)

LEMMA SeqIsHeadTail ==
    ASSUME NEW S, NEW q \in Seq(S), q # << >>
    PROVE  << Head(q) >> \o Tail(q) = q
<1>1. Len(q) \in Nat \ {0}
  BY EmptySeq
<1>2. SubSeq(q, 1, Len(q)) = << q[1] >> \o SubSeq(q, 2, Len(q))
  BY <1>1, SubSeqRecursiveFirst
<1> QED
  BY <1>1, <1>2, SubSeqFull, TailIsSubSeq

\* Receiving moves the oldest buffered event into the handler's hands.
LEMMA ReceiveKeeps ==
    ASSUME IInv, NEW c \in Conns, Receive(c), NEW s \in Streams
    PROVE  Delivered(s)' = Delivered(s)
<1>1. conn' = [conn EXCEPT ![c].pc = "writing", ![c].hand = Head(buf[conn[c].id])]
  BY DEF Receive
<1>2. /\ conn[c].pc = "select" /\ conn'[c].pc = "writing"
      /\ conn'[c].id = conn[c].id /\ conn'[c].hand = Head(buf[conn[c].id])
      /\ \A d \in Conns \ {c} : conn'[d] = conn[d]
  BY <1>1 DEF Receive, IInv, TypeOK, HandlerState
<1>3. sent' = sent /\ buf' = [buf EXCEPT ![conn[c].id] = Tail(@)]
  BY DEF Receive
<1>4. CASE s # conn[c].id
  <2>1. InHand(s)' = InHand(s)
    BY <1>2, <1>4, InHandFrame DEF IInv
  <2> QED
    BY <1>3, <1>4, <2>1, DeliveredFrame
<1>5. CASE s = conn[c].id
  <2>1. /\ sent[s] \in Seq(Events) /\ buf[s] \in Seq(Events) /\ buf[s] # << >>
        /\ buf'[s] = Tail(buf[s])
    BY <1>3, <1>5 DEF IInv, TypeOK, Receive
  <2>2. \A d \in Conns : ~(conn[d].pc = "writing" /\ conn[d].id = s)
    BY <1>2, <1>5 DEF IInv, OneOwner, Subscribed
  <2>3. InHand(s) = << >>
    BY <2>2, InHandNone
  <2>4. InHand(s)' = << Head(buf[s]) >>
    BY <1>2, <1>5, <2>2, InHandNext
  <2>5. << Head(buf[s]) >> \o Tail(buf[s]) = buf[s]
    BY <2>1, SeqIsHeadTail
  <2>6. << Head(buf[s]) >> \in Seq(Events) /\ Tail(buf[s]) \in Seq(Events)
    BY <2>1, HeadTailProperties
  <2>7. (sent[s] \o << Head(buf[s]) >>) \o Tail(buf[s]) = sent[s] \o buf[s]
    <3> DEFINE h == << Head(buf[s]) >>
               t == Tail(buf[s])
    <3>1. h \in Seq(Events) /\ t \in Seq(Events) /\ h \o t = buf[s]
      BY <2>5, <2>6
    <3> HIDE DEF h, t
    <3>2. (sent[s] \o h) \o t = sent[s] \o (h \o t)
      BY <2>1, <3>1, Regroup
    <3>3. (sent[s] \o h) \o t = sent[s] \o buf[s]
      BY <3>1, <3>2
    <3> QED
      BY <3>3 DEF h, t
  <2>8. sent[s] \o << >> = sent[s]
    BY <2>1, ConcatEmptySeq
  <2> QED
    BY <1>3, <2>1, <2>3, <2>4, <2>7, <2>8 DEF Delivered
<1> QED
  BY <1>4, <1>5

\* Writing a frame moves it from the handler's hands to the client.
LEMMA WriteFrameKeeps ==
    ASSUME IInv, NEW c \in Conns, WriteFrame(c), NEW s \in Streams
    PROVE  Delivered(s)' = Delivered(s)
<1>1. /\ conn[c].pc = "writing" /\ conn'[c].pc = "select"
      /\ \A d \in Conns \ {c} : conn'[d] = conn[d]
      /\ buf' = buf /\ sent' = [sent EXCEPT ![conn[c].id] = Append(@, conn[c].hand)]
  BY DEF WriteFrame, IInv, TypeOK, HandlerState
<1>2. CASE s # conn[c].id
  <2>1. InHand(s)' = InHand(s)
    BY <1>1, <1>2, InHandFrame DEF IInv
  <2> QED
    BY <1>1, <1>2, <2>1, DeliveredFrame DEF IInv, TypeOK
<1>3. CASE s = conn[c].id
  <2>1. InHand(s) = << conn[c].hand >>
    BY <1>1, <1>3, InHandOne DEF IInv
  <2>2. InHand(s)' = << >>
    <3>1. \A d \in Conns : ~(conn'[d].pc = "writing" /\ conn'[d].id = s)
      BY <1>1, <1>3 DEF IInv, OneOwner, Subscribed
    <3> QED
      BY <3>1 DEF InHand
  <2>3. /\ sent[s] \in Seq(Events) /\ conn[c].hand \in Events
        /\ sent'[s] = Append(sent[s], conn[c].hand)
    <3>1. InHand(s) \in Seq(Events)
      BY InHandType
    <3>2. conn[c].hand \in Events
      BY <2>1, <3>1
    <3> QED
      BY <1>1, <1>3, <3>2 DEF IInv, TypeOK
  <2>4. Append(sent[s], conn[c].hand) = sent[s] \o << conn[c].hand >>
    BY <2>3, AppendIsConcat
  <2>5. sent'[s] \in Seq(Events) /\ sent'[s] \o << >> = sent'[s]
    BY <2>3, ConcatEmptySeq, AppendProperties
  <2> QED
    BY <1>1, <2>1, <2>2, <2>3, <2>4, <2>5 DEF Delivered
<1> QED
  BY <1>2, <1>3

LEMMA DeliveredType ==
    ASSUME IInv, NEW s \in Streams
    PROVE  Delivered(s) \in Seq(Events)
<1>1. sent[s] \in Seq(Events) /\ buf[s] \in Seq(Events) /\ InHand(s) \in Seq(Events)
  BY InHandType DEF IInv, TypeOK
<1>2. sent[s] \o InHand(s) \in Seq(Events)
  BY <1>1, ConcatProperties
<1> QED
  BY <1>1, <1>2, ConcatProperties DEF Delivered

\* What is buffered is given at the end.
LEMMA BufferGives ==
    ASSUME IInv, NEW s \in Streams, NEW e \in Events,
           Buffer(s, e), UNCHANGED <<sent, conn>>
    PROVE  /\ Delivered(s)' = Append(Delivered(s), e)
           /\ \A t \in Streams \ {s} : Delivered(t)' = Delivered(t)
<1>1. \A t \in Streams : InHand(t)' = InHand(t)
  BY InHandFrame DEF IInv
<1>2. /\ buf'[s] = Append(buf[s], e) /\ sent' = sent
      /\ \A t \in Streams \ {s} : buf'[t] = buf[t]
  BY DEF Buffer, IInv, TypeOK
<1>3. \A t \in Streams \ {s} : Delivered(t)' = Delivered(t)
  BY <1>1, <1>2, DeliveredFrame
<1>4. Delivered(s)' = Append(Delivered(s), e)
  <2> DEFINE a == sent[s] \o InHand(s)
             b == buf[s]
  <2>1. a \in Seq(Events) /\ b \in Seq(Events) /\ << e >> \in Seq(Events)
    BY InHandType, ConcatProperties DEF IInv, TypeOK
  <2>2. Delivered(s) = a \o b /\ Delivered(s)' = a \o Append(b, e)
    BY <1>1, <1>2 DEF Delivered
  <2>3. Delivered(s) \in Seq(Events)
    BY DeliveredType
  <2> HIDE DEF a, b
  <2>4. Append(b, e) = b \o << e >> /\ Append(a \o b, e) = (a \o b) \o << e >>
    BY <2>1, <2>2, <2>3, AppendIsConcat
  <2> QED
    BY <2>1, <2>2, <2>4, Regroup
<1> QED
  BY <1>3, <1>4

-----------------------------------------------------------------------------
(* Steps of the handlers                                                   *)

LEMMA HadFrame ==
    ASSUME lost' = lost, \A s \in Streams : Delivered(s)' = Delivered(s)
    PROVE  \A s \in Streams : \A e : Had(s, e)' <=> Had(s, e)
BY DEF Had

\* A step of a handler that opens no stream.
LEMMA HandlerFrame ==
    ASSUME RInv, \A s \in Streams : Delivered(s)' = Delivered(s),
           UNCHANGED <<pub, log, stream, lost>>, Live' \subseteq Live
    PROVE  DistinctEvents' /\ Untouched' /\ Covered' /\ Logged'
<1>1. \A s \in Streams : \A e : Had(s, e)' <=> Had(s, e)
  BY HadFrame
<1>2. DistinctEvents' /\ Untouched' /\ Logged'
  BY <1>1 DEF RInv, DistinctEvents, Untouched, Logged, Active
<1>3. Live \subseteq Streams
  BY LiveStreams DEF RInv, IInv
<1>4. Covered'
  BY <1>1, <1>3 DEF RInv, Covered
<1> QED
  BY <1>2, <1>4

\* What the broadcast does not see.
LEMMA Unseen ==
    ASSUME \A s \in Streams : Delivered(s)' = Delivered(s),
           UNCHANGED <<nextID, closed, stream, log, torn, lost>>,
           InFlight' = InFlight
    PROVE  UNCHANGED Bcast!vars
<1>1. Live' = Live
  BY DEF Live
<1> QED
  BY <1>1 DEF Bcast!vars

LEMMA HandlerStep ==
    ASSUME RInv, NEW c \in Conns,
           \/ Receive(c) \/ WriteFrame(c) \/ Disconnect(c)
           \/ \E p \in Projects : Greet(c, p)
    PROVE  RInv' /\ UNCHANGED Bcast!vars
<1>1. UNCHANGED <<nextID, closed, pub, stream, log, torn, lost>>
  BY DEF Receive, WriteFrame, Disconnect, Greet
<1>2. InFlight' = InFlight /\ Live' = Live
  BY <1>1 DEF InFlight, Live
<1>3. \A s \in Streams : Delivered(s)' = Delivered(s)
  <2>1. CASE Receive(c)
    BY <2>1, ReceiveKeeps DEF RInv
  <2>2. CASE WriteFrame(c)
    BY <2>2, WriteFrameKeeps DEF RInv
  <2>3. CASE Disconnect(c)
    <3>1. \A s : InHand(s)' = InHand(s)
      BY <2>3, InHandFrame DEF Disconnect, RInv, IInv, TypeOK, HandlerState
    <3> QED
      BY <2>3, <3>1, DeliveredFrame DEF Disconnect
  <2>4. CASE \E p \in Projects : Greet(c, p)
    <3>1. PICK p \in Projects : Greet(c, p)
      BY <2>4
    <3>2. /\ conn[c].pc = "idle" /\ conn'[c].pc = "greeted"
          /\ \A d \in Conns \ {c} : conn'[d] = conn[d]
      BY <3>1 DEF Greet, IdleConn, RInv, IInv, TypeOK
    <3>3. \A s : InHand(s)' = InHand(s)
      BY <3>2, InHandFrame DEF RInv, IInv
    <3> QED
      BY <3>1, <3>3, DeliveredFrame DEF Greet
  <2> QED
    BY <2>1, <2>2, <2>3, <2>4
<1>4. IInv'
  BY ReceiveInv, WriteFrameInv, DisconnectInv, GreetInv DEF RInv
<1> QED
  BY <1>1, <1>2, <1>3, <1>4, HandlerFrame, Unseen DEF RInv

\* Register opens a stream; the events there are, are older than it.
LEMMA RegisterStep ==
    ASSUME RInv, NEW c \in Conns, Register(c)
    PROVE  RInv' /\ Bcast!Next
<1>1. /\ nextID \in Streams /\ nextID \in Nat /\ nextID' = nextID + 1
      /\ nextID \notin closed /\ closed' = closed
      /\ UNCHANGED <<pub, log, torn, lost, buf, sent>>
  BY Constants DEF Register, Subscribe, RInv, IInv, TypeOK, Streams, RegistryMatches
<1>2. Live' = Live \cup {nextID} /\ nextID \notin 0 .. nextID - 1
      /\ 0 .. nextID' - 1 = (0 .. nextID - 1) \cup {nextID}
  BY <1>1 DEF Live
<1>3. \A s \in Streams : Delivered(s)' = Delivered(s)
  <2>1. /\ conn[c].pc = "greeted" /\ conn'[c].pc = "select"
        /\ \A d \in Conns \ {c} : conn'[d] = conn[d]
    BY DEF Register, RInv, IInv, TypeOK, HandlerState
  <2>2. \A s : InHand(s)' = InHand(s)
    BY <2>1, InHandFrame DEF RInv, IInv
  <2> QED
    BY <1>1, <2>2, DeliveredFrame
<1>4. /\ stream' = [stream EXCEPT ![nextID] =
                       [project |-> conn[c].project, since |-> Len(log)]]
      /\ conn[c].project \in Projects
  BY DEF Register, RInv, IInv, TypeOK, HandlerState
<1>5. /\ stream'[nextID].since = Len(log)
      /\ \A s \in Streams \ {nextID} : stream'[s] = stream[s]
  BY <1>1, <1>4 DEF RInv, IInv, TypeOK
<1>6. IInv'
  BY RegisterInv DEF RInv
<1>7. \A s \in Streams : \A e : Had(s, e)' <=> Had(s, e)
  BY <1>1, <1>3, HadFrame
<1>8. DistinctEvents' /\ Untouched' /\ Logged'
  BY <1>1, <1>7 DEF RInv, DistinctEvents, Untouched, Logged, Active
<1>9. Live' \subseteq Streams
  BY <1>1, <1>2, LiveStreams DEF RInv, IInv
<1>10. Covered'
  <2> SUFFICES ASSUME NEW p \in Publishers, pub[p].pc = "sending", NEW s \in Live',
                      stream'[s].project = log[pub[p].event].project,
                      stream'[s].since < pub[p].event
               PROVE  s \in pub[p].channels \/ Had(s, pub[p].event)
    BY <1>1, <1>7, <1>9 DEF Covered
  <2>1. pub[p].event \in 1 .. Len(log) /\ Len(log) \in Nat
    BY Publishing DEF RInv, IInv, TypeOK
  <2>2. s \in Live /\ s # nextID
    BY <1>2, <1>5, <2>1 DEF Live
  <2>3. s \in Streams
    BY <2>2, LiveStreams DEF RInv, IInv
  <2> QED
    BY <1>5, <1>7, <2>2, <2>3 DEF RInv, Covered
<1>11. InFlight' = InFlight
  BY <1>1 DEF InFlight
<1>12. Bcast!Subscribe(nextID, conn[c].project)
  BY <1>1, <1>2, <1>3, <1>4, <1>11 DEF Bcast!Subscribe
<1> QED
  BY <1>1, <1>4, <1>6, <1>8, <1>10, <1>12 DEF Bcast!Next, RInv

\* Return closes the handler's stream.
LEMMA ReturnStep ==
    ASSUME RInv, NEW c \in Conns, Return(c)
    PROVE  RInv' /\ Bcast!Next
<1> DEFINE s == conn[c].id
<1>1. /\ s \in Live /\ s \in Streams
      /\ conn[c].project \in Projects /\ stream[s].project = conn[c].project
  BY Ownership DEF RInv, Return, Subscribed
<1>2. closed' = closed \cup {s}
  BY <1>1 DEF Return, Unsubscribe, RInv, IInv, RegistryMatches
<1>3. UNCHANGED <<nextID, buf, pub, log, stream, sent, lost, torn>>
  BY DEF Return
<1>4. Live' = Live \ {s}
  BY <1>2, <1>3 DEF Live
<1>5. \A t \in Streams : Delivered(t)' = Delivered(t)
  <2>1. /\ conn[c].pc = "select" /\ conn'[c].pc = "idle"
        /\ \A d \in Conns \ {c} : conn'[d] = conn[d]
    BY DEF Return, IdleConn, RInv, IInv, TypeOK
  <2>2. \A t : InHand(t)' = InHand(t)
    BY <2>1, InHandFrame DEF RInv, IInv
  <2> QED
    BY <1>3, <2>2, DeliveredFrame
<1>6. RInv'
  BY <1>3, <1>4, <1>5, HandlerFrame, ReturnInv DEF RInv
<1>7. InFlight' = InFlight
  BY <1>3 DEF InFlight
<1>8. Bcast!Leave(s)
  BY <1>1, <1>3, <1>4, <1>5, <1>7 DEF Bcast!Leave
<1> QED
  BY <1>1, <1>6, <1>8 DEF Bcast!Next

-----------------------------------------------------------------------------
(* Steps of the publishers                                                 *)

\* The event of an active call is in the log.
LEMMA ActiveEvent ==
    ASSUME RInv, NEW p \in Publishers, Active(p)
    PROVE  /\ pub[p].event \in Events /\ pub[p].event \in 1 .. Len(log)
           /\ pub[p].event \in InFlight
BY Publishing DEF RInv, Active, InFlight

\* A step of a publisher gives nothing unless it is a send.
LEMMA DeliveredSame ==
    ASSUME RInv, UNCHANGED <<buf, conn, sent>>
    PROVE  \A s \in Streams : Delivered(s)' = Delivered(s)
<1>1. \A s : InHand(s)' = InHand(s)
  BY InHandFrame DEF RInv, IInv
<1> QED
  BY <1>1, DeliveredFrame

\* Stamp announces an event that nobody has had.
LEMMA StampStep ==
    ASSUME RInv, NEW p \in Publishers, NEW project \in Projects,
           Stamp(p, project)
    PROVE  RInv' /\ Bcast!Next
<1> DEFINE n == Len(log) + 1
<1>1. /\ pub[p].pc = "idle" /\ Len(log) \in Nat /\ Len(log') = n
      /\ Len(log) < MaxEvents /\ n \in Events
      /\ \A e \in 1 .. Len(log) : log'[e] = log[e]
      /\ pub'[p] = [pc |-> "stamped", event |-> n, channels |-> {}]
      /\ \A q \in Publishers \ {p} : pub'[q] = pub[q]
      /\ UNCHANGED <<nextID, buf, closed, conn, stream, sent, lost, torn>>
  BY Constants DEF Stamp, Events, RInv, IInv, TypeOK
<1>2. \A s \in Streams : \A e : Had(s, e)' <=> Had(s, e)
  BY <1>1, DeliveredSame, HadFrame
<1>3. Live' = Live /\ Live \subseteq Streams
  BY <1>1, LiveStreams DEF Live, RInv, IInv
<1>4. \A q \in Publishers : Active(q) => pub[q].event \in 1 .. Len(log)
  BY ActiveEvent
<1>5. \A s \in Streams : ~Had(s, n)
  BY <1>1 DEF RInv, Logged
<1>6. DistinctEvents'
  <2> SUFFICES ASSUME NEW q \in Publishers, NEW r \in Publishers,
                      Active(q)', Active(r)', pub'[q].event = pub'[r].event
               PROVE  q = r
    BY DEF DistinctEvents
  <2> QED
    BY <1>1, <1>4 DEF RInv, DistinctEvents, Active
<1>7. Untouched'
  <2> SUFFICES ASSUME NEW q \in Publishers, NEW s \in Streams,
                      \/ pub'[q].pc = "stamped"
                      \/ pub'[q].pc = "sending" /\ s \in pub'[q].channels
               PROVE  ~Had(s, pub'[q].event)
    BY <1>2 DEF Untouched
  <2> QED
    BY <1>1, <1>5 DEF RInv, Untouched
<1>8. Covered'
  <2> SUFFICES ASSUME NEW q \in Publishers, pub'[q].pc = "sending", NEW s \in Live,
                      stream[s].project = log'[pub'[q].event].project,
                      stream[s].since < pub'[q].event
               PROVE  s \in pub'[q].channels \/ Had(s, pub'[q].event)
    BY <1>1, <1>2, <1>3 DEF Covered
  <2>1. q # p /\ pub'[q] = pub[q]
    BY <1>1
  <2>2. pub[q].event \in 1 .. Len(log)
    BY <1>4, <2>1 DEF Active
  <2> QED
    BY <1>1, <2>1, <2>2 DEF RInv, Covered
<1>9. Logged'
  BY <1>1, <1>2 DEF RInv, Logged, Events
<1>10. IInv'
  BY StampInv DEF RInv
<1>11. InFlight' = InFlight \cup {n}
  BY <1>1 DEF InFlight
<1>12. log' = Append(log, [project |-> project, overlaps |-> InFlight])
  BY DEF Stamp
<1>13. Bcast!Announce(project)
  BY <1>1, <1>3, <1>11, <1>12, DeliveredSame DEF Bcast!Announce
<1> QED
  BY <1>6, <1>7, <1>8, <1>9, <1>10, <1>13 DEF Bcast!Next, RInv

\* Snapshot: every open stream of the project is in the copy.
LEMMA SnapshotStep ==
    ASSUME RInv, NEW p \in Publishers, Snapshot(p)
    PROVE  RInv' /\ UNCHANGED Bcast!vars
<1> DEFINE e == pub[p].event
<1>1. /\ pub[p].pc = "stamped" /\ pub'[p].pc = "sending" /\ pub'[p].event = e
      /\ pub'[p].channels = subs[log[e].project]
      /\ \A q \in Publishers \ {p} : pub'[q] = pub[q]
      /\ UNCHANGED <<nextID, subs, buf, closed, conn, log, stream, sent, lost, torn>>
  BY DEF Snapshot, ChannelsOf, RInv, IInv, TypeOK, PublishState
<1>2. \A s \in Streams : \A f : Had(s, f)' <=> Had(s, f)
  BY <1>1, DeliveredSame, HadFrame
<1>3. Live' = Live /\ Live \subseteq Streams
  BY <1>1, LiveStreams DEF Live, RInv, IInv
<1>4. log[e].project \in Projects
  BY <1>1, Publishing DEF RInv
<1>5. DistinctEvents' /\ Logged'
  BY <1>1, <1>2 DEF RInv, DistinctEvents, Logged, Active
<1>6. Untouched'
  <2> SUFFICES ASSUME NEW q \in Publishers, NEW s \in Streams,
                      \/ pub'[q].pc = "stamped"
                      \/ pub'[q].pc = "sending" /\ s \in pub'[q].channels
               PROVE  ~Had(s, pub'[q].event)
    BY <1>2 DEF Untouched
  <2> QED
    BY <1>1 DEF RInv, Untouched
<1>7. Covered'
  <2> SUFFICES ASSUME NEW q \in Publishers, pub'[q].pc = "sending", NEW s \in Live,
                      stream[s].project = log[pub'[q].event].project,
                      stream[s].since < pub'[q].event
               PROVE  s \in pub'[q].channels \/ Had(s, pub'[q].event)
    BY <1>1, <1>2, <1>3 DEF Covered
  <2>1. CASE q = p
    BY <1>1, <1>3, <1>4, <2>1 DEF RInv, IInv, RegistryMatches
  <2>2. CASE q # p
    BY <1>1, <2>2 DEF RInv, Covered
  <2> QED
    BY <2>1, <2>2
<1>8. InFlight' = InFlight
  BY <1>1 DEF InFlight
<1>9. UNCHANGED Bcast!vars
  BY <1>1, <1>8, DeliveredSame, Unseen
<1> QED
  BY <1>5, <1>6, <1>7, <1>9, SnapshotInv DEF RInv

\* A send gives the stream the event or loses it for the stream, which is
\* open and has not had it.
LEMMA SendStep ==
    ASSUME RInv, NEW p \in Publishers, NEW s \in Streams, Send(p, s)
    PROVE  RInv' /\ Bcast!Next
<1> DEFINE e == pub[p].event
<1>1. /\ pub[p].pc = "sending" /\ s \in pub[p].channels /\ s \notin closed
      /\ pub'[p].pc = "sending" /\ pub'[p].event = e
      /\ pub'[p].channels = pub[p].channels \ {s}
      /\ \A q \in Publishers \ {p} : pub'[q] = pub[q]
      /\ UNCHANGED <<nextID, closed, conn, log, stream, sent, torn>>
  BY DEF Send, RInv, IInv, TypeOK, PublishState
<1>2. e \in Events /\ e \in 1 .. Len(log) /\ e \in InFlight
  BY <1>1, ActiveEvent DEF Active
<1>3. s \in Live /\ stream[s].project = log[e].project
  <2>1. s < nextID /\ stream[s].project = log[e].project
    BY <1>1 DEF RInv, IInv, CopiesMatch
  <2>2. s \in Nat /\ nextID \in Nat
    BY Constants DEF RInv, IInv, TypeOK, Streams
  <2> QED
    BY <1>1, <2>1, <2>2 DEF Live
<1>4. Live' = Live /\ Live \subseteq Streams
  BY <1>1, LiveStreams DEF Live, RInv, IInv
<1>5. ~Had(s, e)
  BY <1>1 DEF RInv, Untouched
<1>6. \/ /\ Delivered(s)' = Append(Delivered(s), e) /\ lost' = lost
         /\ \A t \in Streams \ {s} : Delivered(t)' = Delivered(t)
      \/ /\ lost' = [lost EXCEPT ![s] = @ \cup {e}]
         /\ \A t \in Streams : Delivered(t)' = Delivered(t)
  <2>1. CASE Buffer(s, e)
    BY <1>1, <1>2, <2>1, BufferGives DEF RInv, Buffer
  <2>2. CASE Drop(s, e)
    BY <1>1, <2>2, DeliveredSame DEF Drop
  <2> QED
    BY <2>1, <2>2 DEF Send, Offer
<1>7. \A t \in Streams : \A f : Had(t, f)' <=> Had(t, f) \/ (t = s /\ f = e)
  <2>1. Delivered(s) \in Seq(Events) /\ lost \in [Streams -> SUBSET Events]
    BY DeliveredType DEF RInv, IInv, TypeOK
  <2>2. CASE /\ Delivered(s)' = Append(Delivered(s), e) /\ lost' = lost
             /\ \A t \in Streams \ {s} : Delivered(t)' = Delivered(t)
    <3>1. \A f : Had(s, f)' <=> Had(s, f) \/ f = e
      <4> DEFINE d == Delivered(s)
      <4>1. /\ Len(d) \in Nat /\ Len(Append(d, e)) = Len(d) + 1
            /\ Append(d, e)[Len(d) + 1] = e
            /\ \A i \in 1 .. Len(d) : Append(d, e)[i] = d[i]
        BY <1>2, <2>1, AppendProperties, LenProperties
      <4>2. \A i \in 1 .. Len(d) + 1 : i = Len(d) + 1 \/ i \in 1 .. Len(d)
        BY <4>1
      <4> QED
        BY <2>2, <4>1, <4>2 DEF Had
    <3> QED
      BY <2>2, <3>1 DEF Had
  <2>3. CASE /\ lost' = [lost EXCEPT ![s] = @ \cup {e}]
             /\ \A t \in Streams : Delivered(t)' = Delivered(t)
    BY <2>1, <2>3 DEF Had
  <2> QED
    BY <1>6, <2>2, <2>3
<1>8. DistinctEvents' /\ Logged'
  BY <1>1, <1>2, <1>7 DEF RInv, DistinctEvents, Logged, Active
<1>9. Untouched'
  <2> SUFFICES ASSUME NEW q \in Publishers, NEW t \in Streams,
                      \/ pub'[q].pc = "stamped"
                      \/ pub'[q].pc = "sending" /\ t \in pub'[q].channels
               PROVE  ~Had(t, pub'[q].event) /\ ~(t = s /\ pub'[q].event = e)
    BY <1>7 DEF Untouched
  <2> QED
    BY <1>1 DEF RInv, Untouched, DistinctEvents, Active
<1>10. Covered'
  <2> SUFFICES ASSUME NEW q \in Publishers, pub'[q].pc = "sending", NEW t \in Live,
                      stream[t].project = log[pub'[q].event].project,
                      stream[t].since < pub'[q].event
               PROVE  \/ t \in pub'[q].channels \/ Had(t, pub'[q].event)
                      \/ (t = s /\ pub'[q].event = e)
    BY <1>1, <1>4, <1>7 DEF Covered
  <2> QED
    BY <1>1 DEF RInv, Covered
<1>11. InFlight' = InFlight
  BY <1>1 DEF InFlight
<1>12. Bcast!Due(s, e)
  BY <1>2, <1>3, <1>5 DEF Bcast!Due, Bcast!Wants, Bcast!HadItsTurn, Had
<1>13. Bcast!Give(s, e) \/ Bcast!Lose(s, e)
  BY <1>1, <1>4, <1>6, <1>11, <1>12 DEF Bcast!Give, Bcast!Lose
<1> QED
  BY <1>2, <1>8, <1>9, <1>10, <1>13, SendInv DEF Bcast!Next, RInv

\* A publisher whose call is over is idle or panicking; either way its event
\* is no longer in flight and nothing else changes.
LEMMA EndFrame ==
    ASSUME RInv, NEW p \in Publishers, IInv',
           pub'[p].pc \notin {"stamped", "sending"},
           \A q \in Publishers \ {p} : pub'[q] = pub[q],
           UNCHANGED <<nextID, buf, closed, conn, log, stream, sent, lost>>
    PROVE  /\ RInv' /\ Live' = Live
           /\ \A s \in Streams : Delivered(s)' = Delivered(s)
           /\ InFlight' = IF Active(p) THEN InFlight \ {pub[p].event} ELSE InFlight
<1>1. \A s \in Streams : Delivered(s)' = Delivered(s)
  BY DeliveredSame
<1>2. \A s \in Streams : \A f : Had(s, f)' <=> Had(s, f)
  BY <1>1, HadFrame
<1>3. Live' = Live /\ Live \subseteq Streams
  BY LiveStreams DEF Live, RInv, IInv
<1>4. DistinctEvents' /\ Logged' /\ Untouched'
  BY <1>2 DEF RInv, DistinctEvents, Logged, Untouched, Active
<1>5. Covered'
  <2> SUFFICES ASSUME NEW q \in Publishers, pub'[q].pc = "sending", NEW s \in Live,
                      stream[s].project = log[pub'[q].event].project,
                      stream[s].since < pub'[q].event
               PROVE  s \in pub'[q].channels \/ Had(s, pub'[q].event)
    BY <1>2, <1>3 DEF Covered
  <2> QED
    BY DEF RInv, Covered
<1>6. InFlight' = IF Active(p) THEN InFlight \ {pub[p].event} ELSE InFlight
  <2>1. CASE Active(p)
    <3>1. \A q \in Publishers \ {p} : Active(q) => pub[q].event # pub[p].event
      BY <2>1 DEF RInv, DistinctEvents
    <3> QED
      BY <2>1, <3>1 DEF InFlight, Active
  <2>2. CASE ~Active(p)
    BY <2>2 DEF InFlight, Active
  <2> QED
    BY <2>1, <2>2
<1> QED
  BY <1>1, <1>3, <1>4, <1>5, <1>6 DEF RInv

LEMMA SendPanicsStep ==
    ASSUME RInv, NEW p \in Publishers, NEW s \in Streams, SendPanics(p, s)
    PROVE  RInv' /\ Bcast!Next
<1>1. /\ Active(p) /\ pub'[p].pc = "panicked"
      /\ \A q \in Publishers \ {p} : pub'[q] = pub[q]
      /\ UNCHANGED <<nextID, buf, closed, conn, log, stream, sent, lost>>
      /\ torn' = torn \cup {pub[p].event}
  BY DEF SendPanics, RInv, IInv, TypeOK, PublishState, Active
<1>2. IInv' /\ pub[p].event \in InFlight
  BY <1>1, SendPanicsInv, ActiveEvent DEF RInv
<1>3. /\ RInv' /\ Live' = Live
      /\ \A t \in Streams : Delivered(t)' = Delivered(t)
      /\ InFlight' = InFlight \ {pub[p].event}
  BY <1>1, <1>2, EndFrame
<1>4. Bcast!TearOff(pub[p].event)
  BY <1>1, <1>2, <1>3 DEF Bcast!TearOff
<1> QED
  BY <1>2, <1>3, <1>4 DEF Bcast!Next

\* Published: the copy is used up, so every stream that had to be covered has
\* had the event.
LEMMA PublishedStep ==
    ASSUME RInv, NEW p \in Publishers, Published(p)
    PROVE  RInv' /\ Bcast!Next
<1> DEFINE e == pub[p].event
<1>1. /\ Active(p) /\ pub[p].pc = "sending" /\ pub[p].channels = {}
      /\ pub'[p].pc = "idle"
      /\ \A q \in Publishers \ {p} : pub'[q] = pub[q]
      /\ UNCHANGED <<nextID, buf, closed, conn, log, stream, sent, lost, torn>>
  BY DEF Published, RInv, IInv, TypeOK, IdlePub, Active
<1>2. IInv' /\ e \in InFlight
  BY <1>1, RestInv, ActiveEvent DEF RInv
<1>3. /\ RInv' /\ Live' = Live
      /\ \A t \in Streams : Delivered(t)' = Delivered(t)
      /\ InFlight' = InFlight \ {e}
  BY <1>1, <1>2, EndFrame
<1>4. ASSUME NEW s \in Live, log[e].project = stream[s].project, stream[s].since < e
      PROVE  s \in Streams /\ Had(s, e)
  BY <1>1, <1>4, LiveStreams DEF RInv, IInv, Covered
<1>5. Bcast!Finish(e)
  BY <1>1, <1>2, <1>3, <1>4
     DEF Bcast!Finish, Bcast!Wants, Bcast!HadItsTurn, Had
<1> QED
  BY <1>2, <1>3, <1>5 DEF Bcast!Next

LEMMA RecoveredStep ==
    ASSUME RInv, NEW p \in Publishers, Recovered(p)
    PROVE  RInv' /\ UNCHANGED Bcast!vars
<1>1. /\ ~Active(p) /\ pub'[p].pc = "idle"
      /\ \A q \in Publishers \ {p} : pub'[q] = pub[q]
      /\ UNCHANGED <<nextID, buf, closed, conn, log, stream, sent, lost, torn>>
  BY DEF Recovered, RInv, IInv, TypeOK, IdlePub, Active
<1>2. IInv'
  BY RestInv DEF RInv
<1> QED
  BY <1>1, <1>2, EndFrame, Unseen

-----------------------------------------------------------------------------
(* The bus is a broadcast                                                  *)

LEMMA InitMaps == Init => RInv /\ Bcast!Init
<1> SUFFICES ASSUME Init PROVE RInv /\ Bcast!Init
  OBVIOUS
<1>1. IInv
  BY InitInv
<1>2. \A s \in Streams : Delivered(s) = << >> /\ lost[s] = {}
  <2> TAKE s \in Streams
  <2>1. InHand(s) = << >>
    BY InHandNone DEF Init, IdleConn
  <2>2. sent[s] = << >> /\ buf[s] = << >> /\ lost[s] = {}
    BY DEF Init
  <2> QED
    BY <2>1, <2>2 DEF Delivered
<1>3. \A p \in Publishers : pub[p].pc = "idle"
  BY DEF Init, IdlePub
<1>4. DistinctEvents /\ Untouched /\ Covered
  BY <1>3 DEF DistinctEvents, Untouched, Covered, Active
<1>5. Logged
  BY <1>2 DEF Logged, Had
<1>6. Live = {} /\ 0 .. nextID - 1 = {} /\ InFlight = {}
  BY <1>3 DEF Init, Live, InFlight
<1>7. stream \in [Streams -> [project : Projects, since : {0}]]
  BY Constants DEF Init
<1>8. Bcast!Init
  BY <1>2, <1>6, <1>7 DEF Bcast!Init, Init
<1> QED
  BY <1>1, <1>4, <1>5, <1>8 DEF RInv

LEMMA StepMaps == RInv /\ [Next]_vars => RInv' /\ [Bcast!Next]_(Bcast!vars)
<1> SUFFICES ASSUME RInv, [Next]_vars
             PROVE  RInv' /\ [Bcast!Next]_(Bcast!vars)
  OBVIOUS
<1>1. ASSUME NEW c \in Conns,
             HandlerNext(c) \/ Disconnect(c) \/ \E p \in Projects : Greet(c, p)
      PROVE  RInv' /\ [Bcast!Next]_(Bcast!vars)
  BY <1>1, HandlerStep, RegisterStep, ReturnStep DEF HandlerNext
<1>2. ASSUME NEW p \in Publishers,
             PublishNext(p) \/ \E project \in Projects : Stamp(p, project)
      PROVE  RInv' /\ [Bcast!Next]_(Bcast!vars)
  BY <1>2, SnapshotStep, PublishedStep, RecoveredStep, SendStep,
     SendPanicsStep, StampStep DEF PublishNext
<1>3. ASSUME UNCHANGED vars
      PROVE  RInv' /\ UNCHANGED Bcast!vars
  <2>1. UNCHANGED <<nextID, closed, pub, buf, conn, sent, stream, log, torn, lost>>
    BY <1>3 DEF vars
  <2>2. \A s \in Streams : Delivered(s)' = Delivered(s)
    BY <2>1, DeliveredSame
  <2>3. InFlight' = InFlight /\ Live' = Live
    BY <2>1 DEF InFlight, Live
  <2> QED
    BY <1>3, <2>1, <2>2, <2>3, HandlerFrame, Unseen, StutterInv DEF RInv
<1> QED
  BY <1>1, <1>2, <1>3 DEF Next

\* For any projects, clients, publishers, capacity and bounds, every behaviour
\* of the bus and its handlers is one of the abstract broadcast (bus.go,
\* events.go).
THEOREM BusImplementsBroadcast == Spec => ImplementsBroadcast
BY InitMaps, StepMaps, PTL DEF Spec, ImplementsBroadcast, Bcast!Spec

Contract == INSTANCE BroadcastProofs WITH
    made <- 0 .. nextID - 1,
    open <- Live,
    ongoing <- InFlight,
    given <- [s \in Streams |-> Delivered(s)]

LEMMA SameBroadcast == Bcast!Spec => Contract!Spec
<1>1. Bcast!Init => Contract!Init
  BY DEF Bcast!Init, Contract!Init
<1>2. [Bcast!Next]_(Bcast!vars) => [Contract!Next]_(Contract!vars)
  BY DEF Bcast!Next, Contract!Next, Bcast!vars, Contract!vars,
         Bcast!Subscribe, Contract!Subscribe, Bcast!Leave, Contract!Leave,
         Bcast!Announce, Contract!Announce, Bcast!Give, Contract!Give,
         Bcast!Lose, Contract!Lose, Bcast!Finish, Contract!Finish,
         Bcast!TearOff, Contract!TearOff, Bcast!Due, Contract!Due,
         Bcast!Wants, Contract!Wants, Bcast!HadItsTurn, Contract!HadItsTurn
<1> QED
  BY <1>1, <1>2, PTL DEF Bcast!Spec, Contract!Spec

LEMMA Inherited ==
    Spec => [](/\ Contract!Isolation /\ Contract!AtMostOnce
               /\ Contract!RealTimeOrder /\ Contract!NoSilentLoss)
BY BusImplementsBroadcast, SameBroadcast, Contract!Promises, PTL
   DEF ImplementsBroadcast

\* Once a Publish call has returned normally, every stream of its project that
\* was there before it and still is was given the event or dropped it
\* (bus.go Publish).
THEOREM NothingLostSilently == Spec => []NoSilentLoss
<1>1. ASSUME IInv, Contract!NoSilentLoss
      PROVE  NoSilentLoss
  <2> SUFFICES ASSUME NEW s \in Live, NEW e \in 1 .. Len(log),
                      log[e].project = stream[s].project,
                      stream[s].since < e, e \notin InFlight \cup torn
               PROVE  Had(s, e)
    BY DEF NoSilentLoss, Had
  <2>1. s \in Streams
    BY <1>1, LiveStreams DEF IInv
  <2> QED
    BY <1>1, <2>1
       DEF Contract!NoSilentLoss, Contract!Wants, Contract!HadItsTurn, Had
<1> QED
  BY <1>1, Inherited, InductiveInvariant, PTL

\* A client sees two events against their order only if their Publish calls
\* overlapped (bus.go Publish).
THEOREM StreamsRespectRealTime == Spec => []RealTimeOrder
<1>1. Contract!RealTimeOrder => RealTimeOrder
  BY DEF Contract!RealTimeOrder, RealTimeOrder
<1> QED
  BY <1>1, Inherited, PTL

\* No client is given an event twice, or one that was dropped for it (bus.go
\* Publish).
THEOREM GivenAtMostOnce ==
    Spec => [](\A s \in Streams :
        /\ \A i, j \in 1 .. Len(Delivered(s)) :
              Delivered(s)[i] = Delivered(s)[j] => i = j
        /\ \A i \in 1 .. Len(Delivered(s)) : Delivered(s)[i] \notin lost[s])
<1>1. Contract!AtMostOnce => \A s \in Streams :
        /\ \A i, j \in 1 .. Len(Delivered(s)) :
              Delivered(s)[i] = Delivered(s)[j] => i = j
        /\ \A i \in 1 .. Len(Delivered(s)) : Delivered(s)[i] \notin lost[s]
  BY DEF Contract!AtMostOnce
<1> QED
  BY <1>1, Inherited, PTL
=============================================================================
