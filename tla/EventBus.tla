------------------------------ MODULE EventBus ------------------------------
(***************************************************************************)
(* The in-memory event bus (internal/event/bus.go) together with its two   *)
(* kinds of users: the SSE handlers that subscribe (delivery/http/         *)
(* events.go) and the request goroutines that publish after a mutation     *)
(* (usecase/memory.go publish).                                            *)
(*                                                                         *)
(* Bus.mu makes Subscribe and the unsubscribe closure atomic.  Publish is  *)
(* not atomic: it copies the channels of the project under the read lock   *)
(* and sends to the copies after releasing it, so every send is a step of  *)
(* its own and interleaves with everything else.                           *)
(***************************************************************************)
EXTENDS Integers, Sequences, FiniteSets

CONSTANTS
    Projects,    \* project names
    Conns,       \* client connections that may open GET /events
    Prompt,      \* those whose client reads what it is sent
    Publishers,  \* request goroutines that mutate the graph and publish
    Cap,         \* capacity of a subscriber's channel (16 in the code)
    MaxStreams,  \* bound: number of Subscribe calls
    MaxEvents    \* bound: number of Publish calls

ASSUME CapAssumption == Cap \in Nat \ {0}
ASSUME BoundsAssumption == MaxStreams \in Nat /\ MaxEvents \in Nat
ASSUME ProjectsAssumption == Projects # {}
ASSUME PromptAssumption == Prompt \subseteq Conns

Streams == 0 .. MaxStreams - 1      \* subscriber ids, handed out by nextID
NoStream == MaxStreams              \* a handler that has not subscribed yet
Events == 1 .. MaxEvents            \* an event is its position in log
NoEvent == 0

VARIABLES
    nextID,   \* Bus.nextID
    subs,     \* Bus.subs: subs[p] is the key set of the inner map of project p
    topics,   \* the projects that have an inner map, the key set of Bus.subs
    buf,      \* buf[s]: what is buffered in the channel of stream s
    closed,   \* the streams whose channel has been closed
    conn,     \* conn[c]: the ServeHTTP activation of connection c
    pub,      \* pub[p]: the Publish activation of goroutine p
    log,      \* history: one record per Publish call, in timestamp order
    stream,   \* history: stream[s], what stream s was subscribed to, and when
    sent,     \* history: sent[s], the frames written to the client of s
    lost,     \* history: lost[s], the events dropped because buf[s] was full
    torn      \* history: the events whose Publish call panicked

vars == <<nextID, subs, topics, buf, closed, conn, pub, log, stream, sent,
          lost, torn>>

IdleConn == [pc |-> "idle", project |-> CHOOSE p \in Projects : TRUE,
             id |-> NoStream, hand |-> NoEvent, gone |-> FALSE]
IdlePub == [pc |-> "idle", event |-> NoEvent, channels |-> {}]

Init ==
    /\ nextID = 0
    /\ subs = [p \in Projects |-> {}]
    /\ topics = {}
    /\ buf = [s \in Streams |-> << >>]
    /\ closed = {}
    /\ conn = [c \in Conns |-> IdleConn]
    /\ pub = [p \in Publishers |-> IdlePub]
    /\ log = << >>
    /\ stream = [s \in Streams |-> [project |-> CHOOSE p \in Projects : TRUE,
                                    since |-> 0]]
    /\ sent = [s \in Streams |-> << >>]
    /\ lost = [s \in Streams |-> {}]
    /\ torn = {}

-----------------------------------------------------------------------------
(* The bus *)

\* mutant of ChannelsOf: one registry for all projects.
ChannelsOfAnyProject(p) == UNION {subs[q] : q \in Projects}

\* The copy of the channels registered for project p, as their stream ids.
ChannelsOf(p) == subs[p]

\* Subscribe: a fresh id, a fresh channel, one critical section.
Subscribe(p, id) ==
    /\ id = nextID
    /\ nextID' = nextID + 1
    /\ topics' = topics \cup {p}
    /\ subs' = [subs EXCEPT ![p] = @ \cup {id}]

\* mutant of Unsubscribe: the last subscriber leaves an empty map behind.
UnsubscribeKeepsMap(p, id) ==
    /\ subs' = [subs EXCEPT ![p] = @ \ {id}]
    /\ closed' = IF id \in subs[p] THEN closed \cup {id} ELSE closed
    /\ UNCHANGED topics

\* mutant of Unsubscribe: the deferred unsubscribe is forgotten.
UnsubscribeForgotten(p, id) == UNCHANGED <<subs, closed, topics>>

\* The closure Subscribe returns: close and forget the channel if it is still
\* registered, drop the project's map when it becomes empty.
Unsubscribe(p, id) ==
    /\ subs' = [subs EXCEPT ![p] = @ \ {id}]
    /\ closed' = IF p \in topics /\ id \in subs[p]
                 THEN closed \cup {id} ELSE closed
    /\ topics' = IF subs[p] \subseteq {id} THEN topics \ {p} ELSE topics

-----------------------------------------------------------------------------
(* SSEHandler.ServeHTTP *)

\* A request arrives: the headers and the ": connected" comment are flushed
\* to the client before the handler subscribes.
Greet(c, p) ==
    /\ conn[c].pc = "idle"
    /\ nextID < MaxStreams
    /\ conn' = [conn EXCEPT ![c] = [IdleConn EXCEPT !.pc = "greeted",
                                                    !.project = p]]
    /\ UNCHANGED <<nextID, subs, topics, buf, closed, pub, log, stream, sent,
                   lost, torn>>

Register(c) ==
    /\ conn[c].pc = "greeted"
    /\ nextID < MaxStreams
    /\ Subscribe(conn[c].project, nextID)
    /\ conn' = [conn EXCEPT ![c].pc = "select", ![c].id = nextID]
    /\ stream' = [stream EXCEPT ![nextID] = [project |-> conn[c].project,
                                             since |-> Len(log)]]
    /\ UNCHANGED <<buf, closed, pub, log, sent, lost, torn>>

\* select, case e := <-ch.  The handler may be in the middle of a slow write
\* for any time, so receiving and writing are two steps.
Receive(c) ==
    /\ conn[c].pc = "select"
    /\ buf[conn[c].id] # << >>
    /\ conn' = [conn EXCEPT ![c].pc = "writing",
                            ![c].hand = Head(buf[conn[c].id])]
    /\ buf' = [buf EXCEPT ![conn[c].id] = Tail(@)]
    /\ UNCHANGED <<nextID, subs, topics, closed, pub, log, stream, sent, lost,
                   torn>>

\* mutant of WriteFrame: the frame is skipped (json.Marshal failed: continue).
WriteFrameSkips(c) ==
    /\ conn[c].pc = "writing"
    /\ conn' = [conn EXCEPT ![c].pc = "select", ![c].hand = NoEvent]
    /\ UNCHANGED <<nextID, subs, topics, buf, closed, pub, log, stream, sent,
                   lost, torn>>

\* Fprintf and Flush of one frame; write errors are ignored.
WriteFrame(c) ==
    /\ conn[c].pc = "writing"
    /\ sent' = [sent EXCEPT ![conn[c].id] = Append(@, conn[c].hand)]
    /\ conn' = [conn EXCEPT ![c].pc = "select", ![c].hand = NoEvent]
    /\ UNCHANGED <<nextID, subs, topics, buf, closed, pub, log, stream, lost,
                   torn>>

\* The client goes away at any moment of the request: its context is
\* cancelled, which the handler only notices in its select.
Disconnect(c) ==
    /\ conn[c].pc # "idle" /\ ~conn[c].gone
    /\ conn' = [conn EXCEPT ![c].gone = TRUE]
    /\ UNCHANGED <<nextID, subs, topics, buf, closed, pub, log, stream, sent,
                   lost, torn>>

\* select, case <-ctx.Done(): return, which runs the deferred unsub.
Return(c) ==
    /\ conn[c].pc = "select" /\ conn[c].gone
    /\ Unsubscribe(conn[c].project, conn[c].id)
    /\ conn' = [conn EXCEPT ![c] = IdleConn]
    /\ UNCHANGED <<nextID, buf, pub, log, stream, sent, lost, torn>>

-----------------------------------------------------------------------------
(* Bus.Publish, called by a request goroutine after its commit *)

\* The events of Publish calls that have started and not yet returned.
InFlight == {pub[p].event : p \in {q \in Publishers :
                                     pub[q].pc \in {"stamped", "sending"}}}

\* e.Project and e.Timestamp are set before the lock is taken.
Stamp(p, project) ==
    /\ pub[p].pc = "idle"
    /\ Len(log) < MaxEvents
    /\ log' = Append(log, [project |-> project, overlaps |-> InFlight])
    /\ pub' = [pub EXCEPT ![p] = [pc |-> "stamped", event |-> Len(log) + 1,
                                  channels |-> {}]]
    /\ UNCHANGED <<nextID, subs, topics, buf, closed, conn, stream, sent, lost,
                   torn>>

\* Under RLock: copy the channels registered for the project.
Snapshot(p) ==
    /\ pub[p].pc = "stamped"
    /\ pub' = [pub EXCEPT ![p].pc = "sending",
                          ![p].channels = ChannelsOf(log[pub[p].event].project)]
    /\ UNCHANGED <<nextID, subs, topics, buf, closed, conn, log, stream, sent,
                   lost, torn>>

Buffer(s, e) == buf' = [buf EXCEPT ![s] = Append(@, e)] /\ UNCHANGED lost
Drop(s, e) == lost' = [lost EXCEPT ![s] = @ \cup {e}] /\ UNCHANGED buf

\* mutant of Offer: a blocking send.
OfferBlocks(s, e) == Len(buf[s]) < Cap /\ Buffer(s, e)

\* select { case ch <- e: default: }, on an open channel.
Offer(s, e) == IF Len(buf[s]) < Cap THEN Buffer(s, e) ELSE Drop(s, e)

\* mutant of Send: a full subscriber is tried again.
SendRetries(p, s) ==
    /\ pub[p].pc = "sending" /\ s \in pub[p].channels
    /\ s \notin closed
    /\ Offer(s, pub[p].event)
    /\ pub' = [pub EXCEPT ![p].channels = IF Len(buf[s]) < Cap THEN @ \ {s}
                                                              ELSE @]
    /\ UNCHANGED <<nextID, subs, topics, closed, conn, log, stream, sent, torn>>

\* One iteration of the send loop.  The copy lists the channels in the random
\* order of a map iteration.
Send(p, s) ==
    /\ pub[p].pc = "sending" /\ s \in pub[p].channels
    /\ s \notin closed
    /\ Offer(s, pub[p].event)
    /\ pub' = [pub EXCEPT ![p].channels = @ \ {s}]
    /\ UNCHANGED <<nextID, subs, topics, closed, conn, log, stream, sent, torn>>

\* Sending on a closed channel panics, also in a select with a default: the
\* rest of the loop is not run.
SendPanics(p, s) ==
    /\ pub[p].pc = "sending" /\ s \in pub[p].channels
    /\ s \in closed
    /\ pub' = [pub EXCEPT ![p].pc = "panicked", ![p].channels = {}]
    /\ torn' = torn \cup {pub[p].event}
    /\ UNCHANGED <<nextID, subs, topics, buf, closed, conn, log, stream, sent,
                   lost>>

\* mutant of Published: the loop stops after the first subscriber.
PublishedEarly(p) ==
    /\ pub[p].pc = "sending"
    /\ pub' = [pub EXCEPT ![p] = IdlePub]
    /\ UNCHANGED <<nextID, subs, topics, buf, closed, conn, log, stream, sent,
                   lost, torn>>

Published(p) ==
    /\ pub[p].pc = "sending" /\ pub[p].channels = {}
    /\ pub' = [pub EXCEPT ![p] = IdlePub]
    /\ UNCHANGED <<nextID, subs, topics, buf, closed, conn, log, stream, sent,
                   lost, torn>>

\* net/http recovers the panic of a handler and drops its connection; the
\* server, and so the publisher's next request, goes on.
Recovered(p) ==
    /\ pub[p].pc = "panicked"
    /\ pub' = [pub EXCEPT ![p] = IdlePub]
    /\ UNCHANGED <<nextID, subs, topics, buf, closed, conn, log, stream, sent,
                   lost, torn>>

-----------------------------------------------------------------------------
HandlerNext(c) == Register(c) \/ Receive(c) \/ WriteFrame(c) \/ Return(c)

PublishNext(p) ==
    \/ Snapshot(p) \/ Published(p) \/ Recovered(p)
    \/ \E s \in Streams : Send(p, s) \/ SendPanics(p, s)

Next ==
    \/ \E c \in Conns : \/ HandlerNext(c) \/ Disconnect(c)
                        \/ \E p \in Projects : Greet(c, p)
    \/ \E p \in Publishers : \/ PublishNext(p)
                             \/ \E project \in Projects : Stamp(p, project)

Spec == Init /\ [][Next]_vars

\* A started Publish call is scheduled by the Go runtime; nothing is assumed
\* of clients or of SSE handlers.
PublisherFairSpec == Spec /\ \A p \in Publishers : WF_vars(PublishNext(p))

\* Handlers are scheduled too.  Go's select chooses at random among its ready
\* cases, so a case that stays ready is eventually taken: each of the two
\* cases has its own fairness.  A frame write ends if the client reads; there
\* is no write timeout, so nothing is assumed of the other connections.
FairSpec ==
    /\ PublisherFairSpec
    /\ \A c \in Prompt : /\ WF_vars(Register(c)) /\ WF_vars(WriteFrame(c))
                         /\ SF_vars(Receive(c)) /\ SF_vars(Return(c))

-----------------------------------------------------------------------------
(* Properties *)

HandlerState == [pc : {"idle", "greeted", "select", "writing"},
                 project : Projects, id : Streams \cup {NoStream},
                 hand : Events \cup {NoEvent}, gone : BOOLEAN]

PublishState == [pc : {"idle", "stamped", "sending", "panicked"},
                 event : Events \cup {NoEvent}, channels : SUBSET Streams]

LogEntry == [project : Projects, overlaps : SUBSET Events]

TypeOK ==
    /\ nextID \in 0 .. MaxStreams
    /\ subs \in [Projects -> SUBSET Streams]
    /\ topics \subseteq Projects
    /\ buf \in [Streams -> Seq(Events)]
    /\ \A s \in Streams : Len(buf[s]) <= Cap
    /\ closed \subseteq Streams
    /\ conn \in [Conns -> HandlerState]
    /\ pub \in [Publishers -> PublishState]
    /\ log \in Seq(LogEntry)
    /\ Len(log) <= MaxEvents
    /\ stream \in [Streams -> [project : Projects, since : 0 .. MaxEvents]]
    /\ sent \in [Streams -> Seq(Events)]
    /\ lost \in [Streams -> SUBSET Events]
    /\ torn \subseteq Events

Subscribed(c) == conn[c].pc \in {"select", "writing"}

\* The streams that have been handed out and not closed.
Live == 0 .. nextID - 1 \ closed

\* The registry and the channels never disagree: an id is registered for the
\* project it subscribed to exactly while its channel is open, exactly one
\* live handler owns it, and a project without subscribers leaves no empty map
\* behind.  (bus.go Subscribe and its closure: a second close of a channel
\* would panic, a channel closed but still registered would poison Publish.)
RegistryMatches ==
    /\ closed \subseteq 0 .. nextID - 1
    /\ \A p \in Projects, s \in Streams :
          s \in subs[p] <=> s \in Live /\ stream[s].project = p
    /\ \A p \in Projects : p \in topics <=> subs[p] # {}

OneOwner ==
    /\ \A s \in Live : \E c \in Conns : Subscribed(c) /\ conn[c].id = s
    /\ \A c, d \in Conns : Subscribed(c) /\ Subscribed(d)
                           /\ conn[c].id = conn[d].id => c = d

RegistryExact == RegistryMatches /\ OneOwner

\* What a handler holds belongs to it: its stream is open and subscribed to its
\* project, and the event in its hands is one of that project (events.go
\* ServeHTTP).  Half of the argument that RegistryExact and ProjectIsolation
\* are preserved.
HandlersOwn ==
    \A c \in Conns :
        /\ Subscribed(c) => /\ conn[c].id \in Live
                            /\ stream[conn[c].id].project = conn[c].project
        /\ conn[c].pc = "writing" =>
               /\ conn[c].hand \in 1 .. Len(log)
               /\ log[conn[c].hand].project = conn[c].project

\* The other half: every copy of an event and every copy of a channel in the
\* system is on its own project's side, and a channel is empty until it is
\* made (bus.go Publish).
CopiesMatch ==
    /\ \A s \in Streams :
          /\ \A i \in 1 .. Len(buf[s]) :
                /\ buf[s][i] \in 1 .. Len(log)
                /\ log[buf[s][i]].project = stream[s].project
          /\ \A i \in 1 .. Len(sent[s]) :
                /\ sent[s][i] \in 1 .. Len(log)
                /\ log[sent[s][i]].project = stream[s].project
          /\ s >= nextID => buf[s] = << >> /\ sent[s] = << >>
    /\ \A p \in Publishers :
          /\ pub[p].pc # "idle" => pub[p].event \in 1 .. Len(log)
          /\ pub[p].pc = "idle" => pub[p].channels = {}
          /\ \A s \in pub[p].channels :
                s < nextID /\ stream[s].project = log[pub[p].event].project

IInv == TypeOK /\ HandlersOwn /\ RegistryMatches /\ OneOwner /\ CopiesMatch

\* What stream s has been given so far, oldest first: written to the client,
\* in the handler's hands, or still in its channel.
InHand(s) == LET C == {c \in Conns : conn[c].pc = "writing" /\ conn[c].id = s}
             IN  IF C = {} THEN << >>
                 ELSE << conn[CHOOSE c \in C : TRUE].hand >>
Delivered(s) == sent[s] \o InHand(s) \o buf[s]

\* A client only ever sees events of the project it subscribed to, even when
\* ids of several projects are in use and publishers hold old copies of a
\* registry (bus.go Publish, events.go ServeHTTP).
ProjectIsolation ==
    \A s \in Streams : \A i \in 1 .. Len(Delivered(s)) :
        log[Delivered(s)[i]].project = stream[s].project

\* Streams respect real time: if Publish of e returned before Publish of f
\* began, no subscriber sees f before e.  Concurrent calls may be seen in
\* either order, against their timestamps.
RealTimeOrder ==
    \A s \in Streams :
        LET d == Delivered(s)
        IN  \A i, j \in 1 .. Len(d) :
              i < j /\ d[j] < d[i] => d[j] \in log[d[i]].overlaps

\* An event is never lost silently: once Publish of e has returned normally,
\* every stream of its project that was subscribed before the call and still
\* is has been given e, or had a full channel when its turn came.
NoSilentLoss ==
    \A s \in Live : \A e \in 1 .. Len(log) :
        /\ log[e].project = stream[s].project
        /\ stream[s].since < e
        /\ e \notin InFlight \cup torn
        => \/ \E i \in 1 .. Len(Delivered(s)) : Delivered(s)[i] = e
           \/ e \in lost[s]

\* The bus implements the abstract broadcast: what a stream is given are the
\* events written, in hand and buffered for it.  This is the contract of
\* bus.go and events.go in one formula: each event reaches each stream of its
\* project at most once and while its call lasts, a call that returns has
\* reached or overrun every stream that was there before it, and a closed
\* stream is final.
Bcast == INSTANCE Broadcast WITH
    made <- 0 .. nextID - 1,
    open <- Live,
    ongoing <- InFlight,
    given <- [s \in Streams |-> Delivered(s)]

ImplementsBroadcast == Bcast!Spec

\* Publish never blocks on a subscriber: it returns although no handler and
\* no client ever takes another step (sse-design.md: "Non-blocking publish").
PublishReturns ==
    \A p \in Publishers : (pub[p].pc \in {"stamped", "sending"})
                            ~> (pub[p].pc \in {"idle", "panicked"})

\* An event buffered for a client that reads is written to it, however many
\* other clients are stuck, unless it leaves (events.go ServeHTTP).
BufferedIsWritten ==
    \A c \in Prompt : \A e \in Events :
        LET s == conn[c].id
        IN  (Subscribed(c) /\ \E i \in 1 .. Len(buf[s]) : buf[s][i] = e)
              ~> (Subscribed(c) => \E i \in 1 .. Len(sent[s]) : sent[s][i] = e)

\* A client that left is let go, however full its channel and however often it
\* is filled again, and leaves no open stream without a handler behind, unless
\* its handler is stuck in a write (events.go ServeHTTP: the deferred unsub).
GoneIsReclaimed ==
    \A c \in Prompt :
        (Subscribed(c) /\ conn[c].gone)
            ~> (\A s \in Live : \E d \in Conns \ {c} :
                                  Subscribed(d) /\ conn[d].id = s)

\* "Safe for concurrent use" (bus.go, comment of Bus): no call on the bus
\* panics, whatever other calls are running.
NoPanic == \A p \in Publishers : pub[p].pc # "panicked"
=============================================================================
