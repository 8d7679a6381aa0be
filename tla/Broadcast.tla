------------------------------ MODULE Broadcast ------------------------------
(***************************************************************************)
(* What the event bus promises, without its registry, channels and         *)
(* handlers: an event is announced by a call, and while the call lasts     *)
(* every open stream of the event's project is given it or, being too far  *)
(* behind, loses it, once.  The call ends when all streams that were there *)
(* before it have had their turn, unless it is torn off.  Module EventBus  *)
(* implements this.                                                        *)
(*                                                                         *)
(* Isolation, at-most-once delivery, real-time order and no silent loss    *)
(* follow from the guards (BroadcastProofs).                               *)
(***************************************************************************)
EXTENDS Integers, Sequences

CONSTANTS Projects, Streams

VARIABLES
    made,     \* the streams that were ever opened
    open,     \* those that are open
    stream,   \* stream[s]: what s is subscribed to, and the events before it
    log,      \* the events announced, each with the calls it overlaps
    ongoing,  \* the events whose call has not ended
    torn,     \* the events whose call was torn off
    given,    \* given[s]: the events handed to s, oldest first
    lost      \* lost[s]: the events s has lost

vars == <<made, open, stream, log, ongoing, torn, given, lost>>

Init ==
    /\ made = {} /\ open = {} /\ ongoing = {} /\ torn = {}
    /\ stream \in [Streams -> [project : Projects, since : {0}]]
    /\ log = << >>
    /\ given = [s \in Streams |-> << >>]
    /\ lost = [s \in Streams |-> {}]

Subscribe(s, p) ==
    /\ s \in Streams \ made
    /\ made' = made \cup {s}
    /\ open' = open \cup {s}
    /\ stream' = [stream EXCEPT ![s] = [project |-> p, since |-> Len(log)]]
    /\ UNCHANGED <<log, ongoing, torn, given, lost>>

Leave(s) ==
    /\ s \in open
    /\ open' = open \ {s}
    /\ UNCHANGED <<made, stream, log, ongoing, torn, given, lost>>

Announce(p) ==
    /\ log' = Append(log, [project |-> p, overlaps |-> ongoing])
    /\ ongoing' = ongoing \cup {Len(log) + 1}
    /\ UNCHANGED <<made, open, stream, torn, given, lost>>

Wants(s, e) == log[e].project = stream[s].project
HadItsTurn(s, e) ==
    e \in lost[s] \/ \E i \in 1 .. Len(given[s]) : given[s][i] = e
Due(s, e) == /\ e \in ongoing /\ s \in open
             /\ Wants(s, e) /\ ~HadItsTurn(s, e)

Give(s, e) ==
    /\ Due(s, e)
    /\ given' = [given EXCEPT ![s] = Append(@, e)]
    /\ UNCHANGED <<made, open, stream, log, ongoing, torn, lost>>

Lose(s, e) ==
    /\ Due(s, e)
    /\ lost' = [lost EXCEPT ![s] = @ \cup {e}]
    /\ UNCHANGED <<made, open, stream, log, ongoing, torn, given>>

Finish(e) ==
    /\ e \in ongoing
    /\ \A s \in open :
          Wants(s, e) /\ stream[s].since < e => HadItsTurn(s, e)
    /\ ongoing' = ongoing \ {e}
    /\ UNCHANGED <<made, open, stream, log, torn, given, lost>>

TearOff(e) ==
    /\ e \in ongoing
    /\ ongoing' = ongoing \ {e}
    /\ torn' = torn \cup {e}
    /\ UNCHANGED <<made, open, stream, log, given, lost>>

Next ==
    \/ \E s \in Streams : \/ Leave(s)
                          \/ \E p \in Projects : Subscribe(s, p)
                          \/ \E e \in ongoing : Give(s, e) \/ Lose(s, e)
    \/ \E p \in Projects : Announce(p)
    \/ \E e \in ongoing : Finish(e) \/ TearOff(e)

Spec == Init /\ [][Next]_vars

-----------------------------------------------------------------------------
(* Properties                                                              *)

TypeOK ==
    /\ open \subseteq made /\ made \subseteq Streams
    /\ stream \in [Streams -> [project : Projects, since : Nat]]
    /\ log \in Seq([project : Projects, overlaps : SUBSET Nat])
    /\ ongoing \subseteq 1 .. Len(log)
    /\ torn \subseteq 1 .. Len(log)
    /\ given \in [Streams -> Seq(Nat)]
    /\ lost \in [Streams -> SUBSET Nat]

\* A stream is given and loses events of its project only, that were announced.
Isolation ==
    \A s \in Streams :
        /\ \A i \in 1 .. Len(given[s]) :
              given[s][i] \in 1 .. Len(log) /\ Wants(s, given[s][i])
        /\ \A e \in lost[s] : e \in 1 .. Len(log) /\ Wants(s, e)

\* No stream is given an event twice, or one that it lost.
AtMostOnce ==
    \A s \in Streams :
        /\ \A i, j \in 1 .. Len(given[s]) : given[s][i] = given[s][j] => i = j
        /\ \A i \in 1 .. Len(given[s]) : given[s][i] \notin lost[s]

\* A stream is given two events out of order only if their calls overlapped.
RealTimeOrder ==
    \A s \in Streams : \A i, j \in 1 .. Len(given[s]) :
        i < j /\ given[s][j] < given[s][i] =>
            given[s][j] \in log[given[s][i]].overlaps

\* Once a call has ended, unless it was torn off, every stream that was there
\* before it and still is has had its turn.
NoSilentLoss ==
    \A s \in open : \A e \in 1 .. Len(log) :
        /\ Wants(s, e) /\ stream[s].since < e
        /\ e \notin ongoing \cup torn
        => HadItsTurn(s, e)
=============================================================================
