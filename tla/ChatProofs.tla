----------------------------- MODULE ChatProofs -----------------------------
(***************************************************************************)
(* What holds of Chat for any number of browsers, requests, turns and tool *)
(* calls.  The first part says what each action does to the request that   *)
(* takes it; the invariants are then proved one after the other, each with *)
(* the help of those before it: types, the lock, sessions, what a clear    *)
(* forgets, what is shown, and the transcript.                             *)
(***************************************************************************)
EXTENDS Chat, FiniteSetTheorems, SequenceTheorems, TLAPS

RequestStates ==
    [pc : Pcs, browser : Browsers \cup {Idle.browser}, session : 0 .. MaxSends,
     conv : Nat, send : 0 .. MaxSends, turn : 0 .. MaxTurns, calls : Nat,
     prompt : Seq(Messages), shown : SUBSET Messages, fresh : BOOLEAN,
     ok : BOOLEAN]

\* A request that is in SendMessage, and one that has found its conversation.
Sending == {"lookup", "enter", "llm", "tools", "copy"}
Bound == Sending \ {"lookup"}

ReqTyped(q) ==
    /\ q \in RequestStates
    /\ q.pc \in Bound \cup {"filter"} => q.conv # NoConv
    /\ q.pc \in Sending =>
          q.session # NoSession /\ q.send # 0 /\ q.turn < MaxTurns /\ ~q.ok
    /\ q.ok => /\ q.session # NoSession /\ q.send # 0
               /\ q.pc = "show" => q.conv # NoConv

Lookups == {r \in Requests : req[r].pc = "lookup"}

\* Every send makes one session and one conversation at most.
Counted ==
    /\ nextID \in Nat /\ made \in Nat /\ sends \in Nat /\ restarts \in Nat
    /\ nextID <= sends /\ sends <= MaxSends
    /\ made + Cardinality(Lookups) <= sends

Tables ==
    /\ convs \in [Sessions -> 0 .. made]
    /\ evictor \in Sessions \cup {NoSession}
    /\ msgs \in [Convs -> Seq(Messages)]
    /\ lock \in [Convs -> {"free", "held", "poisoned"}]
    /\ stale \in [Convs -> BOOLEAN]
    /\ cookie \in [Browsers -> Sessions \cup {NoSession}]
    /\ forgotten \in [Sessions -> SUBSET Sends]
    /\ \A c \in Convs : c > made => msgs[c] = << >> /\ lock[c] = "free"

RequestsTyped ==
    /\ DOMAIN req = Requests /\ req = [r \in Requests |-> req[r]]
    /\ \A r \in Requests : ReqTyped(req[r]) /\ req[r].conv <= made

Typed == Counted /\ Tables /\ RequestsTyped

-----------------------------------------------------------------------------
(* What an action does to its request                                      *)

LEMMA MessageTyped ==
    ASSUME NEW n \in 0 .. MaxSends, NEW role \in {"system", "user", "tool", "answer"}
    PROVE  /\ Message(role, n) \in Messages
           /\ Message(role, n).role = role /\ Message(role, n).send = n
BY DEF Message, Messages, Message0

LEMMA CallsTyped ==
    ASSUME NEW n \in Sends, NEW k \in CallCounts
    PROVE  LET m == [role |-> "calls", send |-> n, calls |-> k]
           IN  m \in Messages /\ m.role = "calls" /\ m.send = n /\ m.calls = k
BY DEF Messages

LEMMA IdleTyped ==
    /\ ReqTyped(Idle)
    /\ Idle.pc = "idle" /\ Idle.session = NoSession /\ Idle.conv = NoConv
    /\ Idle.send = 0 /\ Idle.turn = 0 /\ ~Idle.ok /\ ~Idle.fresh
<1>1. MaxSends \in Nat /\ MaxTurns \in Nat
  BY BoundsAssumption
<1> QED
  BY <1>1 DEF Idle, ReqTyped, RequestStates, Sending, Bound, NoSession, NoConv, Pcs

\* One request moves.
Only(r) == DOMAIN req' = Requests /\ req' = [t \in Requests |-> req'[t]]
           /\ \A t \in Requests : t # r => req'[t] = req[t]

\* It serves the same send.
SameSend(r) ==
    /\ req'[r].session = req[r].session /\ req'[r].send = req[r].send
    /\ req'[r].browser = req[r].browser /\ req'[r].fresh = req[r].fresh

LEMMA OnlyOne ==
    ASSUME Typed, NEW r \in Requests, NEW x, req' = [req EXCEPT ![r] = x]
    PROVE  Only(r) /\ req'[r] = x
BY DEF Only, Typed, RequestsTyped

LEMMA SendFields ==
    ASSUME Typed, NEW r \in Requests, NEW b \in Browsers, Send(r, b)
    PROVE  /\ Only(r) /\ req[r].pc = "idle" /\ ReqTyped(req'[r])
           /\ req'[r].pc = "lookup" /\ req'[r].browser = b
           /\ req'[r].send = sends + 1 /\ req'[r].conv = NoConv
           /\ \/ /\ cookie[b] = NoSession /\ req'[r].fresh
                 /\ req'[r].session = nextID + 1 /\ nextID' = nextID + 1
              \/ /\ cookie[b] # NoSession /\ ~req'[r].fresh
                 /\ req'[r].session = cookie[b] /\ nextID' = nextID
<1>1. /\ MaxSends \in Nat /\ MaxTurns \in Nat /\ MaxTurns > 0 /\ sends \in Nat
      /\ nextID \in Nat /\ nextID <= sends /\ sends < MaxSends
      /\ cookie[b] \in Sessions \cup {NoSession}
  BY BoundsAssumption DEF Typed, Counted, Tables, Send
<1>2. /\ Idle \in RequestStates /\ Idle.turn = 0 /\ ~Idle.ok /\ Idle.conv = NoConv
      /\ Idle.fresh = FALSE
  BY IdleTyped DEF ReqTyped, Idle
<1>3. PICK s \in Sessions, f \in BOOLEAN :
         /\ req' = [req EXCEPT ![r] = [Idle EXCEPT !.pc = "lookup", !.browser = b,
                       !.session = s, !.send = sends + 1, !.fresh = f]]
         /\ \/ /\ cookie[b] = NoSession /\ f = TRUE
               /\ s = nextID + 1 /\ nextID' = nextID + 1
            \/ /\ cookie[b] # NoSession /\ f = FALSE
               /\ s = cookie[b] /\ nextID' = nextID
  <2> HIDE DEF Idle
  <2>1. CASE cookie[b] = NoSession
    <3>1. nextID + 1 \in Sessions
      BY <1>1 DEF Sessions
    <3> QED
      BY <2>1, <3>1 DEF Send, NewSession
  <2>2. CASE cookie[b] # NoSession
    <3>1. req' = [req EXCEPT ![r] = [Idle EXCEPT !.pc = "lookup", !.browser = b,
                          !.session = cookie[b], !.send = sends + 1]]
      BY <2>2 DEF Send
    <3>2. [Idle EXCEPT !.pc = "lookup", !.browser = b, !.session = cookie[b],
                       !.send = sends + 1]
            = [Idle EXCEPT !.pc = "lookup", !.browser = b, !.session = cookie[b],
                           !.send = sends + 1, !.fresh = FALSE]
      BY <1>2 DEF RequestStates
    <3>3. cookie[b] \in Sessions /\ nextID' = nextID
      BY <1>1, <2>2 DEF Send
    <3> QED
      BY <2>2, <3>1, <3>2, <3>3
  <2> QED
    BY <2>1, <2>2
<1> HIDE DEF Idle
<1> DEFINE x == [Idle EXCEPT !.pc = "lookup", !.browser = b, !.session = s,
                             !.send = sends + 1, !.fresh = f]
<1>4. s \in 0 .. MaxSends /\ s # 0 /\ sends + 1 \in 0 .. MaxSends /\ sends + 1 # 0
  BY <1>1 DEF Sessions
<1>5. /\ x \in RequestStates /\ x.pc = "lookup" /\ x.browser = b
      /\ x.send = sends + 1 /\ x.conv = NoConv /\ x.session = s /\ x.fresh = f
      /\ x.turn = 0 /\ ~x.ok
  BY <1>2, <1>4 DEF RequestStates, Pcs
<1>6. Only(r) /\ req'[r] = x
  BY <1>3, OnlyOne
<1> HIDE DEF x
<1>7. ReqTyped(x)
  BY <1>1, <1>4, <1>5 DEF ReqTyped, Sending, Bound, NoSession, NoConv
<1>8. req[r].pc = "idle"
  BY DEF Send
<1> QED
  BY <1>3, <1>5, <1>6, <1>7, <1>8
LEMMA CountsAreNumbers ==
    ASSUME Typed
    PROVE  /\ IsFiniteSet(Requests) /\ IsFiniteSet(Lookups)
           /\ Cardinality(Lookups) \in Nat /\ made <= sends /\ made \in 0 .. MaxSends
           /\ MaxSends \in Nat /\ MaxTurns \in Nat
<1>1. IsFiniteSet(Requests) /\ MaxSends \in Nat /\ MaxTurns \in Nat
  BY BoundsAssumption
<1>2. IsFiniteSet(Lookups)
  BY <1>1, FS_Subset DEF Lookups
<1>3. Cardinality(Lookups) \in Nat
  BY <1>2, FS_CardinalityType
<1> QED
  BY <1>1, <1>2, <1>3 DEF Typed, Counted

LEMMA ConvTyped ==
    ASSUME Typed, NEW r \in Requests
    PROVE  /\ req[r] \in RequestStates /\ req[r].conv \in 0 .. made
           /\ req[r].conv # NoConv => req[r].conv \in Convs
           /\ req[r].session # NoSession => req[r].session \in Sessions
           /\ req[r].send # 0 => req[r].send \in Sends
<1>1. req[r] \in RequestStates /\ req[r].conv <= made
  BY DEF Typed, RequestsTyped, ReqTyped
<1>2. /\ req[r].conv \in Nat /\ req[r].session \in 0 .. MaxSends
      /\ req[r].send \in 0 .. MaxSends
  BY <1>1 DEF RequestStates
<1> QED
  BY <1>1, <1>2, CountsAreNumbers DEF Convs, Sessions, Sends, NoConv, NoSession

LEMMA PageFields ==
    ASSUME Typed, NEW r \in Requests, NEW b \in Browsers, Page(r, b)
    PROVE  /\ Only(r) /\ req[r].pc = "idle" /\ ReqTyped(req'[r])
           /\ req'[r].pc = "show" /\ req'[r].browser = b
           /\ req'[r].session = cookie[b] /\ req'[r].send = 0
           /\ req'[r].conv = NoConv /\ ~req'[r].ok /\ ~req'[r].fresh
<1> DEFINE x == [Idle EXCEPT !.pc = "show", !.browser = b, !.session = cookie[b]]
<1>1. Only(r) /\ req'[r] = x /\ req[r].pc = "idle"
  BY OnlyOne DEF Page
<1>2. cookie[b] \in 0 .. MaxSends
  BY BoundsAssumption DEF Typed, Tables, Sessions, NoSession
<1>3. /\ Idle \in RequestStates /\ Idle.conv = NoConv /\ Idle.send = 0 /\ ~Idle.ok
      /\ ~Idle.fresh
  BY IdleTyped DEF ReqTyped
<1> HIDE DEF Idle
<1>4. /\ x \in RequestStates /\ x.pc = "show" /\ x.browser = b
      /\ x.session = cookie[b] /\ x.send = 0 /\ x.conv = NoConv /\ ~x.ok /\ ~x.fresh
  BY <1>2, <1>3 DEF RequestStates, Pcs
<1> HIDE DEF x
<1> QED
  BY <1>1, <1>4 DEF ReqTyped, Sending, Bound

LEMMA LookupFields ==
    ASSUME Typed, NEW r \in Requests, Lookup(r)
    PROVE  /\ Only(r) /\ SameSend(r) /\ ReqTyped(req'[r])
           /\ req[r].pc = "lookup" /\ req[r].session \in Sessions
           /\ req'[r].pc = "enter" /\ ~req'[r].ok
           /\ LET s == req[r].session IN
              \/ /\ convs[s] # NoConv /\ req'[r].conv = convs[s]
                 /\ UNCHANGED <<convs, made>>
              \/ /\ convs[s] = NoConv /\ req'[r].conv = made + 1
                 /\ made' = made + 1 /\ convs' = [convs EXCEPT ![s] = made + 1]
<1> DEFINE s == req[r].session
           c == IF convs[s] # NoConv THEN convs[s] ELSE made + 1
           x == [req[r] EXCEPT !.pc = "enter", !.conv = c]
<1>1. /\ req[r] \in RequestStates /\ ReqTyped(req[r]) /\ req[r].pc = "lookup"
      /\ s \in Sessions
  BY ConvTyped DEF Typed, RequestsTyped, ReqTyped, Sending, Lookup
<1>2. c \in Nat /\ c # NoConv
  BY <1>1, CountsAreNumbers DEF Typed, Tables, NoConv
<1>3. \/ convs[s] # NoConv /\ c = convs[s] /\ UNCHANGED <<convs, made>>
      \/ /\ convs[s] = NoConv /\ c = made + 1 /\ made' = made + 1
         /\ convs' = [convs EXCEPT ![s] = made + 1]
  BY DEF Lookup
<1>4. req' = [req EXCEPT ![r] = x]
  <2>1. \/ convs[s] # NoConv /\ req' = [req EXCEPT ![r].pc = "enter",
                                                   ![r].conv = convs[s]]
        \/ convs[s] = NoConv /\ req' = [req EXCEPT ![r].pc = "enter",
                                                   ![r].conv = made + 1]
    BY DEF Lookup
  <2> QED
    BY <2>1 DEF Typed, RequestsTyped
<1> HIDE DEF c
<1>5. /\ x \in RequestStates /\ x.pc = "enter" /\ x.conv = c
      /\ x.session = s /\ x.send = req[r].send /\ x.browser = req[r].browser
      /\ x.fresh = req[r].fresh /\ x.ok = req[r].ok /\ x.turn = req[r].turn
  BY <1>1, <1>2 DEF RequestStates, Pcs
<1>6. Only(r) /\ req'[r] = x
  BY <1>4, OnlyOne
<1> HIDE DEF x, s
<1>7. ReqTyped(x) /\ ~x.ok
  BY <1>1, <1>2, <1>5 DEF ReqTyped, Sending, Bound, s
<1> QED
  BY <1>1, <1>3, <1>5, <1>6, <1>7 DEF SameSend, s

\* The conversation that a request appends to, and what it appends.
Appends(r, m) ==
    LET c == req[r].conv IN
    /\ c \in Convs /\ msgs'[c] = Append(msgs[c], m)
    /\ \A d \in Convs : d # c => msgs'[d] = msgs[d]

LEMMA AppendsOne ==
    ASSUME Typed, NEW r \in Requests, req[r].conv # NoConv, NEW m \in Messages,
           msgs' = [msgs EXCEPT ![req[r].conv] = Append(@, m)]
    PROVE  Appends(r, m) /\ msgs' \in [Convs -> Seq(Messages)]
<1> DEFINE c == req[r].conv
<1>1. c \in Convs /\ msgs \in [Convs -> Seq(Messages)]
  BY ConvTyped DEF Typed, Tables
<1>2. Append(msgs[c], m) \in Seq(Messages)
  BY <1>1
<1> QED
  BY <1>1, <1>2 DEF Appends

LEMMA EnterFields ==
    ASSUME Typed, NEW r \in Requests, Enter(r)
    PROVE  LET c == req[r].conv
               user == Message("user", req[r].send)
           IN /\ Only(r) /\ SameSend(r) /\ ReqTyped(req'[r])
              /\ c \in Convs /\ lock[c] = "free"
              /\ req[r].pc = "enter" /\ req'[r].pc = "llm"
              /\ req'[r].conv = c /\ ~req'[r].ok /\ req'[r].prompt = msgs'[c]
              /\ msgs' \in [Convs -> Seq(Messages)] /\ user \in Messages
              /\ \/ Appends(r, user) /\ msgs[c] # << >>
                 \/ /\ msgs[c] = << >>
                    /\ Len(msgs'[c]) = 2 /\ msgs'[c][2] = user
                    /\ msgs'[c][1] = Message("system", 0)
                    /\ \A d \in Convs : d # c => msgs'[d] = msgs[d]
<1> DEFINE c == req[r].conv
           user == Message("user", req[r].send)
           x == [req[r] EXCEPT !.pc = "llm", !.prompt = msgs'[c]]
<1>1. /\ req[r] \in RequestStates /\ ReqTyped(req[r]) /\ req[r].pc = "enter"
      /\ c \in Convs /\ msgs \in [Convs -> Seq(Messages)] /\ lock[c] = "free"
      /\ req[r].send \in 0 .. MaxSends
  BY ConvTyped DEF Typed, RequestsTyped, Tables, ReqTyped, Bound, Sending, Enter,
                   RequestStates
<1>2. user \in Messages /\ Message("system", 0) \in Messages
  BY <1>1, CountsAreNumbers, MessageTyped
<1> HIDE DEF user
<1>3. msgs' = [msgs EXCEPT ![c] = msgs[c] \o
                  (IF msgs[c] = << >> THEN << Message("system", 0) >> ELSE << >>)
                  \o << user >>]
  BY <1>1 DEF Enter, user
<1>4. /\ msgs' \in [Convs -> Seq(Messages)]
      /\ \A d \in Convs : d # c => msgs'[d] = msgs[d]
      /\ \/ msgs[c] # << >> /\ msgs'[c] = Append(msgs[c], user)
         \/ /\ msgs[c] = << >> /\ Len(msgs'[c]) = 2 /\ msgs'[c][2] = user
            /\ msgs'[c][1] = Message("system", 0)
  <2>1. CASE msgs[c] # << >>
    <3>1. msgs[c] \o << >> \o << user >> = Append(msgs[c], user)
      <4>1. msgs[c] \in Seq(Messages)
        BY <1>1
      <4>2. msgs[c] \o << >> = msgs[c]
        BY <4>1, ConcatEmptySeq
      <4>3. msgs[c] \o << user >> = Append(msgs[c], user)
        BY <1>2, <4>1, AppendIsConcat
      <4> QED
        BY <4>2, <4>3
    <3>2. msgs' = [msgs EXCEPT ![c] = Append(msgs[c], user)]
      BY <1>3, <2>1, <3>1
    <3> QED
      BY <1>1, <1>2, <2>1, <3>2
  <2>2. CASE msgs[c] = << >>
    <3> DEFINE m == Message("system", 0)
    <3>1. m \in Messages /\ << m >> \in Seq(Messages)
      BY <1>2
    <3> HIDE DEF m
    <3>2. << >> \o << m >> = << m >>
      BY <3>1, ConcatEmptySeq
    <3>3. << m >> \o << user >> = Append(<< m >>, user)
      BY <1>2, <3>1, AppendIsConcat
    <3>4. LET p == Append(<< m >>, user)
          IN  p \in Seq(Messages) /\ Len(p) = 2 /\ p[1] = m /\ p[2] = user
      BY <1>2, <3>1
    <3>5. msgs' = [msgs EXCEPT ![c] = Append(<< m >>, user)]
      BY <1>3, <2>2, <3>2, <3>3 DEF m
    <3> QED
      BY <1>1, <2>2, <3>4, <3>5 DEF m
  <2> QED
    BY <2>1, <2>2
<1>5. Only(r) /\ req'[r] = x
  <2>1. req' = [req EXCEPT ![r].pc = "llm", ![r].prompt = msgs'[c]]
    BY DEF Enter
  <2>2. req' = [req EXCEPT ![r] = x]
    BY <2>1 DEF Typed, RequestsTyped
  <2> QED
    BY <2>2, OnlyOne
<1>6. msgs'[c] \in Seq(Messages)
  BY <1>1, <1>4
<1>7. /\ x \in RequestStates /\ x.pc = "llm" /\ x.prompt = msgs'[c] /\ x.conv = c
      /\ x.session = req[r].session /\ x.send = req[r].send
      /\ x.browser = req[r].browser /\ x.fresh = req[r].fresh
      /\ x.ok = req[r].ok /\ x.turn = req[r].turn
  BY <1>1, <1>6 DEF RequestStates, Pcs
<1> HIDE DEF x
<1>8. ReqTyped(x) /\ ~x.ok
  BY <1>1, <1>7 DEF ReqTyped, Sending, Bound
<1>9. Appends(r, user) <=> msgs'[c] = Append(msgs[c], user)
  BY <1>1, <1>4 DEF Appends
<1> HIDE DEF c
<1>10. /\ Only(r) /\ SameSend(r) /\ ReqTyped(req'[r])
       /\ req'[r].pc = "llm" /\ req'[r].conv = c /\ ~req'[r].ok
       /\ req'[r].prompt = msgs'[c]
  BY <1>5, <1>7, <1>8 DEF SameSend
<1> QED
  BY <1>1, <1>2, <1>4, <1>9, <1>10 DEF c, user
\* A request that is thinking, running tools or copying has a conversation.
LEMMA BoundTyped ==
    ASSUME Typed, NEW r \in Requests, req[r].pc \in Bound
    PROVE  /\ req[r].conv \in Convs /\ req[r].conv # NoConv
           /\ req[r].session \in Sessions /\ req[r].send \in Sends
           /\ req[r].session # NoSession /\ req[r].send # 0
           /\ req[r].turn < MaxTurns /\ ~req[r].ok /\ req[r] \in RequestStates
           /\ req[r].send \in 0 .. MaxSends /\ req[r].turn \in 0 .. MaxTurns
           /\ req[r].calls \in Nat /\ msgs \in [Convs -> Seq(Messages)]
           /\ msgs[req[r].conv] \in Seq(Messages)
<1>1. /\ req[r] \in RequestStates /\ req[r].conv # NoConv /\ req[r].session # NoSession
      /\ req[r].send # 0 /\ req[r].turn < MaxTurns /\ ~req[r].ok
  BY DEF Typed, RequestsTyped, ReqTyped, Bound
<1>2. /\ req[r].conv \in Convs /\ req[r].session \in Sessions /\ req[r].send \in Sends
  BY <1>1, ConvTyped
<1>3. msgs \in [Convs -> Seq(Messages)]
  BY DEF Typed, Tables
<1> QED
  BY <1>1, <1>2, <1>3 DEF RequestStates

\* The next step of a SendMessage.
LEMMA NextTyped ==
    ASSUME Typed, NEW r \in Requests, req[r].pc \in Bound,
           NEW x \in RequestStates, x.conv = req[r].conv,
           x.session = req[r].session, x.send = req[r].send,
           \/ x.pc \in Bound /\ ~x.ok /\ x.turn < MaxTurns
           \/ x.pc \in {"show", "respond"}
    PROVE  ReqTyped(x)
BY BoundTyped DEF ReqTyped, Sending, Bound

LEMMA LLMFailsFields ==
    ASSUME Typed, NEW r \in Requests, LLMFails(r)
    PROVE  /\ Only(r) /\ SameSend(r) /\ ReqTyped(req'[r])
           /\ req[r].pc = "llm" /\ req'[r].pc = "respond"
           /\ req'[r].conv = req[r].conv /\ ~req'[r].ok
<1> DEFINE none == << >>
           x == [req[r] EXCEPT !.pc = "respond", !.prompt = none]
<1>1. req[r].pc = "llm" /\ req[r].pc \in Bound
  BY DEF LLMFails, Bound, Sending
<1>2. req[r] \in RequestStates /\ ~req[r].ok
  BY <1>1, BoundTyped
<1>3. req' = [req EXCEPT ![r] = [req[r] EXCEPT !.pc = "respond", !.prompt = << >>]]
  BY DEF LLMFails, Typed, RequestsTyped
<1>4. req' = [req EXCEPT ![r] = x]
  BY <1>2, <1>3 DEF RequestStates
<1>5. Only(r) /\ req'[r] = x
  BY <1>4, OnlyOne
<1>6. /\ x \in RequestStates /\ x.pc = "respond" /\ x.conv = req[r].conv
      /\ x.session = req[r].session /\ x.send = req[r].send
      /\ x.browser = req[r].browser /\ x.fresh = req[r].fresh /\ x.ok = req[r].ok
  <2>1. none \in Seq(Messages)
    OBVIOUS
  <2> HIDE DEF none
  <2> QED
    BY <1>2, <2>1 DEF RequestStates, Pcs
<1> HIDE DEF x
<1>7. ReqTyped(x)
  BY <1>1, <1>6, NextTyped
<1> QED
  BY <1>1, <1>2, <1>5, <1>6, <1>7 DEF SameSend

LEMMA LLMAnswersFields ==
    ASSUME Typed, NEW r \in Requests, LLMAnswers(r)
    PROVE  /\ Only(r) /\ SameSend(r) /\ ReqTyped(req'[r])
           /\ req[r].pc = "llm" /\ req'[r].pc = "show"
           /\ req'[r].conv = req[r].conv /\ req'[r].ok
           /\ lock[req[r].conv] = "free"
           /\ Appends(r, Message("answer", req[r].send))
           /\ msgs' \in [Convs -> Seq(Messages)]
<1> DEFINE none == << >>
           x == [req[r] EXCEPT !.pc = "show", !.ok = TRUE, !.prompt = none]
           m == Message("answer", req[r].send)
<1>1. req[r].pc = "llm" /\ req[r].pc \in Bound /\ lock[req[r].conv] = "free"
  BY DEF LLMAnswers, Bound, Sending
<1>2. req[r] \in RequestStates /\ req[r].conv # NoConv /\ req[r].send \in 0 .. MaxSends
  BY <1>1, BoundTyped
<1>3. /\ req' = [req EXCEPT ![r] = [req[r] EXCEPT !.pc = "show", !.ok = TRUE,
                                                   !.prompt = << >>]]
      /\ msgs' = [msgs EXCEPT ![req[r].conv] = Append(@, m)]
  BY DEF LLMAnswers, Typed, RequestsTyped
<1>4. req' = [req EXCEPT ![r] = x]
  BY <1>2, <1>3 DEF RequestStates
<1>5. Only(r) /\ req'[r] = x
  BY <1>4, OnlyOne
<1>6. m \in Messages
  BY <1>2, MessageTyped
<1> HIDE DEF m
<1>7. Appends(r, m) /\ msgs' \in [Convs -> Seq(Messages)]
  BY <1>2, <1>3, <1>6, AppendsOne
<1>8. /\ x \in RequestStates /\ x.pc = "show" /\ x.conv = req[r].conv
      /\ x.session = req[r].session /\ x.send = req[r].send
      /\ x.browser = req[r].browser /\ x.fresh = req[r].fresh /\ x.ok
  <2>1. none \in Seq(Messages)
    OBVIOUS
  <2> HIDE DEF none
  <2> QED
    BY <1>2, <2>1 DEF RequestStates, Pcs
<1> HIDE DEF x
<1>9. ReqTyped(x)
  BY <1>1, <1>8, NextTyped
<1> QED
  BY <1>1, <1>5, <1>7, <1>8, <1>9 DEF SameSend, m

LEMMA LLMCallsFields ==
    ASSUME Typed, NEW r \in Requests, NEW n \in CallCounts, LLMCalls(r, n)
    PROVE  LET m == [role |-> "calls", send |-> req[r].send, calls |-> n]
               c == req[r].conv
           IN  /\ Only(r) /\ SameSend(r) /\ ReqTyped(req'[r])
               /\ req[r].pc = "llm" /\ req'[r].pc = "tools" /\ req'[r].calls = n
               /\ req'[r].conv = c /\ ~req'[r].ok
               /\ lock[c] = "free" /\ lock' = [lock EXCEPT ![c] = "held"]
               /\ Appends(r, m) /\ m \in Messages /\ n \in Nat \ {0}
               /\ msgs' \in [Convs -> Seq(Messages)]
<1> DEFINE m == [role |-> "calls", send |-> req[r].send, calls |-> n]
           none == << >>
           x == [req[r] EXCEPT !.pc = "tools", !.calls = n, !.prompt = none]
<1>1. /\ req[r].pc = "llm" /\ req[r].pc \in Bound /\ lock[req[r].conv] = "free"
      /\ lock' = [lock EXCEPT ![req[r].conv] = "held"]
  BY DEF LLMCalls, Bound, Sending
<1>2. /\ req[r] \in RequestStates /\ req[r].conv # NoConv /\ req[r].send \in Sends
      /\ ~req[r].ok /\ req[r].turn < MaxTurns
  BY <1>1, BoundTyped
<1>3. /\ req' = [req EXCEPT ![r] = [req[r] EXCEPT !.pc = "tools", !.calls = n,
                                                   !.prompt = << >>]]
      /\ msgs' = [msgs EXCEPT ![req[r].conv] = Append(@, m)]
  BY DEF LLMCalls, Typed, RequestsTyped
<1>4. req' = [req EXCEPT ![r] = x]
  BY <1>2, <1>3 DEF RequestStates
<1>5. Only(r) /\ req'[r] = x
  BY <1>4, OnlyOne
<1>6. m \in Messages /\ n \in Nat \ {0}
  BY <1>2, CallsTyped, BoundsAssumption
<1> HIDE DEF m
<1>7. Appends(r, m) /\ msgs' \in [Convs -> Seq(Messages)]
  BY <1>2, <1>3, <1>6, AppendsOne
<1>8. /\ x \in RequestStates /\ x.pc = "tools" /\ x.conv = req[r].conv
      /\ x.session = req[r].session /\ x.send = req[r].send /\ x.calls = n
      /\ x.browser = req[r].browser /\ x.fresh = req[r].fresh /\ x.ok = req[r].ok
      /\ x.turn = req[r].turn
  <2>1. none \in Seq(Messages)
    OBVIOUS
  <2> HIDE DEF none
  <2> QED
    BY <1>2, <1>6, <2>1 DEF RequestStates, Pcs
<1> HIDE DEF x
<1>9. ReqTyped(x)
  BY <1>1, <1>2, <1>8, NextTyped DEF Bound, Sending
<1> QED
  BY <1>1, <1>2, <1>5, <1>6, <1>7, <1>8, <1>9 DEF SameSend, m

LEMMA ToolFields ==
    ASSUME Typed, NEW r \in Requests, Tool(r)
    PROVE  /\ Only(r) /\ SameSend(r) /\ ReqTyped(req'[r])
           /\ req[r].pc = "tools" /\ req'[r].pc = "tools"
           /\ req[r].calls \in Nat \ {0} /\ req'[r].calls = req[r].calls - 1
           /\ req'[r].conv = req[r].conv /\ ~req'[r].ok
           /\ Appends(r, Message("tool", req[r].send))
           /\ msgs' \in [Convs -> Seq(Messages)]
<1> DEFINE x == [req[r] EXCEPT !.calls = req[r].calls - 1]
           m == Message("tool", req[r].send)
<1>1. req[r].pc = "tools" /\ req[r].pc \in Bound /\ req[r].calls > 0
  BY DEF Tool, Bound, Sending
<1>2. /\ req[r] \in RequestStates /\ req[r].conv # NoConv /\ ~req[r].ok
      /\ req[r].send \in 0 .. MaxSends /\ req[r].calls \in Nat /\ req[r].turn < MaxTurns
  BY <1>1, BoundTyped
<1>3. /\ req' = [req EXCEPT ![r].calls = @ - 1]
      /\ msgs' = [msgs EXCEPT ![req[r].conv] = Append(@, m)]
  BY DEF Tool
<1>4. req' = [req EXCEPT ![r] = x]
  BY <1>3 DEF Typed, RequestsTyped
<1>5. Only(r) /\ req'[r] = x
  BY <1>4, OnlyOne
<1>6. m \in Messages
  BY <1>2, MessageTyped
<1> HIDE DEF m
<1>7. Appends(r, m) /\ msgs' \in [Convs -> Seq(Messages)]
  BY <1>2, <1>3, <1>6, AppendsOne
<1>8. /\ x \in RequestStates /\ x.pc = "tools" /\ x.conv = req[r].conv
      /\ x.session = req[r].session /\ x.send = req[r].send
      /\ x.calls = req[r].calls - 1 /\ x.turn = req[r].turn
      /\ x.browser = req[r].browser /\ x.fresh = req[r].fresh /\ x.ok = req[r].ok
  <2> DEFINE k == req[r].calls - 1
  <2>1. k \in Nat
    BY <1>1, <1>2
  <2> HIDE DEF k
  <2>2. x = [req[r] EXCEPT !.calls = k]
    BY DEF k
  <2>3. x \in RequestStates
    BY <1>2, <2>1, <2>2 DEF RequestStates
  <2> QED
    BY <1>1, <1>2, <2>2, <2>3 DEF RequestStates, k
<1> HIDE DEF x
<1>9. ReqTyped(x)
  BY <1>1, <1>2, <1>8, NextTyped DEF Bound, Sending
<1> QED
  BY <1>1, <1>2, <1>5, <1>7, <1>8, <1>9 DEF SameSend, m

LEMMA ToolsDoneFields ==
    ASSUME Typed, NEW r \in Requests, ToolsDone(r)
    PROVE  /\ Only(r) /\ SameSend(r) /\ ReqTyped(req'[r])
           /\ req[r].pc = "tools" /\ req'[r].pc = "copy" /\ req[r].calls = 0
           /\ req'[r].conv = req[r].conv /\ ~req'[r].ok
           /\ lock' = [lock EXCEPT ![req[r].conv] = "free"]
<1> DEFINE x == [req[r] EXCEPT !.pc = "copy"]
<1>1. /\ req[r].pc = "tools" /\ req[r].pc \in Bound /\ req[r].calls = 0
      /\ lock' = [lock EXCEPT ![req[r].conv] = "free"]
  BY DEF ToolsDone, Bound, Sending
<1>2. req[r] \in RequestStates /\ ~req[r].ok /\ req[r].turn < MaxTurns
  BY <1>1, BoundTyped
<1>3. req' = [req EXCEPT ![r] = x]
  BY DEF ToolsDone, Typed, RequestsTyped
<1>4. Only(r) /\ req'[r] = x
  BY <1>3, OnlyOne
<1>5. /\ x \in RequestStates /\ x.pc = "copy" /\ x.conv = req[r].conv
      /\ x.session = req[r].session /\ x.send = req[r].send /\ x.turn = req[r].turn
      /\ x.browser = req[r].browser /\ x.fresh = req[r].fresh /\ x.ok = req[r].ok
  BY <1>2 DEF RequestStates, Pcs
<1> HIDE DEF x
<1>6. ReqTyped(x)
  BY <1>1, <1>2, <1>5, NextTyped DEF Bound, Sending
<1> QED
  BY <1>1, <1>2, <1>4, <1>5, <1>6 DEF SameSend

LEMMA CopyFields ==
    ASSUME Typed, NEW r \in Requests, Copy(r)
    PROVE  /\ Only(r) /\ SameSend(r) /\ ReqTyped(req'[r])
           /\ req[r].pc = "copy" /\ req'[r].conv = req[r].conv /\ ~req'[r].ok
           /\ lock[req[r].conv] = "free"
           /\ \/ req'[r].pc = "llm" /\ req'[r].prompt = msgs[req[r].conv]
              \/ req'[r].pc = "show"
<1> DEFINE more == req[r].turn + 1 < MaxTurns
           p == IF more THEN msgs[req[r].conv] ELSE << >>
           next == IF more THEN "llm" ELSE "show"
           x == [req[r] EXCEPT !.turn = req[r].turn + 1, !.pc = next, !.prompt = p]
<1>1. req[r].pc = "copy" /\ req[r].pc \in Bound /\ lock[req[r].conv] = "free"
  BY DEF Copy, Bound, Sending
<1>2. /\ req[r] \in RequestStates /\ ~req[r].ok /\ req[r].turn < MaxTurns
      /\ req[r].turn \in 0 .. MaxTurns /\ msgs[req[r].conv] \in Seq(Messages)
  BY <1>1, BoundTyped
<1>3. req' = [req EXCEPT ![r].turn = @ + 1, ![r].pc = next, ![r].prompt = p]
  BY DEF Copy
<1>4. /\ next \in {"llm", "show"} /\ p \in Seq(Messages)
      /\ next = "llm" => p = msgs[req[r].conv] /\ req[r].turn + 1 < MaxTurns
      /\ req[r].turn + 1 \in 0 .. MaxTurns
  BY <1>2, BoundsAssumption
<1> HIDE DEF next, p
<1>5. req' = [req EXCEPT ![r] = x]
  BY <1>3 DEF Typed, RequestsTyped
<1>6. Only(r) /\ req'[r] = x
  BY <1>5, OnlyOne
<1>7. /\ x \in RequestStates /\ x.pc = next /\ x.conv = req[r].conv /\ x.prompt = p
      /\ x.session = req[r].session /\ x.send = req[r].send
      /\ x.turn = req[r].turn + 1
      /\ x.browser = req[r].browser /\ x.fresh = req[r].fresh /\ x.ok = req[r].ok
  BY <1>2, <1>4 DEF RequestStates, Pcs
<1> HIDE DEF x
<1>8. ReqTyped(x)
  BY <1>1, <1>2, <1>4, <1>7, NextTyped DEF Bound, Sending
<1> QED
  BY <1>1, <1>2, <1>4, <1>6, <1>7, <1>8 DEF SameSend

\* From show on, only the conversation that is shown and what of it matter.
LEMMA ShowTyped ==
    ASSUME Typed, NEW r \in Requests, req[r].pc \in {"show", "filter"},
           NEW x \in RequestStates, x.pc \in {"filter", "respond"},
           x.session = req[r].session, x.send = req[r].send, x.ok = req[r].ok,
           x.pc = "filter" => x.conv # NoConv
    PROVE  ReqTyped(x)
BY DEF ReqTyped, Sending, Bound, Typed, RequestsTyped

LEMMA ShowFields ==
    ASSUME Typed, NEW r \in Requests, Show(r)
    PROVE  LET s == req[r].session
               c == IF s = NoSession THEN NoConv ELSE convs[s]
           IN  /\ Only(r) /\ SameSend(r) /\ ReqTyped(req'[r]) /\ c \in 0 .. made
               /\ req[r].pc = "show" /\ req'[r].ok = req[r].ok /\ req'[r].conv = c
               /\ req'[r].pc = IF c = NoConv THEN "respond" ELSE "filter"
<1> DEFINE s == req[r].session
           c == IF s = NoSession THEN NoConv ELSE convs[s]
           next == IF c = NoConv THEN "respond" ELSE "filter"
           x == [req[r] EXCEPT !.conv = c, !.pc = next]
<1>1. req[r].pc = "show" /\ req' = [req EXCEPT ![r].conv = c, ![r].pc = next]
  BY DEF Show
<1>2. req[r] \in RequestStates /\ c \in 0 .. made /\ c \in Nat
  BY ConvTyped, CountsAreNumbers DEF Typed, Tables, NoConv
<1>3. next \in {"respond", "filter"} /\ (next = "filter" => c # NoConv)
  OBVIOUS
<1> HIDE DEF c, next
<1>4. req' = [req EXCEPT ![r] = x]
  BY <1>1 DEF Typed, RequestsTyped
<1>5. Only(r) /\ req'[r] = x
  BY <1>4, OnlyOne
<1>6. /\ x \in RequestStates /\ x.pc = next /\ x.conv = c
      /\ x.session = req[r].session /\ x.send = req[r].send
      /\ x.browser = req[r].browser /\ x.fresh = req[r].fresh /\ x.ok = req[r].ok
  BY <1>2, <1>3 DEF RequestStates, Pcs
<1> HIDE DEF x
<1>7. ReqTyped(x)
  BY <1>1, <1>3, <1>6, ShowTyped
<1> QED
  BY <1>1, <1>2, <1>5, <1>6, <1>7 DEF SameSend, c, next

LEMMA FilterFields ==
    ASSUME Typed, NEW r \in Requests, Filter(r)
    PROVE  /\ Only(r) /\ SameSend(r) /\ ReqTyped(req'[r])
           /\ req[r].pc = "filter" /\ req'[r].pc = "respond"
           /\ req[r].conv \in Convs /\ lock[req[r].conv] = "free"
           /\ req'[r].ok = req[r].ok /\ req'[r].conv = req[r].conv
           /\ \A i \in DOMAIN msgs[req[r].conv] :
                 msgs[req[r].conv][i].role \in {"user", "answer"} =>
                    msgs[req[r].conv][i] \in req'[r].shown
<1> DEFINE c == req[r].conv
           all == {msgs[c][i] : i \in DOMAIN msgs[c]}
           seen == {m \in all : m.role \in {"user", "answer"}}
           x == [req[r] EXCEPT !.pc = "respond", !.shown = seen]
<1>1. /\ req[r].pc = "filter" /\ lock[c] = "free"
      /\ req' = [req EXCEPT ![r].pc = "respond", ![r].shown = seen]
  BY DEF Filter
<1>2. /\ req[r] \in RequestStates /\ c \in Convs
  BY <1>1, ConvTyped DEF Typed, RequestsTyped, ReqTyped
<1>3. seen \in SUBSET Messages
  <2>1. msgs[c] \in Seq(Messages)
    BY <1>2 DEF Typed, Tables
  <2> QED
    BY <2>1
<1>4. \A i \in DOMAIN msgs[c] : msgs[c][i].role \in {"user", "answer"} =>
         msgs[c][i] \in seen
  OBVIOUS
<1> HIDE DEF seen
<1>5. req' = [req EXCEPT ![r] = x]
  BY <1>1 DEF Typed, RequestsTyped
<1>6. Only(r) /\ req'[r] = x
  BY <1>5, OnlyOne
<1>7. /\ x \in RequestStates /\ x.pc = "respond" /\ x.conv = c /\ x.shown = seen
      /\ x.session = req[r].session /\ x.send = req[r].send
      /\ x.browser = req[r].browser /\ x.fresh = req[r].fresh /\ x.ok = req[r].ok
  BY <1>2, <1>3 DEF RequestStates, Pcs
<1> HIDE DEF x
<1>8. ReqTyped(x)
  BY <1>1, <1>7, ShowTyped
<1> QED
  BY <1>1, <1>2, <1>4, <1>6, <1>7, <1>8 DEF SameSend

LEMMA EndFields ==
    ASSUME Typed, NEW r \in Requests, Respond(r) \/ ToolPanics(r)
    PROVE  Only(r) /\ ReqTyped(req'[r]) /\ req'[r] = Idle
<1>1. Only(r) /\ req'[r] = Idle
  BY OnlyOne DEF Respond, ToolPanics
<1> QED
  BY <1>1, IdleTyped

\* No step of a request touches another one, and only the last touches the
\* send that the request serves.
LEMMA StepsAreLocal ==
    ASSUME Typed, NEW r \in Requests, Step(r)
    PROVE  Only(r) /\ (SameSend(r) \/ Respond(r))
<1>1. CASE Lookup(r) \/ Enter(r)
  BY <1>1, LookupFields, EnterFields
<1>2. CASE LLMFails(r) \/ LLMAnswers(r)
  BY <1>2, LLMFailsFields, LLMAnswersFields
<1>3. CASE \E n \in CallCounts : LLMCalls(r, n)
  BY <1>3, LLMCallsFields
<1>4. CASE Tool(r) \/ ToolsDone(r)
  BY <1>4, ToolFields, ToolsDoneFields
<1>5. CASE Copy(r)
  BY <1>5, CopyFields
<1>6. CASE Show(r) \/ Filter(r)
  BY <1>6, ShowFields, FilterFields
<1>7. CASE Respond(r)
  BY <1>7, EndFields
<1> QED
  BY <1>1, <1>2, <1>3, <1>4, <1>5, <1>6, <1>7 DEF Step

-----------------------------------------------------------------------------
(* Types and counts                                                        *)

LEMMA RequestsStayTyped ==
    ASSUME Typed, NEW r \in Requests, Only(r), ReqTyped(req'[r]),
           made' \in Nat, made <= made', req'[r].conv <= made'
    PROVE  RequestsTyped'
<1> SUFFICES ASSUME NEW t \in Requests
             PROVE  ReqTyped(req'[t]) /\ req'[t].conv <= made'
  BY DEF RequestsTyped, Only
<1>1. CASE t = r
  BY <1>1
<1>2. CASE t # r
  <2>1. req'[t] = req[t] /\ ReqTyped(req[t]) /\ req[t].conv <= made
    BY <1>2 DEF Only, Typed, RequestsTyped
  <2>2. req[t].conv \in Nat /\ made \in Nat
    BY ConvTyped, CountsAreNumbers
  <2> QED
    BY <2>1, <2>2
<1> QED
  BY <1>1, <1>2

LEMMA LookupsMove ==
    ASSUME Typed, NEW r \in Requests, Only(r)
    PROVE  LET k == Cardinality(Lookups) IN
           /\ (req[r].pc = "lookup" <=> req'[r].pc = "lookup")
                 => Cardinality(Lookups') = k
           /\ req[r].pc # "lookup" => Cardinality(Lookups') <= k + 1
           /\ req[r].pc = "lookup" /\ req'[r].pc # "lookup"
                 => Cardinality(Lookups') = k - 1
<1>1. IsFiniteSet(Lookups) /\ Cardinality(Lookups) \in Nat
  BY CountsAreNumbers
<1>2. ASSUME req[r].pc = "lookup" <=> req'[r].pc = "lookup"
      PROVE  Lookups' = Lookups
  BY <1>2 DEF Lookups, Only
<1>3. ASSUME req[r].pc # "lookup", req'[r].pc = "lookup"
      PROVE  Lookups' = Lookups \cup {r} /\ r \notin Lookups
  BY <1>3 DEF Lookups, Only
<1>4. ASSUME req[r].pc = "lookup", req'[r].pc # "lookup"
      PROVE  Lookups' = Lookups \ {r} /\ r \in Lookups
  BY <1>4 DEF Lookups, Only
<1>5. Cardinality(Lookups \cup {r}) <= Cardinality(Lookups) + 1
  <2>1. Cardinality(Lookups \cup {r}) =
           IF r \in Lookups THEN Cardinality(Lookups) ELSE Cardinality(Lookups) + 1
    BY <1>1, FS_AddElement
  <2> QED
    BY <1>1, <2>1
<1>6. r \in Lookups => Cardinality(Lookups \ {r}) = Cardinality(Lookups) - 1
  BY <1>1, FS_RemoveElement
<1>7. CASE req[r].pc = "lookup" <=> req'[r].pc = "lookup"
  BY <1>1, <1>2, <1>7
<1>8. CASE req[r].pc # "lookup" /\ req'[r].pc = "lookup"
  BY <1>1, <1>3, <1>5, <1>8
<1>9. CASE req[r].pc = "lookup" /\ req'[r].pc # "lookup"
  BY <1>1, <1>4, <1>6, <1>9
<1> QED
  BY <1>7, <1>8, <1>9

\* A step of a request that makes no send and no conversation.
LEMMA StaysCounted ==
    ASSUME Typed, NEW r \in Requests, Only(r), ReqTyped(req'[r]),
           UNCHANGED <<nextID, made, sends, restarts>>,
           req'[r].pc # "lookup", req'[r].conv \in 0 .. made
    PROVE  Counted' /\ RequestsTyped'
<1>1. /\ Cardinality(Lookups) \in Nat /\ made <= sends /\ made \in 0 .. MaxSends
      /\ MaxSends \in Nat
  BY CountsAreNumbers
<1>2. \/ Cardinality(Lookups') = Cardinality(Lookups)
      \/ Cardinality(Lookups') = Cardinality(Lookups) - 1
  BY LookupsMove
<1>3. Counted'
  BY <1>1, <1>2 DEF Typed, Counted
<1>4. RequestsTyped'
  BY <1>1, RequestsStayTyped
<1> QED
  BY <1>3, <1>4

LEMMA TypedInit == Init => Typed
<1> SUFFICES ASSUME Init PROVE Typed
  OBVIOUS
<1>1. MaxSends \in Nat /\ IsFiniteSet(Requests)
  BY BoundsAssumption
<1>2. \A r \in Requests : req[r] = Idle
  BY DEF Init
<1>3. Lookups = {}
  BY <1>2, IdleTyped DEF Lookups
<1>4. Counted
  BY <1>1, <1>3, FS_EmptySet DEF Counted, Init
<1>5. Tables
  <2> DEFINE none == << >>
  <2>1. none \in Seq(Messages)
    OBVIOUS
  <2>2. msgs = [c \in Convs |-> none]
    BY DEF Init
  <2> HIDE DEF none
  <2>3. msgs \in [Convs -> Seq(Messages)]
    BY <2>1, <2>2
  <2>4. \A c \in Convs : msgs[c] = << >>
    BY <2>2 DEF none
  <2>5. /\ convs \in [Sessions -> 0 .. made] /\ evictor = NoSession
        /\ lock \in [Convs -> {"free", "held", "poisoned"}]
        /\ stale \in [Convs -> BOOLEAN]
        /\ cookie \in [Browsers -> Sessions \cup {NoSession}]
        /\ forgotten \in [Sessions -> SUBSET Sends]
        /\ \A c \in Convs : lock[c] = "free"
    BY DEF Init, NoConv
  <2> QED
    BY <2>3, <2>4, <2>5 DEF Tables
<1>6. RequestsTyped
  <2>1. DOMAIN req = Requests /\ req = [r \in Requests |-> req[r]] /\ made = 0
    BY DEF Init
  <2> QED
    BY <1>2, <2>1, IdleTyped DEF RequestsTyped, NoConv
<1> QED
  BY <1>4, <1>5, <1>6 DEF Typed

LEMMA TypedNext == Typed /\ [Next]_vars => Typed'
<1> SUFFICES ASSUME Typed, [Next]_vars PROVE Typed'
  OBVIOUS
<1>t. /\ Counted /\ Tables /\ RequestsTyped /\ made \in 0 .. MaxSends
      /\ MaxSends \in Nat /\ IsFiniteSet(Requests) /\ made <= sends
      /\ Cardinality(Lookups) \in Nat
  BY CountsAreNumbers DEF Typed
<1> USE DEF bounds
<1>1. ASSUME NEW r \in Requests, NEW b \in Browsers, Send(r, b) PROVE Typed'
  <2>1. /\ Only(r) /\ ReqTyped(req'[r]) /\ req[r].pc = "idle"
        /\ req'[r].conv = NoConv /\ nextID' \in {nextID, nextID + 1}
    BY <1>1, SendFields
  <2>2. /\ sends < MaxSends /\ sends' = sends + 1
        /\ UNCHANGED <<convs, evictor, msgs, lock, stale, cookie, made, bounds>>
    BY <1>1 DEF Send
  <2>3. Cardinality(Lookups') <= Cardinality(Lookups) + 1
    BY <2>1, LookupsMove
  <2>4. Cardinality(Lookups') \in Nat
    <3>1. Lookups' \subseteq Requests
      BY DEF Lookups
    <3> QED
      BY <1>t, <3>1, FS_Subset, FS_CardinalityType
  <2>5. Counted'
    BY <1>t, <2>1, <2>2, <2>3, <2>4 DEF Counted
  <2>6. Tables'
    BY <1>t, <2>2 DEF Tables
  <2>7. RequestsTyped'
    BY <1>t, <2>1, <2>2, RequestsStayTyped DEF NoConv
  <2> QED
    BY <2>5, <2>6, <2>7 DEF Typed
<1>2. ASSUME NEW r \in Requests, NEW b \in Browsers, Page(r, b) PROVE Typed'
  <2>1. /\ Only(r) /\ ReqTyped(req'[r]) /\ req'[r].pc = "show"
        /\ req'[r].conv = NoConv
    BY <1>2, PageFields
  <2>2. UNCHANGED <<nextID, convs, evictor, msgs, lock, stale, cookie, made,
                    sends, restarts, forgotten, dropped>>
    BY <1>2 DEF Page
  <2>3. Counted' /\ RequestsTyped'
    BY <1>t, <2>1, <2>2, StaysCounted DEF NoConv
  <2>4. Tables'
    BY <1>t, <2>2 DEF Tables
  <2> QED
    BY <2>3, <2>4 DEF Typed
<1>3. ASSUME NEW r \in Requests, Lookup(r) PROVE Typed'
  <2> DEFINE s == req[r].session
  <2>1. /\ Only(r) /\ ReqTyped(req'[r]) /\ s \in Sessions
        /\ req[r].pc = "lookup" /\ req'[r].pc = "enter"
        /\ \/ /\ convs[s] # NoConv /\ req'[r].conv = convs[s]
              /\ UNCHANGED <<convs, made>>
           \/ /\ convs[s] = NoConv /\ req'[r].conv = made + 1
              /\ made' = made + 1 /\ convs' = [convs EXCEPT ![s] = made + 1]
    BY <1>3, LookupFields
  <2>2. UNCHANGED <<nextID, evictor, msgs, lock, stale, cookie, sends, bounds>>
    BY <1>3 DEF Lookup
  <2>3. Cardinality(Lookups') = Cardinality(Lookups) - 1
    BY <2>1, LookupsMove
  <2>4. convs[s] \in 0 .. made
    BY <1>t, <2>1 DEF Tables
  <2> HIDE DEF s
  <2>5. made' \in Nat /\ made <= made' /\ req'[r].conv <= made' /\ made' <= made + 1
    BY <1>t, <2>1, <2>4
  <2>6. Counted'
    BY <1>t, <2>2, <2>3, <2>5 DEF Counted
  <2>7. Tables'
    <3>1. convs' \in [Sessions -> 0 .. made']
      <4>1. convs \in [Sessions -> 0 .. made]
        BY <1>t DEF Tables
      <4> QED
        BY <1>t, <2>1, <2>5, <4>1
    <3>2. \A c \in Convs : c > made' => c > made
      BY <1>t, <2>5 DEF Convs
    <3> QED
      BY <1>t, <2>2, <3>1, <3>2 DEF Tables
  <2>8. RequestsTyped'
    BY <2>1, <2>5, RequestsStayTyped
  <2> QED
    BY <2>6, <2>7, <2>8 DEF Typed
<1>4. ASSUME NEW r \in Requests, req[r].conv \in Convs, req[r].conv <= made,
             Only(r), ReqTyped(req'[r]), req'[r].pc # "lookup",
             req'[r].conv \in {NoConv, req[r].conv},
             msgs' \in [Convs -> Seq(Messages)],
             lock' \in [Convs -> {"free", "held", "poisoned"}],
             \A d \in Convs : d # req[r].conv => msgs'[d] = msgs[d] /\ lock'[d] = lock[d],
             stale' = stale \/ stale' = [stale EXCEPT ![req[r].conv] = FALSE],
             UNCHANGED <<nextID, convs, evictor, cookie, made, sends, bounds>>
      PROVE  Typed'
  <2>0. /\ UNCHANGED <<nextID, convs, evictor, cookie, made, sends, restarts, forgotten>>
        /\ req[r].conv \in 0 .. made /\ req'[r].conv \in 0 .. made
    BY <1>t, <1>4, ConvTyped DEF NoConv
  <2>1. Counted' /\ RequestsTyped'
    BY <1>4, <2>0, StaysCounted
  <2>2. \A c \in Convs : c > made' => msgs'[c] = << >> /\ lock'[c] = "free"
    <3>1. \A c \in Convs : c > made => msgs[c] = << >> /\ lock[c] = "free"
      BY <1>t DEF Tables
    <3>2. \A c \in Convs : c > made => c # req[r].conv
      <4>1. made \in Nat /\ MaxSends \in Nat /\ req[r].conv <= made
        BY <1>t, <2>0
      <4> QED
        BY <4>1 DEF Convs
    <3> QED
      BY <1>4, <2>0, <3>1, <3>2
  <2>3. stale' \in [Convs -> BOOLEAN]
    BY <1>t, <1>4 DEF Tables
  <2>4. Tables'
    BY <1>t, <1>4, <2>0, <2>2, <2>3 DEF Tables
  <2> QED
    BY <2>1, <2>4 DEF Typed
<1> DEFINE Locks == [Convs -> {"free", "held", "poisoned"}]
<1>l. /\ lock \in Locks /\ msgs \in [Convs -> Seq(Messages)]
      /\ \A c \in Convs : [lock EXCEPT ![c] = "held"] \in Locks
                          /\ [lock EXCEPT ![c] = "free"] \in Locks
                          /\ [lock EXCEPT ![c] = "poisoned"] \in Locks
  BY <1>t DEF Tables
<1>b. ASSUME NEW r \in Requests, req[r].pc \in Bound \cup {"filter"}
      PROVE  req[r].conv \in Convs /\ req[r].conv <= made
  BY <1>b, <1>t, ConvTyped DEF RequestsTyped, ReqTyped
<1>5. ASSUME NEW r \in Requests, Enter(r) PROVE Typed'
  <2>1. UNCHANGED <<nextID, convs, evictor, lock, cookie, made, sends, bounds>>
        /\ stale' = [stale EXCEPT ![req[r].conv] = FALSE]
    BY <1>5 DEF Enter
  <2>2. req[r].pc = "enter" /\ req'[r].pc = "llm"
    BY <1>5, EnterFields
  <2>3. req[r].conv \in Convs /\ req[r].conv <= made
    BY <1>b, <2>2 DEF Bound, Sending
  <2>4. /\ Only(r) /\ ReqTyped(req'[r]) /\ req'[r].conv = req[r].conv
        /\ msgs' \in [Convs -> Seq(Messages)]
        /\ \A d \in Convs : d # req[r].conv => msgs'[d] = msgs[d]
    BY <1>5, EnterFields DEF Appends
  <2> QED
    BY <1>4, <1>l, <2>1, <2>2, <2>3, <2>4
<1>6. ASSUME NEW r \in Requests, LLMFails(r) PROVE Typed'
  <2>1. UNCHANGED <<nextID, convs, evictor, msgs, lock, stale, cookie, made, sends,
                    bounds>>
    BY <1>6 DEF LLMFails
  <2>2. /\ Only(r) /\ ReqTyped(req'[r]) /\ req[r].pc = "llm" /\ req'[r].pc = "respond"
        /\ req'[r].conv = req[r].conv
    BY <1>6, LLMFailsFields
  <2>3. req[r].conv \in Convs /\ req[r].conv <= made
    BY <1>b, <2>2 DEF Bound, Sending
  <2> QED
    BY <1>4, <1>l, <2>1, <2>2, <2>3
<1>7. ASSUME NEW r \in Requests, LLMAnswers(r) PROVE Typed'
  <2>1. UNCHANGED <<nextID, convs, evictor, lock, cookie, made, sends, bounds>>
        /\ stale' = [stale EXCEPT ![req[r].conv] = FALSE]
    BY <1>7 DEF LLMAnswers
  <2>2. /\ Only(r) /\ ReqTyped(req'[r]) /\ req[r].pc = "llm" /\ req'[r].pc = "show"
        /\ req'[r].conv = req[r].conv /\ msgs' \in [Convs -> Seq(Messages)]
        /\ \A d \in Convs : d # req[r].conv => msgs'[d] = msgs[d]
    BY <1>7, LLMAnswersFields DEF Appends
  <2>3. req[r].conv \in Convs /\ req[r].conv <= made
    BY <1>b, <2>2 DEF Bound, Sending
  <2> QED
    BY <1>4, <1>l, <2>1, <2>2, <2>3
<1>8. ASSUME NEW r \in Requests, NEW n \in CallCounts, LLMCalls(r, n) PROVE Typed'
  <2>1. UNCHANGED <<nextID, convs, evictor, cookie, made, sends, bounds>>
        /\ stale' = [stale EXCEPT ![req[r].conv] = FALSE]
    BY <1>8 DEF LLMCalls
  <2>2. /\ Only(r) /\ ReqTyped(req'[r]) /\ req[r].pc = "llm" /\ req'[r].pc = "tools"
        /\ req'[r].conv = req[r].conv /\ msgs' \in [Convs -> Seq(Messages)]
        /\ \A d \in Convs : d # req[r].conv => msgs'[d] = msgs[d]
        /\ lock' = [lock EXCEPT ![req[r].conv] = "held"]
    BY <1>8, LLMCallsFields DEF Appends
  <2>3. req[r].conv \in Convs /\ req[r].conv <= made
    BY <1>b, <2>2 DEF Bound, Sending
  <2>4. lock' \in Locks /\ \A d \in Convs : d # req[r].conv => lock'[d] = lock[d]
    BY <1>l, <2>2, <2>3
  <2> QED
    BY <1>4, <2>1, <2>2, <2>3, <2>4
<1>9. ASSUME NEW r \in Requests, Tool(r) PROVE Typed'
  <2>1. UNCHANGED <<nextID, convs, evictor, lock, stale, cookie, made, sends, bounds>>
    BY <1>9 DEF Tool
  <2>2. /\ Only(r) /\ ReqTyped(req'[r]) /\ req[r].pc = "tools" /\ req'[r].pc = "tools"
        /\ req'[r].conv = req[r].conv /\ msgs' \in [Convs -> Seq(Messages)]
        /\ \A d \in Convs : d # req[r].conv => msgs'[d] = msgs[d]
    BY <1>9, ToolFields DEF Appends
  <2>3. req[r].conv \in Convs /\ req[r].conv <= made
    BY <1>b, <2>2 DEF Bound, Sending
  <2> QED
    BY <1>4, <1>l, <2>1, <2>2, <2>3
<1>10. ASSUME NEW r \in Requests, ToolsDone(r) PROVE Typed'
  <2>1. UNCHANGED <<nextID, convs, evictor, msgs, cookie, made, sends, bounds>>
        /\ stale' = [stale EXCEPT ![req[r].conv] = FALSE]
    BY <1>10 DEF ToolsDone
  <2>2. /\ Only(r) /\ ReqTyped(req'[r]) /\ req[r].pc = "tools" /\ req'[r].pc = "copy"
        /\ req'[r].conv = req[r].conv /\ lock' = [lock EXCEPT ![req[r].conv] = "free"]
    BY <1>10, ToolsDoneFields
  <2>3. req[r].conv \in Convs /\ req[r].conv <= made
    BY <1>b, <2>2 DEF Bound, Sending
  <2>4. lock' \in Locks /\ \A d \in Convs : d # req[r].conv => lock'[d] = lock[d]
    BY <1>l, <2>2, <2>3
  <2> QED
    BY <1>4, <1>l, <2>1, <2>2, <2>3, <2>4
<1>11. ASSUME NEW r \in Requests, Copy(r) PROVE Typed'
  <2>1. UNCHANGED <<nextID, convs, evictor, msgs, lock, stale, cookie, made, sends,
                    bounds>>
    BY <1>11 DEF Copy
  <2>2. /\ Only(r) /\ ReqTyped(req'[r]) /\ req[r].pc = "copy"
        /\ req'[r].pc # "lookup" /\ req'[r].conv = req[r].conv
    BY <1>11, CopyFields
  <2>3. req[r].conv \in Convs /\ req[r].conv <= made
    BY <1>b, <2>2 DEF Bound, Sending
  <2> QED
    BY <1>4, <1>l, <2>1, <2>2, <2>3
<1>12. ASSUME NEW r \in Requests, Show(r) PROVE Typed'
  <2>1. UNCHANGED <<nextID, convs, evictor, msgs, lock, stale, cookie, made, sends,
                    bounds>>
    BY <1>12 DEF Show
  <2>2. /\ Only(r) /\ ReqTyped(req'[r]) /\ req'[r].pc # "lookup"
        /\ req'[r].conv \in 0 .. made
    BY <1>12, ShowFields
  <2>3. Counted' /\ RequestsTyped'
    BY <2>1, <2>2, StaysCounted
  <2>4. Tables'
    BY <1>t, <2>1 DEF Tables
  <2> QED
    BY <2>3, <2>4 DEF Typed
<1>13. ASSUME NEW r \in Requests, Filter(r) PROVE Typed'
  <2>1. UNCHANGED <<nextID, convs, evictor, msgs, lock, cookie, made, sends, bounds>>
        /\ stale' = [stale EXCEPT ![req[r].conv] = FALSE]
    BY <1>13 DEF Filter
  <2>2. /\ Only(r) /\ ReqTyped(req'[r]) /\ req[r].pc = "filter"
        /\ req'[r].pc = "respond" /\ req'[r].conv = req[r].conv
    BY <1>13, FilterFields
  <2>3. req[r].conv \in Convs /\ req[r].conv <= made
    BY <1>b, <2>2
  <2> QED
    BY <1>4, <1>l, <2>1, <2>2, <2>3
<1>14. ASSUME NEW r \in Requests, ToolPanics(r) PROVE Typed'
  <2>1. UNCHANGED <<nextID, convs, evictor, msgs, stale, cookie, made, sends, bounds>>
        /\ lock' = [lock EXCEPT ![req[r].conv] = "poisoned"] /\ req[r].pc = "tools"
    BY <1>14 DEF ToolPanics
  <2>2. /\ Only(r) /\ ReqTyped(req'[r]) /\ req'[r].pc # "lookup"
        /\ req'[r].conv = NoConv
    BY <1>14, EndFields, IdleTyped
  <2>3. req[r].conv \in Convs /\ req[r].conv <= made
    BY <1>b, <2>1 DEF Bound, Sending
  <2>4. lock' \in Locks /\ \A d \in Convs : d # req[r].conv => lock'[d] = lock[d]
    BY <1>l, <2>1, <2>3
  <2> QED
    BY <1>4, <1>l, <2>1, <2>2, <2>3, <2>4
<1>15. ASSUME NEW r \in Requests, Respond(r) PROVE Typed'
  <2>1. UNCHANGED <<nextID, convs, evictor, msgs, lock, stale, made, sends, bounds>>
        /\ \/ req[r].fresh /\ cookie' = [cookie EXCEPT ![req[r].browser] = req[r].session]
           \/ UNCHANGED cookie
    BY <1>15 DEF Respond
  <2>2. /\ Only(r) /\ ReqTyped(req'[r]) /\ req'[r].pc # "lookup"
        /\ req'[r].conv \in 0 .. made
    BY <1>t, <1>15, EndFields, IdleTyped DEF NoConv
  <2>3. Counted' /\ RequestsTyped'
    BY <2>1, <2>2, StaysCounted
  <2>4. cookie' \in [Browsers -> Sessions \cup {NoSession}]
    <3>1. req[r].session \in Sessions \cup {NoSession}
      BY ConvTyped
    <3> QED
      BY <1>t, <2>1, <3>1 DEF Tables
  <2>5. Tables'
    BY <1>t, <2>1, <2>4 DEF Tables
  <2> QED
    BY <2>3, <2>5 DEF Typed
<1>16. ASSUME UNCHANGED <<nextID, req, made, sends, msgs, lock, cookie>>,
              restarts' = restarts,
              convs' \in [Sessions -> 0 .. made], stale' \in [Convs -> BOOLEAN],
              evictor' \in Sessions \cup {NoSession},
              forgotten' \in [Sessions -> SUBSET Sends]
       PROVE  Typed'
  <2>1. Counted'
    BY <1>t, <1>16 DEF Counted, Lookups
  <2>2. Tables'
    BY <1>t, <1>16 DEF Tables
  <2>3. RequestsTyped'
    BY <1>t, <1>16 DEF RequestsTyped
  <2> QED
    BY <2>1, <2>2, <2>3 DEF Typed
<1>17. ASSUME NEW b \in Browsers, Clear(b) PROVE Typed'
  <2>1. UNCHANGED <<nextID, req, made, sends, msgs, lock, cookie, restarts, evictor,
                    stale>>
    BY <1>17 DEF Clear
  <2>2. convs' \in [Sessions -> 0 .. made] /\ forgotten' \in [Sessions -> SUBSET Sends]
    <3>1. \A s \in Sessions : Found(s) \subseteq Sends
      BY DEF Found
    <3>2. /\ cookie[b] \in Sessions
          /\ convs' = [convs EXCEPT ![cookie[b]] = NoConv]
          /\ forgotten' = [forgotten EXCEPT ![cookie[b]] = @ \cup Found(cookie[b])]
      BY <1>t, <1>17 DEF Clear, Tables
    <3> QED
      BY <1>t, <3>1, <3>2 DEF Tables, NoConv
  <2>3. evictor \in Sessions \cup {NoSession} /\ stale \in [Convs -> BOOLEAN]
    BY <1>t DEF Tables
  <2> QED
    BY <1>16, <2>1, <2>2, <2>3
<1>18. ASSUME NEW c \in Convs, Age(c) PROVE Typed'
  BY <1>t, <1>16, <1>18 DEF Age, Tables
<1>19. ASSUME NEW s \in Sessions, Evict(s) PROVE Typed'
  BY <1>t, <1>16, <1>19 DEF Evict, Tables
<1>20. ASSUME Evicted PROVE Typed'
  BY <1>t, <1>16, <1>20 DEF Evicted, Tables, NoConv
<1>21. ASSUME Restart PROVE Typed'
  <2> DEFINE none == << >>
  <2>1. none \in Seq(Messages)
    OBVIOUS
  <2>2. /\ msgs' = [c \in Convs |-> none] /\ req' = [r \in Requests |-> Idle]
        /\ UNCHANGED <<cookie, made, sends, forgotten, dropped>>
        /\ restarts' = restarts + 1 /\ nextID' = 0 /\ evictor' = NoSession
        /\ convs' = [s \in Sessions |-> NoConv] /\ lock' = [c \in Convs |-> "free"]
        /\ stale' = [c \in Convs |-> FALSE]
    BY <1>21 DEF Restart
  <2>3. \A c \in Convs : msgs'[c] = << >>
    BY <2>2
  <2> HIDE DEF none
  <2>4. msgs' \in [Convs -> Seq(Messages)]
    BY <2>1, <2>2
  <2>5. Tables'
    BY <1>t, <2>2, <2>3, <2>4 DEF Tables, NoConv
  <2>6. RequestsTyped'
    BY <1>t, <2>2, IdleTyped DEF RequestsTyped, NoConv
  <2>7. Lookups' = {}
    BY <2>2, IdleTyped DEF Lookups
  <2>8. Cardinality(Lookups') = 0
    BY <2>7, FS_EmptySet
  <2>9. Counted'
    BY <1>t, <2>2, <2>8 DEF Counted
  <2> QED
    BY <2>5, <2>6, <2>9 DEF Typed
<1>22. ASSUME UNCHANGED vars PROVE Typed'
  BY <1>t, <1>16, <1>22 DEF vars, Tables
<1> QED
  BY <1>1, <1>2, <1>3, <1>5, <1>6, <1>7, <1>8, <1>9, <1>10, <1>11, <1>12, <1>13,
     <1>14, <1>15, <1>17, <1>18, <1>19, <1>20, <1>21, <1>22 DEF Next, Step

LEMMA TypedAlways == Spec => []Typed
BY TypedInit, TypedNext, PTL DEF Spec

\* The state has its types: no conversation is made without a send, no counter
\* leaves its range, no request names a conversation that was not made.
THEOREM StateIsTyped == Spec => []TypeOK
<1>1. Typed => TypeOK
  <2> SUFFICES ASSUME Typed PROVE TypeOK
    OBVIOUS
  <2>1. /\ made <= sends /\ sends <= MaxSends /\ MaxSends \in Nat
        /\ nextID \in 0 .. MaxSends
    BY CountsAreNumbers DEF Typed, Counted
  <2>2. \A c \in Convs : \A i \in DOMAIN msgs[c] : msgs[c][i] \in Messages
    <3> SUFFICES ASSUME NEW c \in Convs, NEW i \in DOMAIN msgs[c]
                 PROVE  msgs[c][i] \in Messages
      OBVIOUS
    <3>1. msgs[c] \in Seq(Messages)
      BY DEF Typed, Tables
    <3> QED
      BY <3>1
  <2>3. \A r \in Requests : /\ req[r].pc \in Pcs /\ req[r].turn \in 0 .. MaxTurns
                            /\ req[r].conv \in 0 .. made /\ req[r].calls \in Nat
    BY ConvTyped DEF RequestStates
  <2> QED
    BY <2>1, <2>2, <2>3 DEF TypeOK, Typed, Tables
<1> QED
  BY <1>1, TypedAlways, PTL

-----------------------------------------------------------------------------
(* The lock of a conversation                                              *)

Holds(r, c) == req[r].pc = "tools" /\ req[r].conv = c

Locked ==
    /\ \A c \in Convs : lock[c] = "held" => \E r \in Requests : Holds(r, c)
    /\ \A r \in Requests, c \in Convs : Holds(r, c) => lock[c] = "held"
    /\ \A q, r \in Requests, c \in Convs : Holds(q, c) /\ Holds(r, c) => q = r

\* Only these steps take or give back a lock.
LEMMA LocksMove ==
    ASSUME Typed, [Next]_vars
    PROVE  \/ \E r \in Requests, n \in CallCounts : LLMCalls(r, n)
           \/ \E r \in Requests : ToolsDone(r) \/ ToolPanics(r)
           \/ Restart
           \/ /\ lock' = lock
              /\ \A r \in Requests, c \in Convs : Holds(r, c)' <=> Holds(r, c)
<1>1. ASSUME NEW r \in Requests, Only(r), lock' = lock,
             \/ req[r].pc = "tools" /\ req'[r].pc = "tools" /\ req'[r].conv = req[r].conv
             \/ req[r].pc # "tools" /\ req'[r].pc # "tools"
      PROVE  lock' = lock /\ \A q \in Requests, c \in Convs : Holds(q, c)' <=> Holds(q, c)
  BY <1>1 DEF Holds, Only
<1>2. ASSUME NEW r \in Requests, NEW b \in Browsers, Send(r, b)
      PROVE  lock' = lock /\ \A q \in Requests, c \in Convs : Holds(q, c)' <=> Holds(q, c)
  BY <1>1, <1>2, SendFields DEF Send
<1>3. ASSUME NEW r \in Requests, NEW b \in Browsers, Page(r, b)
      PROVE  lock' = lock /\ \A q \in Requests, c \in Convs : Holds(q, c)' <=> Holds(q, c)
  BY <1>1, <1>3, PageFields DEF Page
<1>4. ASSUME NEW r \in Requests,
             \/ Lookup(r) \/ Enter(r) \/ LLMFails(r) \/ LLMAnswers(r) \/ Tool(r)
             \/ Copy(r) \/ Show(r) \/ Filter(r) \/ Respond(r)
      PROVE  lock' = lock /\ \A q \in Requests, c \in Convs : Holds(q, c)' <=> Holds(q, c)
  <2>1. CASE Lookup(r)
    BY <1>1, <2>1, LookupFields DEF Lookup
  <2>2. CASE Enter(r)
    BY <1>1, <2>2, EnterFields DEF Enter
  <2>3. CASE LLMFails(r)
    BY <1>1, <2>3, LLMFailsFields DEF LLMFails
  <2>4. CASE LLMAnswers(r)
    BY <1>1, <2>4, LLMAnswersFields DEF LLMAnswers
  <2>5. CASE Tool(r)
    BY <1>1, <2>5, ToolFields DEF Tool
  <2>6. CASE Copy(r)
    <3>1. Only(r) /\ req[r].pc = "copy" /\ req'[r].pc # "tools"
      BY <2>6, CopyFields
    <3>2. lock' = lock
      BY <2>6 DEF Copy
    <3> QED
      BY <1>1, <3>1, <3>2
  <2>7. CASE Show(r)
    <3>1. Only(r) /\ req[r].pc = "show" /\ req'[r].pc \in {"respond", "filter"}
      BY <2>7, ShowFields
    <3>2. lock' = lock
      BY <2>7 DEF Show
    <3> QED
      BY <1>1, <3>1, <3>2
  <2>8. CASE Filter(r)
    BY <1>1, <2>8, FilterFields DEF Filter
  <2>9. CASE Respond(r)
    <3>1. Only(r) /\ req'[r].pc = "idle"
      BY <2>9, EndFields, IdleTyped
    <3>2. req[r].pc = "respond" /\ lock' = lock
      BY <2>9 DEF Respond
    <3> QED
      BY <1>1, <3>1, <3>2
  <2> QED
    BY <1>4, <2>1, <2>2, <2>3, <2>4, <2>5, <2>6, <2>7, <2>8, <2>9
<1>5. ASSUME UNCHANGED <<req, lock>>
      PROVE  lock' = lock /\ \A q \in Requests, c \in Convs : Holds(q, c)' <=> Holds(q, c)
  BY <1>5 DEF Holds
<1>6. \/ \E b \in Browsers : Clear(b)
      \/ \E c \in Convs : Age(c)
      \/ \E s \in Sessions : Evict(s)
      \/ Evicted \/ UNCHANGED vars
      => UNCHANGED <<req, lock>>
  BY DEF Clear, Age, Evict, Evicted, vars
<1> QED
  BY <1>2, <1>3, <1>4, <1>5, <1>6 DEF Next, Step

LEMMA LockedNext == Typed /\ Locked /\ [Next]_vars => Locked'
<1> SUFFICES ASSUME Typed, Locked, [Next]_vars PROVE Locked'
  OBVIOUS
<1>1. lock \in [Convs -> {"free", "held", "poisoned"}]
  BY DEF Typed, Tables
<1>2. ASSUME NEW r \in Requests, NEW n \in CallCounts, LLMCalls(r, n) PROVE Locked'
  <2>1. /\ Only(r) /\ req[r].pc = "llm" /\ req'[r].pc = "tools"
        /\ req'[r].conv = req[r].conv /\ req[r].conv \in Convs
        /\ lock[req[r].conv] = "free" /\ lock' = [lock EXCEPT ![req[r].conv] = "held"]
    <3>1. /\ Only(r) /\ req[r].pc = "llm" /\ req'[r].pc = "tools"
          /\ req'[r].conv = req[r].conv /\ lock[req[r].conv] = "free"
          /\ lock' = [lock EXCEPT ![req[r].conv] = "held"]
      BY <1>2, LLMCallsFields
    <3>2. req[r].conv \in Convs
      BY <3>1, BoundTyped DEF Bound, Sending
    <3> QED
      BY <3>1, <3>2
  <2>2. \A q \in Requests, c \in Convs :
           Holds(q, c)' <=> Holds(q, c) \/ (q = r /\ c = req[r].conv)
    <3>1. \A q \in Requests : q # r => req'[q] = req[q]
      BY <2>1 DEF Only
    <3> QED
      BY <2>1, <3>1 DEF Holds
  <2> QED
    BY <1>1, <2>1, <2>2 DEF Locked
<1>3. ASSUME NEW r \in Requests, ToolsDone(r) \/ ToolPanics(r) PROVE Locked'
  <2> DEFINE c == req[r].conv
  <2>1. req[r].pc = "tools" /\ Only(r) /\ req'[r].pc # "tools"
    BY <1>3, ToolsDoneFields, EndFields, IdleTyped DEF ToolPanics
  <2>2. c \in Convs
    BY <2>1, BoundTyped DEF Bound, Sending
  <2>3. PICK l \in {"free", "poisoned"} : lock' = [lock EXCEPT ![c] = l]
    BY <1>3 DEF ToolsDone, ToolPanics
  <2>4. \A q \in Requests, d \in Convs : Holds(q, d)' <=> Holds(q, d) /\ q # r
    BY <2>1 DEF Holds, Only
  <2>5. Holds(r, c)
    BY <2>1 DEF Holds
  <2>6. \A q \in Requests, d \in Convs : Holds(q, d)' => d # c
    BY <2>2, <2>4, <2>5 DEF Locked
  <2>7. \A d \in Convs : d # c /\ Holds(r, d) => FALSE
    BY DEF Holds
  <2> HIDE DEF c
  <2> QED
    BY <1>1, <2>2, <2>3, <2>4, <2>6, <2>7 DEF Locked
<1>4. ASSUME Restart PROVE Locked'
  <2>1. lock' = [c \in Convs |-> "free"] /\ req' = [r \in Requests |-> Idle]
    BY <1>4 DEF Restart
  <2> QED
    BY <2>1, IdleTyped DEF Locked, Holds
<1>5. ASSUME lock' = lock,
             \A r \in Requests, c \in Convs : Holds(r, c)' <=> Holds(r, c)
      PROVE  Locked'
  BY <1>5 DEF Locked
<1> QED
  BY <1>2, <1>3, <1>4, <1>5, LocksMove

LEMMA LockedAlways == Spec => []Locked
<1>1. Init => Locked
  BY IdleTyped DEF Init, Locked, Holds
<1> QED
  BY <1>1, LockedNext, TypedAlways, PTL DEF Spec

\* The mutex of a conversation is held exactly while one request runs its
\* tools under it.
THEOREM OneHolderPerLock == Spec => []LockIsHeldByOne
<1>1. Typed /\ Locked => LockIsHeldByOne
  <2> SUFFICES ASSUME Typed, Locked, NEW c \in 1 .. made
               PROVE  LET holders == {r \in Requests : req[r].pc = "tools" /\ req[r].conv = c}
                      IN  /\ lock[c] = "held" <=> holders # {}
                          /\ Cardinality(holders) <= 1
    BY DEF LockIsHeldByOne
  <2> DEFINE holders == {r \in Requests : req[r].pc = "tools" /\ req[r].conv = c}
  <2>1. c \in Convs
    BY CountsAreNumbers DEF Convs
  <2>2. lock[c] = "held" <=> holders # {}
    BY <2>1 DEF Locked, Holds
  <2>3. \A q, r \in holders : q = r
    BY <2>1 DEF Locked, Holds
  <2>4. Cardinality(holders) <= 1
    <3>1. CASE holders = {}
      BY <3>1, FS_EmptySet
    <3>2. CASE holders # {}
      <4>1. PICK r \in holders : holders = {r}
        BY <2>3, <3>2
      <4>2. Cardinality({r}) = 1
        BY FS_Singleton
      <4> QED
        BY <4>1, <4>2
    <3> QED
      BY <3>1, <3>2
  <2> QED
    BY <2>2, <2>4
<1> QED
  BY <1>1, TypedAlways, LockedAlways, PTL

-----------------------------------------------------------------------------
(* Sessions                                                                *)

\* Browser b uses session s: its cookie says so, or a request of it.
Uses(b, s) ==
    \/ cookie[b] = s
    \/ \E r \in Requests :
          req[r].pc # "idle" /\ req[r].browser = b /\ req[r].session = s

Apart ==
    restarts = 0 =>
        \A s \in Sessions :
            /\ \A b \in Browsers : Uses(b, s) => s <= nextID
            /\ \A a, b \in Browsers : Uses(a, s) /\ Uses(b, s) => a = b

\* A step gives no browser a session, but for a first send, which takes the
\* next number.
LEMMA SessionsMove ==
    ASSUME Typed, [Next]_vars, restarts' = 0
    PROVE  /\ restarts = 0
           /\ \/ /\ nextID' = nextID
                 /\ \A b \in Browsers, s \in Sessions : Uses(b, s)' => Uses(b, s)
              \/ /\ nextID' = nextID + 1
                 /\ \E a \in Browsers : \A b \in Browsers, s \in Sessions :
                       Uses(b, s)' => Uses(b, s) \/ (b = a /\ s = nextID + 1)
<1> DEFINE Kept == /\ nextID' = nextID /\ restarts' = restarts
                   /\ \A b \in Browsers, s \in Sessions : Uses(b, s)' => Uses(b, s)
<1>1. ASSUME NEW r \in Requests, Only(r), UNCHANGED <<nextID, restarts>>,
             req[r].pc # "idle", SameSend(r), cookie' = cookie
      PROVE  Kept
  <2>1. ASSUME NEW b \in Browsers, NEW s \in Sessions, NEW q \in Requests,
               req'[q].pc # "idle", req'[q].browser = b, req'[q].session = s
        PROVE  Uses(b, s)
    BY <1>1, <2>1 DEF Uses, Only, SameSend
  <2> QED
    BY <1>1, <2>1 DEF Uses
<1>2. ASSUME NEW r \in Requests, Step(r), ~Respond(r) PROVE Kept
  <2>1. Only(r) /\ SameSend(r)
    BY <1>2, StepsAreLocal
  <2>2. UNCHANGED <<nextID, restarts, cookie>> /\ req[r].pc # "idle"
    BY <1>2 DEF Step, Lookup, Enter, LLMFails, LLMAnswers, LLMCalls, Tool,
                ToolsDone, Copy, Show, Filter, bounds
  <2> QED
    BY <1>1, <2>1, <2>2
<1>3. ASSUME NEW r \in Requests, Respond(r) \/ ToolPanics(r) PROVE Kept
  <2>1. /\ UNCHANGED <<nextID, restarts>> /\ req[r].pc # "idle"
        /\ \/ cookie' = [cookie EXCEPT ![req[r].browser] = req[r].session]
           \/ cookie' = cookie
    BY <1>3 DEF Respond, ToolPanics, bounds
  <2>2. Only(r) /\ req'[r].pc = "idle"
    BY <1>3, EndFields, IdleTyped
  <2>3. ASSUME NEW b \in Browsers, NEW s \in Sessions, NEW q \in Requests,
               req'[q].pc # "idle", req'[q].browser = b, req'[q].session = s
        PROVE  Uses(b, s)
    BY <2>2, <2>3 DEF Uses, Only
  <2>4. ASSUME NEW b \in Browsers, NEW s \in Sessions, cookie'[b] = s
        PROVE  Uses(b, s)
    <3>1. cookie \in [Browsers -> Sessions \cup {NoSession}]
      BY DEF Typed, Tables
    <3>2. cookie[b] = s \/ (req[r].browser = b /\ req[r].session = s)
      BY <2>1, <2>4, <3>1
    <3> QED
      BY <2>1, <3>2 DEF Uses
  <2> QED
    BY <2>1, <2>3, <2>4 DEF Uses
<1>4. ASSUME UNCHANGED <<nextID, restarts, cookie, req>> PROVE Kept
  BY <1>4 DEF Uses
<1>5. ASSUME \/ \E b \in Browsers : Clear(b)
             \/ \E c \in Convs : Age(c)
             \/ \E s \in Sessions : Evict(s)
             \/ Evicted \/ UNCHANGED vars
      PROVE  Kept
  <2>1. UNCHANGED <<nextID, restarts, cookie, req>>
    BY <1>5 DEF Clear, Age, Evict, Evicted, vars, bounds
  <2> QED
    BY <1>4, <2>1
<1>6. ASSUME NEW r \in Requests, NEW a \in Browsers, Page(r, a) PROVE Kept
  <2>1. /\ Only(r) /\ req'[r].browser = a /\ req'[r].session = cookie[a]
    BY <1>6, PageFields
  <2>2. UNCHANGED <<nextID, restarts, cookie>>
    BY <1>6 DEF Page
  <2>3. ASSUME NEW b \in Browsers, NEW s \in Sessions, NEW q \in Requests,
               req'[q].pc # "idle", req'[q].browser = b, req'[q].session = s
        PROVE  Uses(b, s)
    BY <2>1, <2>3 DEF Uses, Only
  <2> QED
    BY <2>2, <2>3 DEF Uses
<1>7. ASSUME NEW r \in Requests, NEW a \in Browsers, Send(r, a)
      PROVE  /\ restarts' = restarts
             /\ nextID' = nextID \/ nextID' = nextID + 1
             /\ \A b \in Browsers, s \in Sessions :
                   Uses(b, s)' => \/ Uses(b, s)
                                  \/ b = a /\ s = nextID + 1 /\ nextID' = nextID + 1
  <2>1. /\ Only(r) /\ req'[r].browser = a
        /\ \/ req'[r].session = nextID + 1 /\ nextID' = nextID + 1
           \/ req'[r].session = cookie[a] /\ nextID' = nextID
    BY <1>7, SendFields
  <2>2. UNCHANGED <<restarts, cookie>>
    BY <1>7 DEF Send, bounds
  <2>3. ASSUME NEW b \in Browsers, NEW s \in Sessions, NEW q \in Requests,
               req'[q].pc # "idle", req'[q].browser = b, req'[q].session = s
        PROVE  Uses(b, s) \/ (b = a /\ s = nextID + 1 /\ nextID' = nextID + 1)
    BY <2>1, <2>3 DEF Uses, Only
  <2> QED
    BY <2>1, <2>2, <2>3 DEF Uses
<1>8. ASSUME Restart PROVE FALSE
  BY <1>8 DEF Restart, Typed, Counted
<1> HIDE DEF Kept
<1>9. Kept \/ \E r \in Requests, a \in Browsers : Send(r, a)
  BY <1>2, <1>3, <1>5, <1>6, <1>8 DEF Next, Step
<1>10. CASE Kept
  BY <1>10 DEF Kept
<1>11. CASE \E r \in Requests, a \in Browsers : Send(r, a)
  BY <1>7, <1>11
<1> QED
  BY <1>9, <1>10, <1>11

LEMMA ApartNext == Typed /\ Apart /\ [Next]_vars => Apart'
<1> SUFFICES ASSUME Typed, Apart, [Next]_vars, restarts' = 0,
                    NEW s \in Sessions
             PROVE  /\ \A b \in Browsers : Uses(b, s)' => s <= nextID'
                    /\ \A a, b \in Browsers : Uses(a, s)' /\ Uses(b, s)' => a = b
  BY DEF Apart
<1>1. /\ nextID \in Nat /\ s \in Nat
      /\ \A b \in Browsers : Uses(b, s) => s <= nextID
      /\ \A a, b \in Browsers : Uses(a, s) /\ Uses(b, s) => a = b
  BY SessionsMove, CountsAreNumbers DEF Apart, Typed, Counted, Sessions
<1>2. CASE nextID' = nextID /\ \A b \in Browsers : Uses(b, s)' => Uses(b, s)
  BY <1>1, <1>2
<1>3. CASE /\ nextID' = nextID + 1
           /\ \E c \in Browsers : \A b \in Browsers :
                 Uses(b, s)' => Uses(b, s) \/ (b = c /\ s = nextID + 1)
  <2>1. PICK c \in Browsers : \A b \in Browsers :
                 Uses(b, s)' => Uses(b, s) \/ (b = c /\ s = nextID + 1)
    BY <1>3
  <2>2. \A b \in Browsers : Uses(b, s)' => s <= nextID'
    BY <1>1, <1>3, <2>1
  <2>3. s = nextID + 1 => \A b \in Browsers : ~Uses(b, s)
    BY <1>1
  <2> QED
    BY <1>1, <2>1, <2>2, <2>3
<1> QED
  BY <1>2, <1>3, SessionsMove

\* No two browsers share a session, in a cookie or in a request on its way,
\* until a restart starts the counter again.
THEOREM NoSharedSession == Spec => []SessionsApart
<1>1. Init => Apart
  <2> SUFFICES ASSUME Init, NEW b \in Browsers, NEW s \in Sessions, Uses(b, s)
               PROVE  FALSE
    BY DEF Apart
  <2>1. s # NoSession
    BY BoundsAssumption DEF Sessions, NoSession
  <2> QED
    BY <2>1, IdleTyped DEF Init, Uses
<1>2. Spec => []Apart
  BY <1>1, ApartNext, TypedAlways, PTL DEF Spec
<1>3. Typed /\ Apart => SessionsApart
  <2> DEFINE holds(b) == ({cookie[b]} \cup
                          {req[r].session : r \in {q \in Requests :
                              req[q].pc # "idle" /\ req[q].browser = b}})
                             \ {NoSession}
  <2> SUFFICES ASSUME Typed, Apart, restarts = 0, NEW a \in Browsers,
                      NEW b \in Browsers, a # b, NEW s \in holds(a) \cap holds(b)
               PROVE  FALSE
    BY DEF SessionsApart
  <2>1. Uses(a, s) /\ Uses(b, s) /\ s # NoSession
    BY DEF Uses
  <2>2. s \in Sessions
    <3>1. cookie[a] \in Sessions \cup {NoSession}
      BY DEF Typed, Tables
    <3> QED
      BY <2>1, <3>1, ConvTyped DEF Uses
  <2> QED
    BY <2>1, <2>2 DEF Apart
<1> QED
  BY <1>2, <1>3, TypedAlways, PTL

-----------------------------------------------------------------------------
(* What a clear forgets                                                    *)

\* Transcript p has a message of send n.
Says(p, n) == \E i \in DOMAIN p : p[i].send = n

Cleared ==
    /\ \A s \in Sessions : \A n \in forgotten[s] :
          n <= sends /\ (convs[s] # NoConv => ~Says(msgs[convs[s]], n))
    /\ \A c \in Convs, n \in Sends : Says(msgs[c], n) => n <= sends
    /\ \A r \in Requests : req[r].pc \in Sending => req[r].send <= sends
    /\ \A r \in Requests, s \in Sessions :
          req[r].pc \in Bound /\ convs[s] = req[r].conv
             => req[r].send \notin forgotten[s]
    /\ \A r \in Requests : req[r].pc = "lookup" =>
          /\ \A s \in Sessions : req[r].send \notin forgotten[s]
          /\ \A c \in Convs : ~Says(msgs[c], req[r].send)
          /\ \A q \in Requests : q # r /\ req[q].pc \in Sending
                => req[q].send # req[r].send

\* A request makes its way from lookup to the end with the same send; only
\* Lookup gives it a conversation.
LEMMA RequestsMove ==
    ASSUME Typed, [Next]_vars, NEW r \in Requests
    PROVE  \/ req'[r].pc \notin Sending
           \/ /\ req[r].pc \in Bound /\ req'[r].pc \in Bound
              /\ req'[r].conv = req[r].conv /\ req'[r].send = req[r].send
              /\ req'[r].session = req[r].session
           \/ req[r].pc = "lookup" /\ req'[r] = req[r]
           \/ \E b \in Browsers : Send(r, b)
           \/ Lookup(r)
<1>1. ASSUME req'[r] = req[r]
      PROVE  \/ req'[r].pc \notin Sending
             \/ /\ req[r].pc \in Bound /\ req'[r].pc \in Bound
                /\ req'[r].conv = req[r].conv /\ req'[r].send = req[r].send
                /\ req'[r].session = req[r].session
             \/ req[r].pc = "lookup" /\ req'[r] = req[r]
  BY <1>1 DEF Bound, Sending
<1> DEFINE Moves == \/ req'[r].pc \notin Sending
                    \/ /\ req[r].pc \in Bound /\ req'[r].pc \in Bound
                       /\ req'[r].conv = req[r].conv /\ req'[r].send = req[r].send
                       /\ req'[r].session = req[r].session
<1>2. ASSUME NEW q \in Requests, Step(q), ~Lookup(q)
      PROVE  Only(q) /\ (q = r => Moves)
  <2>1. CASE Enter(q)
    BY <2>1, EnterFields DEF SameSend, Bound, Sending
  <2>2. CASE LLMFails(q)
    BY <2>2, LLMFailsFields DEF Sending
  <2>3. CASE LLMAnswers(q)
    BY <2>3, LLMAnswersFields DEF Sending
  <2>4. ASSUME NEW n \in CallCounts, LLMCalls(q, n)
        PROVE  Only(q) /\ (q = r => Moves)
    <3>1. /\ Only(q) /\ SameSend(q) /\ req[q].pc = "llm" /\ req'[q].pc = "tools"
          /\ req'[q].conv = req[q].conv
      BY <2>4, LLMCallsFields
    <3> QED
      BY <3>1 DEF SameSend, Bound, Sending
  <2>5. CASE Tool(q)
    BY <2>5, ToolFields DEF SameSend, Bound, Sending
  <2>6. CASE ToolsDone(q)
    BY <2>6, ToolsDoneFields DEF SameSend, Bound, Sending
  <2>7. CASE Copy(q)
    <3>1. /\ Only(q) /\ SameSend(q) /\ req[q].pc = "copy"
          /\ req'[q].pc \in {"llm", "show"} /\ req'[q].conv = req[q].conv
      BY <2>7, CopyFields
    <3> QED
      BY <3>1 DEF SameSend, Bound, Sending
  <2>8. CASE Show(q)
    <3>1. Only(q) /\ req'[q].pc \in {"respond", "filter"}
      BY <2>8, ShowFields
    <3> QED
      BY <3>1 DEF Sending
  <2>9. CASE Filter(q)
    BY <2>9, FilterFields DEF Sending
  <2>10. CASE Respond(q)
    BY <2>10, EndFields, IdleTyped DEF Sending
  <2> QED
    BY <1>2, <2>1, <2>2, <2>3, <2>4, <2>5, <2>6, <2>7, <2>8, <2>9, <2>10 DEF Step
<1>3. ASSUME NEW q \in Requests, NEW b \in Browsers, Send(q, b) PROVE Only(q)
  BY <1>3, SendFields
<1>4. ASSUME NEW q \in Requests, NEW b \in Browsers, Page(q, b)
      PROVE  Only(q) /\ req'[q].pc \notin Sending
  BY <1>4, PageFields DEF Sending
<1>5. ASSUME NEW q \in Requests, ToolPanics(q)
      PROVE  Only(q) /\ req'[q].pc \notin Sending
  BY <1>5, EndFields, IdleTyped DEF Sending
<1>6. ASSUME NEW q \in Requests, Lookup(q) PROVE Only(q)
  BY <1>6, LookupFields
<1>7. ASSUME Restart PROVE req'[r].pc \notin Sending
  BY <1>7, IdleTyped DEF Restart, Sending
<1>8. ASSUME \/ \E b \in Browsers : Clear(b)
             \/ \E c \in Convs : Age(c)
             \/ \E s \in Sessions : Evict(s)
             \/ Evicted \/ UNCHANGED vars
      PROVE  req'[r] = req[r]
  BY <1>8 DEF Clear, Age, Evict, Evicted, vars
<1> HIDE DEF Moves
<1>9. \/ Moves \/ req'[r] = req[r] \/ Lookup(r) \/ req'[r].pc \notin Sending
      \/ \E b \in Browsers : Send(r, b)
  <2>1. ASSUME NEW q \in Requests, Only(q), q # r PROVE req'[r] = req[r]
    BY <2>1 DEF Only
  <2> QED
    BY <2>1, <1>2, <1>3, <1>4, <1>5, <1>6, <1>7, <1>8 DEF Next
<1> QED
  BY <1>1, <1>9 DEF Moves

LEMMA AppendSays ==
    ASSUME Typed, NEW r \in Requests, NEW m \in Messages, Appends(r, m),
           NEW c \in Convs, NEW n, Says(msgs'[c], n)
    PROVE  Says(msgs[c], n) \/ (c = req[r].conv /\ n = m.send)
<1>1. msgs[c] \in Seq(Messages)
  BY DEF Typed, Tables
<1>2. CASE c = req[r].conv
  <2>1. PICK i \in DOMAIN msgs'[c] : msgs'[c][i].send = n
    BY DEF Says
  <2>2. msgs'[c] = Append(msgs[c], m)
    BY <1>2 DEF Appends
  <2>3. i \in 1 .. Len(msgs[c]) + 1 /\ Len(msgs[c]) \in Nat
    BY <1>1, <2>1, <2>2
  <2>4. CASE i = Len(msgs[c]) + 1
    BY <1>1, <1>2, <2>1, <2>2, <2>4
  <2>5. CASE i # Len(msgs[c]) + 1
    <3>1. i \in 1 .. Len(msgs[c])
      BY <2>3, <2>5
    <3>2. i \in DOMAIN msgs[c] /\ msgs'[c][i] = msgs[c][i]
      BY <1>1, <2>2, <3>1
    <3> QED
      BY <2>1, <3>2 DEF Says
  <2> QED
    BY <2>4, <2>5
<1>3. CASE c # req[r].conv
  BY <1>3 DEF Appends, Says
<1> QED
  BY <1>2, <1>3

\* Only a request that has found the conversation writes to it.
LEMMA MessagesMove ==
    ASSUME Typed, [Next]_vars, NEW c \in Convs, NEW n, n # 0, Says(msgs'[c], n)
    PROVE  Says(msgs[c], n) \/ \E r \in Requests :
              req[r].pc \in Bound /\ req[r].conv = c /\ req[r].send = n
<1>1. ASSUME NEW r \in Requests, NEW m \in Messages, Appends(r, m),
             req[r].pc \in Bound, m.send = req[r].send
      PROVE  Says(msgs[c], n) \/ \E q \in Requests :
                req[q].pc \in Bound /\ req[q].conv = c /\ req[q].send = n
  BY <1>1, AppendSays
<1>2. ASSUME NEW r \in Requests, Enter(r)
      PROVE  Says(msgs[c], n) \/ \E q \in Requests :
                req[q].pc \in Bound /\ req[q].conv = c /\ req[q].send = n
  <2> DEFINE user == Message("user", req[r].send)
  <2>1. /\ req[r].pc \in Bound /\ user \in Messages
        /\ \/ Appends(r, user)
           \/ /\ Len(msgs'[req[r].conv]) = 2 /\ msgs'[req[r].conv][2] = user
              /\ msgs'[req[r].conv][1] = Message("system", 0)
              /\ \A d \in Convs : d # req[r].conv => msgs'[d] = msgs[d]
        /\ msgs' \in [Convs -> Seq(Messages)]
    BY <1>2, EnterFields DEF Bound, Sending
  <2>2. user.send = req[r].send /\ Message("system", 0).send = 0
    BY DEF Message
  <2>3. CASE Appends(r, user)
    BY <1>1, <2>1, <2>2, <2>3
  <2>4. CASE ~Appends(r, user)
    <3>1. CASE c # req[r].conv
      BY <2>1, <2>4, <3>1 DEF Says
    <3>2. CASE c = req[r].conv
      <4>1. PICK i \in DOMAIN msgs'[c] : msgs'[c][i].send = n
        BY DEF Says
      <4>2. i \in 1 .. 2
        <5>1. msgs'[c] \in Seq(Messages) /\ Len(msgs'[c]) = 2
          BY <2>1, <2>4, <3>2
        <5> QED
          BY <5>1
      <4>3. i = 1 \/ i = 2
        BY <4>2
      <4> QED
        BY <2>1, <2>2, <2>4, <3>2, <4>1, <4>3
    <3> QED
      BY <3>1, <3>2
  <2> QED
    BY <2>3, <2>4
<1>3. ASSUME NEW r \in Requests, LLMAnswers(r)
      PROVE  Says(msgs[c], n) \/ \E q \in Requests :
                req[q].pc \in Bound /\ req[q].conv = c /\ req[q].send = n
  <2>1. /\ Appends(r, Message("answer", req[r].send)) /\ req[r].pc \in Bound
    BY <1>3, LLMAnswersFields DEF Bound, Sending
  <2>2. req[r].send \in 0 .. MaxSends
    BY <2>1, BoundTyped
  <2> QED
    BY <1>1, <2>1, <2>2, MessageTyped
<1>4. ASSUME NEW r \in Requests, NEW k \in CallCounts, LLMCalls(r, k)
      PROVE  Says(msgs[c], n) \/ \E q \in Requests :
                req[q].pc \in Bound /\ req[q].conv = c /\ req[q].send = n
  <2> DEFINE m == [role |-> "calls", send |-> req[r].send, calls |-> k]
  <2>1. Appends(r, m) /\ m \in Messages /\ req[r].pc = "llm"
    BY <1>4, LLMCallsFields
  <2>2. m.send = req[r].send /\ req[r].pc \in Bound
    BY <2>1 DEF Bound, Sending
  <2> HIDE DEF m
  <2> QED
    BY <1>1, <2>1, <2>2
<1>5. ASSUME NEW r \in Requests, Tool(r)
      PROVE  Says(msgs[c], n) \/ \E q \in Requests :
                req[q].pc \in Bound /\ req[q].conv = c /\ req[q].send = n
  <2>1. /\ Appends(r, Message("tool", req[r].send)) /\ req[r].pc \in Bound
    BY <1>5, ToolFields DEF Bound, Sending
  <2>2. req[r].send \in 0 .. MaxSends
    BY <2>1, BoundTyped
  <2> QED
    BY <1>1, <2>1, <2>2, MessageTyped
<1>6. ASSUME Restart PROVE FALSE
  <2> DEFINE none == << >>
  <2>1. msgs'[c] = none
    BY <1>6 DEF Restart
  <2>2. DOMAIN none = {}
    OBVIOUS
  <2> HIDE DEF none
  <2> QED
    BY <2>1, <2>2 DEF Says
<1>7. ASSUME msgs' = msgs PROVE Says(msgs[c], n)
  BY <1>7 DEF Says
<1>8. ASSUME \/ \E r \in Requests, b \in Browsers : Send(r, b) \/ Page(r, b)
             \/ \E r \in Requests : \/ Lookup(r) \/ LLMFails(r) \/ ToolsDone(r)
                                    \/ Copy(r) \/ Show(r) \/ Filter(r)
                                    \/ Respond(r) \/ ToolPanics(r)
             \/ \E b \in Browsers : Clear(b)
             \/ \E d \in Convs : Age(d)
             \/ \E s \in Sessions : Evict(s)
             \/ Evicted \/ UNCHANGED vars
      PROVE  msgs' = msgs
  BY <1>8 DEF Send, Page, Lookup, LLMFails, ToolsDone, Copy, Show, Filter, Respond,
              ToolPanics, Clear, Age, Evict, Evicted, vars
<1> QED
  BY <1>2, <1>3, <1>4, <1>5, <1>6, <1>7, <1>8 DEF Next, Step

LEMMA ClearedAtSend ==
    ASSUME Typed, Cleared, NEW r \in Requests, NEW b \in Browsers, Send(r, b)
    PROVE  Cleared'
<1>1. /\ Only(r) /\ req'[r].pc = "lookup" /\ req'[r].send = sends + 1
      /\ sends' = sends + 1 /\ sends \in Nat /\ sends + 1 \in Sends
      /\ UNCHANGED <<convs, msgs, forgotten>>
  <2>1. sends \in Nat /\ MaxSends \in Nat /\ sends < MaxSends /\ sends' = sends + 1
        /\ UNCHANGED <<convs, msgs, forgotten>>
    BY CountsAreNumbers DEF Send, Typed, Counted, bounds
  <2> QED
    BY <2>1, SendFields DEF Sends
<1>2. \A c \in Convs, n \in Sends : Says(msgs'[c], n) <=> Says(msgs[c], n)
  BY <1>1 DEF Says
<1>3. \A s \in Sessions : \A n \in forgotten'[s] :
         n <= sends' /\ (convs'[s] # NoConv => ~Says(msgs'[convs'[s]], n))
  <2> SUFFICES ASSUME NEW s \in Sessions, NEW n \in forgotten'[s]
               PROVE  n <= sends' /\ (convs'[s] # NoConv => ~Says(msgs'[convs'[s]], n))
    OBVIOUS
  <2>1. /\ n \in Sends /\ n \in Nat /\ n <= sends
        /\ convs[s] # NoConv => ~Says(msgs[convs[s]], n)
    BY <1>1 DEF Cleared, Typed, Tables, Sends
  <2> QED
    BY <1>1, <2>1 DEF Says
<1>4. \A c \in Convs, n \in Sends : Says(msgs'[c], n) => n <= sends'
  BY <1>1, <1>2 DEF Cleared, Sends
<1>5. \A q \in Requests : req'[q].pc \in Sending =>
         req'[q].send \in Nat /\ req'[q].send <= sends'
               /\ (q # r => req'[q].send <= sends)
  <2>1. \A q \in Requests : q # r => req'[q] = req[q]
    BY <1>1 DEF Only
  <2>2. \A q \in Requests : req[q].send \in Nat
    BY ConvTyped DEF RequestStates
  <2>3. \A q \in Requests : req[q].pc \in Sending => req[q].send <= sends
    BY DEF Cleared
  <2> QED
    BY <1>1, <2>1, <2>2, <2>3
<1>6. \A q \in Requests, s \in Sessions :
         req'[q].pc \in Bound /\ convs'[s] = req'[q].conv
            => req'[q].send \notin forgotten'[s]
  <2>1. req'[r].pc \notin Bound
    BY <1>1 DEF Bound
  <2> QED
    BY <1>1, <2>1 DEF Only, Cleared
<1>7. ASSUME NEW q \in Requests, req'[q].pc = "lookup"
      PROVE  /\ \A s \in Sessions : req'[q].send \notin forgotten'[s]
             /\ \A c \in Convs : ~Says(msgs'[c], req'[q].send)
             /\ \A t \in Requests : t # q /\ req'[t].pc \in Sending
                   => req'[t].send # req'[q].send
  <2>1. CASE q = r
    <3>1. \A s \in Sessions : sends + 1 \notin forgotten'[s]
      BY <1>1 DEF Cleared
    <3>2. \A c \in Convs : ~Says(msgs'[c], sends + 1)
      BY <1>1, <1>2 DEF Cleared
    <3>3. \A t \in Requests : t # q /\ req'[t].pc \in Sending => req'[t].send # sends + 1
      BY <1>1, <1>5, <2>1
    <3> QED
      BY <1>1, <2>1, <3>1, <3>2, <3>3 DEF Says
  <2>2. CASE q # r
    <3>1. req'[q] = req[q]
      BY <1>1, <2>2 DEF Only
    <3>2. req[q].send \in Sends /\ req[q].send <= sends
      BY <1>7, <3>1, ConvTyped DEF Cleared, Typed, RequestsTyped, ReqTyped, Sending
    <3>3. \A s \in Sessions : req'[q].send \notin forgotten'[s]
      BY <1>1, <1>7, <3>1 DEF Cleared
    <3>4. \A c \in Convs : ~Says(msgs'[c], req[q].send)
      BY <1>2, <1>7, <3>1, <3>2 DEF Cleared
    <3>5. ASSUME NEW t \in Requests, t # q, req'[t].pc \in Sending
          PROVE  req'[t].send # req'[q].send
      <4>1. CASE t = r
        BY <1>1, <3>1, <3>2, <4>1 DEF Sends
      <4>2. CASE t # r
        BY <1>1, <1>7, <3>1, <3>5, <4>2 DEF Only, Cleared
      <4> QED
        BY <4>1, <4>2
    <3> QED
      BY <3>1, <3>3, <3>4, <3>5 DEF Says
  <2> QED
    BY <2>1, <2>2
<1> QED
  BY <1>3, <1>4, <1>5, <1>6, <1>7 DEF Cleared, Says

LEMMA RoomForOne ==
    ASSUME Typed, NEW r \in Requests, req[r].pc = "lookup"
    PROVE  made + 1 \in Convs
<1>1. /\ IsFiniteSet(Lookups) /\ Cardinality(Lookups) \in Nat /\ made \in Nat
      /\ MaxSends \in Nat /\ sends \in Nat
      /\ made + Cardinality(Lookups) <= sends /\ sends <= MaxSends
  BY CountsAreNumbers DEF Typed, Counted
<1>2. Cardinality(Lookups) # 0
  BY <1>1, FS_EmptySet DEF Lookups
<1> QED
  BY <1>1, <1>2 DEF Convs

LEMMA ClearedAtLookup ==
    ASSUME Typed, Cleared, NEW r \in Requests, Lookup(r)
    PROVE  Cleared'
<1> DEFINE new == made + 1
<1>1. /\ Only(r) /\ req[r].pc = "lookup" /\ req'[r].pc = "enter"
      /\ req'[r].send = req[r].send
      /\ UNCHANGED <<sends, msgs, forgotten>>
  BY LookupFields DEF Lookup, SameSend, bounds
<1>2. \A s \in Sessions : convs'[s] = convs[s] \/ convs'[s] = new
  <2>1. convs \in [Sessions -> 0 .. made] /\ req[r].session \in Sessions
    BY LookupFields DEF Typed, Tables
  <2> QED
    BY <2>1, LookupFields
<1>3. /\ new \in Convs /\ made \in Nat
      /\ \A n : ~Says(msgs[new], n)
  <2>1. new \in Convs /\ made \in Nat
    BY <1>1, RoomForOne, CountsAreNumbers
  <2> DEFINE none == << >>
  <2>2. msgs[new] = none
    BY <2>1 DEF Typed, Tables
  <2>3. DOMAIN none = {}
    OBVIOUS
  <2> HIDE DEF none
  <2> QED
    BY <2>1, <2>2, <2>3 DEF Says
<1>4. \A q \in Requests : req[q].conv # new
  BY <1>3, ConvTyped
<1> HIDE DEF new
<1>5. \A s \in Sessions : \A n \in forgotten'[s] :
         n <= sends' /\ (convs'[s] # NoConv => ~Says(msgs'[convs'[s]], n))
  BY <1>1, <1>2, <1>3 DEF Cleared
<1>6. \A q \in Requests : /\ req'[q].send = req[q].send
                          /\ req'[q].pc \in Sending => req[q].pc \in Sending
                          /\ req'[q].pc = "lookup" => req[q].pc = "lookup"
  BY <1>1 DEF Only, Sending
<1>7. \A q \in Requests, s \in Sessions :
         req'[q].pc \in Bound /\ convs'[s] = req'[q].conv
            => req'[q].send \notin forgotten'[s]
  <2> SUFFICES ASSUME NEW q \in Requests, NEW s \in Sessions, req'[q].pc \in Bound,
                      convs'[s] = req'[q].conv
               PROVE  req[q].send \notin forgotten[s]
    BY <1>1, <1>6
  <2>1. CASE q = r
    BY <1>1, <2>1 DEF Cleared
  <2>2. CASE q # r
    <3>1. req'[q] = req[q] /\ convs[s] = req[q].conv
      BY <1>1, <1>2, <1>4, <2>2 DEF Only
    <3> QED
      BY <3>1 DEF Cleared
  <2> QED
    BY <2>1, <2>2
<1> QED
  BY <1>1, <1>5, <1>6, <1>7 DEF Cleared

LEMMA ClearedAtClear ==
    ASSUME Typed, Cleared, NEW b \in Browsers, Clear(b)
    PROVE  Cleared'
<1> DEFINE s0 == cookie[b]
<1>1. /\ s0 \in Sessions /\ convs' = [convs EXCEPT ![s0] = NoConv]
      /\ forgotten' = [forgotten EXCEPT ![s0] = @ \cup Found(s0)]
      /\ UNCHANGED <<req, msgs, sends>>
  BY DEF Clear, Typed, Tables
<1>2. /\ convs \in [Sessions -> 0 .. made] /\ forgotten \in [Sessions -> SUBSET Sends]
      /\ made \in 0 .. MaxSends /\ MaxSends \in Nat
  BY CountsAreNumbers DEF Typed, Tables
<1>3. convs[s0] # NoConv => convs[s0] \in Convs
  BY <1>1, <1>2 DEF Convs, NoConv
<1>4. \A n \in Found(s0) :
         /\ n \in Sends
         /\ \/ \E q \in Requests : req[q].pc \in Bound /\ req[q].send = n
            \/ convs[s0] # NoConv /\ Says(msgs[convs[s0]], n)
  BY DEF Found, Bound, Sending, Says
<1>5. \A s \in Sessions : \/ s # s0 /\ convs'[s] = convs[s] /\ forgotten'[s] = forgotten[s]
                          \/ /\ s = s0 /\ convs'[s] = NoConv
                             /\ forgotten'[s] = forgotten[s] \cup Found(s0)
  BY <1>1, <1>2
<1> HIDE DEF s0
<1>6. \A n \in Found(s0) : n <= sends
  BY <1>3, <1>4 DEF Cleared, Bound
<1>7. \A s \in Sessions : \A n \in forgotten'[s] :
         n <= sends' /\ (convs'[s] # NoConv => ~Says(msgs'[convs'[s]], n))
  BY <1>1, <1>5, <1>6 DEF Cleared
<1>8. \A q \in Requests, s \in Sessions :
         req[q].pc \in Bound /\ convs'[s] = req[q].conv => req[q].send \notin forgotten'[s]
  <2>1. \A q \in Requests : req[q].pc \in Bound => req[q].conv # NoConv
    BY DEF Typed, RequestsTyped, ReqTyped
  <2> QED
    BY <1>5, <2>1 DEF Cleared
<1>9. ASSUME NEW r \in Requests, req[r].pc = "lookup", NEW s \in Sessions
      PROVE  req[r].send \notin forgotten'[s]
  <2>1. req[r].send \notin Found(s0)
    BY <1>3, <1>4, <1>9 DEF Cleared, Bound
  <2> QED
    BY <1>5, <1>9, <2>1 DEF Cleared
<1> QED
  BY <1>1, <1>7, <1>8, <1>9 DEF Cleared

LEMMA ClearedElse ==
    ASSUME Typed, Cleared, [Next]_vars,
           ~\E r \in Requests, b \in Browsers : Send(r, b),
           ~\E r \in Requests : Lookup(r), ~\E b \in Browsers : Clear(b)
    PROVE  Cleared'
<1>1. /\ sends' = sends /\ forgotten' = forgotten
      /\ \A s \in Sessions : convs'[s] = convs[s] \/ convs'[s] = NoConv
  <2>1. convs \in [Sessions -> 0 .. made]
    BY DEF Typed, Tables
  <2>2. CASE UNCHANGED <<sends, forgotten, convs>>
    BY <2>2
  <2>3. CASE Evicted
    BY <2>1, <2>3 DEF Evicted
  <2>4. CASE Restart
    BY <2>4 DEF Restart
  <2>5. UNCHANGED <<sends, forgotten, convs>> \/ Evicted \/ Restart
    <3>1. ASSUME NEW r \in Requests,
                 \/ Enter(r) \/ LLMFails(r) \/ LLMAnswers(r)
                 \/ (\E n \in CallCounts : LLMCalls(r, n)) \/ Tool(r) \/ ToolsDone(r)
                 \/ Copy(r) \/ Show(r) \/ Filter(r) \/ Respond(r) \/ ToolPanics(r)
                 \/ \E b \in Browsers : Page(r, b)
          PROVE  UNCHANGED <<sends, forgotten, convs>>
      BY <3>1 DEF Page, Enter, LLMFails, LLMAnswers, LLMCalls, Tool, ToolsDone,
                  Copy, Show, Filter, Respond, ToolPanics, bounds
    <3>2. ASSUME \/ \E c \in Convs : Age(c)
                 \/ \E s \in Sessions : Evict(s)
                 \/ UNCHANGED vars
          PROVE  UNCHANGED <<sends, forgotten, convs>>
      BY <3>2 DEF Age, Evict, vars, bounds
    <3> QED
      BY <3>1, <3>2 DEF Next, Step
  <2> QED
    BY <2>2, <2>3, <2>4, <2>5
<1>2. \A r \in Requests :
         \/ req'[r].pc \notin Sending
         \/ /\ req[r].pc \in Bound /\ req'[r].pc \in Bound
            /\ req'[r].conv = req[r].conv /\ req'[r].send = req[r].send
         \/ req[r].pc = "lookup" /\ req'[r] = req[r]
  BY RequestsMove
<1>3. \A c \in Convs, n \in Sends : Says(msgs'[c], n) =>
         \/ Says(msgs[c], n)
         \/ \E r \in Requests : req[r].pc \in Bound /\ req[r].conv = c /\ req[r].send = n
  <2>1. 0 \notin Sends
    BY BoundsAssumption DEF Sends
  <2> QED
    BY <2>1, MessagesMove
<1>4. /\ forgotten \in [Sessions -> SUBSET Sends]
      /\ \A s \in Sessions : convs[s] # NoConv => convs[s] \in Convs
  BY CountsAreNumbers DEF Typed, Tables, Convs, NoConv
<1>5. \A r \in Requests :
         /\ req[r].pc \in Bound => req[r].conv # NoConv /\ req[r].pc \in Sending
         /\ req[r].pc \in Sending => req[r].send \in Sends
  BY ConvTyped DEF Typed, RequestsTyped, ReqTyped, Bound
<1>6. "lookup" \in Sending /\ "lookup" \notin Bound
  BY DEF Bound, Sending
<1>7. \A s \in Sessions : \A n \in forgotten'[s] :
         n <= sends' /\ (convs'[s] # NoConv => ~Says(msgs'[convs'[s]], n))
  <2> SUFFICES ASSUME NEW s \in Sessions, NEW n \in forgotten[s]
               PROVE  n <= sends /\ (convs'[s] # NoConv => ~Says(msgs'[convs'[s]], n))
    BY <1>1
  <2>1. n \in Sends /\ n <= sends /\ (convs[s] # NoConv => ~Says(msgs[convs[s]], n))
    BY <1>4 DEF Cleared
  <2>2. \A r \in Requests : req[r].pc \in Bound /\ req[r].conv = convs[s] => req[r].send # n
    BY DEF Cleared
  <2> QED
    BY <1>1, <1>3, <1>4, <2>1, <2>2
<1>8. \A c \in Convs, n \in Sends : Says(msgs'[c], n) => n <= sends'
  BY <1>1, <1>3, <1>5 DEF Cleared
<1>9. \A r \in Requests : req'[r].pc \in Sending => req'[r].send <= sends'
  BY <1>1, <1>2, <1>5 DEF Cleared
<1>10. \A r \in Requests, s \in Sessions :
          req'[r].pc \in Bound /\ convs'[s] = req'[r].conv
             => req'[r].send \notin forgotten'[s]
  BY <1>1, <1>2, <1>5, <1>6 DEF Cleared, Bound
<1>11. ASSUME NEW r \in Requests, req'[r].pc = "lookup"
       PROVE  /\ \A s \in Sessions : req'[r].send \notin forgotten'[s]
              /\ \A c \in Convs : ~Says(msgs'[c], req'[r].send)
              /\ \A q \in Requests : q # r /\ req'[q].pc \in Sending
                    => req'[q].send # req'[r].send
  <2>1. req[r].pc = "lookup" /\ req'[r] = req[r]
    BY <1>2, <1>6, <1>11
  <2>2. \A q \in Requests : q # r /\ req[q].pc \in Sending => req[q].send # req[r].send
    BY <2>1 DEF Cleared
  <2>3. \A q \in Requests : req[q].pc \in Bound => q # r /\ req[q].pc \in Sending
    BY <1>5, <1>6, <2>1
  <2>4. \A c \in Convs : ~Says(msgs'[c], req[r].send)
    BY <1>3, <1>5, <1>6, <2>1, <2>2, <2>3 DEF Cleared
  <2>5. \A q \in Requests : q # r /\ req'[q].pc \in Sending => req'[q].send # req[r].send
    BY <1>2, <1>5, <1>6, <2>2
  <2> QED
    BY <1>1, <2>1, <2>4, <2>5 DEF Cleared
<1> QED
  BY <1>7, <1>8, <1>9, <1>10, <1>11 DEF Cleared

LEMMA ClearedAlways == Spec => []Cleared
<1>1. Init => Cleared
  <2> SUFFICES ASSUME Init PROVE Cleared
    OBVIOUS
  <2> DEFINE none == << >>
  <2>1. \A c \in Convs : msgs[c] = none
    BY DEF Init
  <2>2. DOMAIN none = {}
    OBVIOUS
  <2> HIDE DEF none
  <2>3. \A c \in Convs, n \in Sends : ~Says(msgs[c], n)
    BY <2>1, <2>2 DEF Says
  <2>4. \A r \in Requests : req[r].pc = "idle"
    BY IdleTyped DEF Init
  <2>5. \A s \in Sessions : forgotten[s] = {}
    BY DEF Init
  <2> QED
    BY <2>3, <2>4, <2>5 DEF Cleared, Bound, Sending
<1>2. Typed /\ Cleared /\ [Next]_vars => Cleared'
  BY ClearedAtSend, ClearedAtLookup, ClearedAtClear, ClearedElse
<1> QED
  BY <1>1, <1>2, TypedAlways, PTL DEF Spec

\* What was said before a clear of the session, and what a request that had its
\* conversation by then says later, does not turn up in the session again.
THEOREM ClearsLast == Spec => []ClearedIsGone
<1>1. Typed /\ Cleared => ClearedIsGone
  BY DEF ClearedIsGone, Cleared, Says
<1> QED
  BY <1>1, TypedAlways, ClearedAlways, PTL

-----------------------------------------------------------------------------
(* What becomes of a message and its answer                                *)

Has(p, m) == \E i \in DOMAIN p : p[i] = m

User(r) == Message("user", req[r].send)
Answer(r) == Message("answer", req[r].send)

\* The request still has the conversation of its session, or a clear or the
\* evictor took it away.
InPlace(r) ==
    \/ convs[req[r].session] = req[r].conv
    \/ req[r].send \in forgotten[req[r].session]
    \/ req[r].conv \in dropped

Gone(r) ==
    \/ req[r].send \in forgotten[req[r].session]
    \/ \E c \in dropped : Has(msgs[c], User(r))

Answered(r) == req[r].pc = "show" /\ req[r].ok

FollowedReq(r) ==
    /\ req[r].pc \in Bound \/ Answered(r) => InPlace(r)
    /\ req[r].pc \in Bound \ {"enter"} \/ Answered(r) => Has(msgs[req[r].conv], User(r))
    /\ Answered(r) => Has(msgs[req[r].conv], Answer(r))
    /\ req[r].pc = "filter" /\ req[r].ok =>
          \/ Has(msgs[req[r].conv], User(r)) /\ Has(msgs[req[r].conv], Answer(r))
          \/ Gone(r)
    /\ req[r].pc = "respond" /\ req[r].ok =>
          {User(r), Answer(r)} \subseteq req[r].shown \/ Gone(r)

Followed ==
    /\ dropped \subseteq Convs
    /\ evictor # NoSession => convs[evictor] # NoConv
    /\ \A r \in Requests : FollowedReq(r)

LEMMA AppendHas ==
    ASSUME Typed, NEW r \in Requests, NEW m \in Messages, Appends(r, m)
    PROVE  /\ Has(msgs'[req[r].conv], m)
           /\ \A c \in Convs : \A x : Has(msgs[c], x) => Has(msgs'[c], x)
<1> DEFINE c == req[r].conv
           p == msgs[c]
           q == Append(p, m)
<1>1. /\ c \in Convs /\ p \in Seq(Messages) /\ msgs'[c] = q
      /\ \A d \in Convs : d # c => msgs'[d] = msgs[d]
  BY DEF Appends, Typed, Tables
<1> HIDE DEF c, p
<1>2. /\ Len(p) + 1 \in DOMAIN q /\ q[Len(p) + 1] = m
      /\ \A i \in DOMAIN p : i \in DOMAIN q /\ q[i] = p[i]
  BY <1>1
<1> HIDE DEF q
<1>3. Has(q, m) /\ \A x : Has(p, x) => Has(q, x)
  BY <1>2 DEF Has
<1> QED
  BY <1>1, <1>3 DEF c, p

\* Until a restart, messages are only added.
LEMMA MessagesStay ==
    ASSUME Typed, [Next]_vars, ~Restart
    PROVE  /\ \A c \in Convs : \A x : Has(msgs[c], x) => Has(msgs'[c], x)
           /\ \A r \in Requests : Enter(r) => Has(msgs'[req[r].conv], User(r))
           /\ \A r \in Requests : LLMAnswers(r) => Has(msgs'[req[r].conv], Answer(r))
<1>1. ASSUME NEW r \in Requests, Enter(r)
      PROVE  /\ Has(msgs'[req[r].conv], User(r))
             /\ \A c \in Convs : \A x : Has(msgs[c], x) => Has(msgs'[c], x)
  <2> DEFINE user == Message("user", req[r].send)
  <2>1. /\ user \in Messages /\ req[r].conv \in Convs
        /\ msgs' \in [Convs -> Seq(Messages)]
        /\ \/ Appends(r, user)
           \/ /\ msgs[req[r].conv] = << >>
              /\ Len(msgs'[req[r].conv]) = 2 /\ msgs'[req[r].conv][2] = user
              /\ \A d \in Convs : d # req[r].conv => msgs'[d] = msgs[d]
    BY <1>1, EnterFields
  <2> HIDE DEF user
  <2>2. CASE Appends(r, user)
    BY <2>1, <2>2, AppendHas DEF User, user
  <2>3. CASE ~Appends(r, user)
    <3>1. msgs'[req[r].conv] \in Seq(Messages)
      BY <2>1
    <3>2. 2 \in DOMAIN msgs'[req[r].conv]
      BY <2>1, <2>3, <3>1
    <3>3. Has(msgs'[req[r].conv], user)
      BY <2>1, <2>3, <3>2 DEF Has
    <3> DEFINE none == << >>
    <3>4. \A x : ~Has(none, x)
      BY DEF Has
    <3>5. msgs[req[r].conv] = none
      BY <2>1, <2>3
    <3> HIDE DEF none
    <3>6. \A c \in Convs : \A x : Has(msgs[c], x) => Has(msgs'[c], x)
      BY <2>1, <2>3, <3>4, <3>5
    <3> QED
      BY <3>3, <3>6 DEF User, user
  <2> QED
    BY <2>2, <2>3
<1>2. ASSUME NEW r \in Requests, LLMAnswers(r)
      PROVE  /\ Has(msgs'[req[r].conv], Answer(r))
             /\ \A c \in Convs : \A x : Has(msgs[c], x) => Has(msgs'[c], x)
  <2>1. Appends(r, Answer(r)) /\ req[r].pc \in Bound
    BY <1>2, LLMAnswersFields DEF Answer, Bound, Sending
  <2>2. Answer(r) \in Messages
    BY <2>1, BoundTyped, MessageTyped DEF Answer
  <2> QED
    BY <2>1, <2>2, AppendHas
<1>3. ASSUME NEW r \in Requests, NEW k \in CallCounts, LLMCalls(r, k)
      PROVE  \A c \in Convs : \A x : Has(msgs[c], x) => Has(msgs'[c], x)
  <2> DEFINE m == [role |-> "calls", send |-> req[r].send, calls |-> k]
  <2>1. Appends(r, m) /\ m \in Messages
    BY <1>3, LLMCallsFields
  <2> HIDE DEF m
  <2> QED
    BY <2>1, AppendHas
<1>4. ASSUME NEW r \in Requests, Tool(r)
      PROVE  \A c \in Convs : \A x : Has(msgs[c], x) => Has(msgs'[c], x)
  <2>1. /\ Appends(r, Message("tool", req[r].send)) /\ req[r].pc \in Bound
    BY <1>4, ToolFields DEF Bound, Sending
  <2>2. Message("tool", req[r].send) \in Messages
    BY <2>1, BoundTyped, MessageTyped
  <2> QED
    BY <2>1, <2>2, AppendHas
<1>5. \/ \E r \in Requests, b \in Browsers : Send(r, b) \/ Page(r, b)
      \/ \E r \in Requests : \/ Lookup(r) \/ LLMFails(r) \/ ToolsDone(r)
                             \/ Copy(r) \/ Show(r) \/ Filter(r)
                             \/ Respond(r) \/ ToolPanics(r)
      \/ \E b \in Browsers : Clear(b)
      \/ \E d \in Convs : Age(d)
      \/ \E s \in Sessions : Evict(s)
      \/ Evicted \/ UNCHANGED vars
      => msgs' = msgs
  BY DEF Send, Page, Lookup, LLMFails, ToolsDone, Copy, Show, Filter, Respond,
         ToolPanics, Clear, Age, Evict, Evicted, vars
<1>6. \A c \in Convs : \A x : Has(msgs[c], x) => Has(msgs'[c], x)
  BY <1>1, <1>2, <1>3, <1>4, <1>5 DEF Next, Step
<1> QED
  BY <1>1, <1>2, <1>6

\* A conversation leaves its session by a clear, which notes its sends, or by
\* the evictor, which notes the conversation.
LEMMA ConversationsStay ==
    ASSUME Typed, Followed, [Next]_vars, ~Restart
    PROVE  /\ \A s \in Sessions :
                 /\ forgotten[s] \subseteq forgotten'[s]
                 /\ convs[s] # NoConv => \/ convs'[s] = convs[s]
                                         \/ Found(s) \subseteq forgotten'[s]
                                         \/ convs[s] \in dropped'
           /\ dropped \subseteq dropped' /\ dropped' \subseteq Convs
           /\ evictor' # NoSession => convs'[evictor'] # NoConv
<1>1. /\ convs \in [Sessions -> 0 .. made] /\ evictor \in Sessions \cup {NoSession}
      /\ forgotten \in [Sessions -> SUBSET Sends] /\ dropped \subseteq Convs
      /\ evictor # NoSession => convs[evictor] # NoConv
      /\ \A t \in Sessions : convs[t] # NoConv => convs[t] \in Convs
  BY CountsAreNumbers DEF Typed, Tables, Followed, Convs, NoConv
<1>2. CASE UNCHANGED <<convs, forgotten, dropped, evictor>>
  BY <1>1, <1>2
<1>3. ASSUME NEW r \in Requests, Lookup(r)
      PROVE  /\ UNCHANGED <<forgotten, dropped>> /\ evictor' = NoSession
             /\ \A s \in Sessions : convs[s] # NoConv => convs'[s] = convs[s]
  <2>1. UNCHANGED <<forgotten, dropped, evictor>> /\ evictor = NoSession
    BY <1>3 DEF Lookup, bounds
  <2> QED
    BY <1>1, <1>3, <2>1, LookupFields
<1>4. ASSUME NEW b \in Browsers, Clear(b)
      PROVE  /\ dropped' = dropped /\ evictor' = NoSession
             /\ \A s \in Sessions :
                   /\ forgotten[s] \subseteq forgotten'[s]
                   /\ convs'[s] = convs[s] \/ Found(s) \subseteq forgotten'[s]
  BY <1>1, <1>4 DEF Clear
<1>5. CASE Evicted
  BY <1>1, <1>5 DEF Evicted
<1>6. ASSUME NEW t \in Sessions, Evict(t)
      PROVE  /\ UNCHANGED <<forgotten, dropped, convs>>
             /\ convs'[evictor'] # NoConv
  BY <1>6 DEF Evict, bounds
<1>7. \/ \E r \in Requests : Lookup(r)
      \/ \E b \in Browsers : Clear(b)
      \/ \E t \in Sessions : Evict(t)
      \/ Evicted
      \/ UNCHANGED <<convs, forgotten, dropped, evictor>>
  <2>1. ASSUME NEW r \in Requests,
               \/ Enter(r) \/ LLMFails(r) \/ LLMAnswers(r)
               \/ (\E n \in CallCounts : LLMCalls(r, n)) \/ Tool(r) \/ ToolsDone(r)
               \/ Copy(r) \/ Show(r) \/ Filter(r) \/ Respond(r) \/ ToolPanics(r)
               \/ \E b \in Browsers : Page(r, b) \/ Send(r, b)
        PROVE  UNCHANGED <<convs, forgotten, dropped, evictor>>
    BY <2>1 DEF Page, Send, Enter, LLMFails, LLMAnswers, LLMCalls, Tool, ToolsDone,
                Copy, Show, Filter, Respond, ToolPanics, bounds
  <2>2. ASSUME \/ \E c \in Convs : Age(c)
               \/ UNCHANGED vars
        PROVE  UNCHANGED <<convs, forgotten, dropped, evictor>>
    BY <2>2 DEF Age, vars, bounds
  <2> QED
    BY <2>1, <2>2 DEF Next, Step
<1> QED
  BY <1>1, <1>2, <1>3, <1>4, <1>5, <1>6, <1>7

\* What a request that has written its message knows outlasts the steps of
\* others.
LEMMA InPlaceStays ==
    ASSUME Typed, Followed, [Next]_vars, ~Restart, NEW r \in Requests,
           req[r].pc \in Bound \/ Answered(r)
    PROVE  \/ convs'[req[r].session] = req[r].conv
           \/ req[r].send \in forgotten'[req[r].session]
           \/ req[r].conv \in dropped'
<1> DEFINE s == req[r].session
           c == req[r].conv
           n == req[r].send
<1>1. s \in Sessions /\ c \in Convs /\ c # NoConv /\ n \in Sends
  <2>1. s # NoSession /\ c # NoConv /\ n # 0
    BY DEF Typed, RequestsTyped, ReqTyped, Answered, Bound
  <2> QED
    BY <2>1, ConvTyped
<1>2. convs[s] = c => n \in Found(s)
  <2> SUFFICES ASSUME convs[s] = c PROVE n \in Found(s)
    OBVIOUS
  <2>1. CASE req[r].pc \in Bound
    BY <1>1, <2>1 DEF Found, Bound, Sending
  <2>2. CASE Answered(r)
    <3>1. PICK i \in DOMAIN msgs[c] : msgs[c][i] = User(r)
      BY <2>2 DEF Followed, FollowedReq, Has
    <3>2. msgs[c][i].send = n
      BY <3>1 DEF User, Message
    <3> QED
      BY <1>1, <3>2 DEF Found
  <2> QED
    BY <2>1, <2>2
<1>3. convs[s] = c \/ n \in forgotten[s] \/ c \in dropped
  BY DEF Followed, FollowedReq, InPlace
<1>4. /\ forgotten[s] \subseteq forgotten'[s] /\ dropped \subseteq dropped'
      /\ convs[s] # NoConv => \/ convs'[s] = convs[s]
                              \/ Found(s) \subseteq forgotten'[s]
                              \/ convs[s] \in dropped'
  BY <1>1, ConversationsStay
<1> HIDE DEF s, c, n
<1>5. convs'[s] = c \/ n \in forgotten'[s] \/ c \in dropped'
  BY <1>1, <1>2, <1>3, <1>4
<1> QED
  BY <1>5 DEF s, c, n

LEMMA GoneStays ==
    ASSUME Typed, Followed, [Next]_vars, ~Restart, NEW r \in Requests, Gone(r),
           req[r].ok
    PROVE  \/ req[r].send \in forgotten'[req[r].session]
           \/ \E c \in dropped' : Has(msgs'[c], User(r))
<1>1. req[r].session \in Sessions
  BY ConvTyped DEF Typed, RequestsTyped, ReqTyped
<1>2. /\ forgotten[req[r].session] \subseteq forgotten'[req[r].session]
      /\ dropped \subseteq dropped' /\ dropped \subseteq Convs
  BY <1>1, ConversationsStay DEF Followed
<1>3. \A c \in Convs : \A x : Has(msgs[c], x) => Has(msgs'[c], x)
  BY MessagesStay
<1> QED
  BY <1>2, <1>3 DEF Gone

LEMMA FollowedStays ==
    ASSUME Typed, Followed, [Next]_vars, ~Restart, NEW r \in Requests,
           req'[r] = req[r]
    PROVE  FollowedReq(r)'
<1>1. FollowedReq(r)
  BY DEF Followed
<1>2. User(r)' = User(r) /\ Answer(r)' = Answer(r) /\ (Answered(r)' <=> Answered(r))
  BY DEF User, Answer, Answered
<1>3. req[r].pc \in Bound \/ Answered(r) => InPlace(r)'
  BY InPlaceStays DEF InPlace
<1>4. Gone(r) /\ req[r].ok => Gone(r)'
  BY <1>2, GoneStays DEF Gone
<1>5. req[r].conv # NoConv =>
         \A x : Has(msgs[req[r].conv], x) => Has(msgs'[req[r].conv], x)
  BY MessagesStay, ConvTyped
<1>6. req[r].pc \in Bound \/ Answered(r) \/ req[r].pc = "filter" => req[r].conv # NoConv
  BY DEF Typed, RequestsTyped, ReqTyped, Answered, Bound
<1> QED
  BY <1>1, <1>2, <1>3, <1>4, <1>5, <1>6 DEF FollowedReq

\* A request in the middle of SendMessage goes on.
LEMMA FollowedGoesOn ==
    ASSUME Typed, Followed, [Next]_vars, ~Restart, NEW r \in Requests,
           req[r].pc \in Bound, SameSend(r), req'[r].conv = req[r].conv
    PROVE  /\ InPlace(r)' /\ User(r)' = User(r) /\ Answer(r)' = Answer(r)
           /\ req[r].pc # "enter" => Has(msgs'[req'[r].conv], User(r)')
<1>1. InPlace(r)'
  BY InPlaceStays DEF InPlace, SameSend
<1>2. User(r)' = User(r) /\ Answer(r)' = Answer(r)
  BY DEF User, Answer, SameSend
<1>3. req[r].pc # "enter" => Has(msgs[req[r].conv], User(r))
  BY DEF Followed, FollowedReq
<1>4. req[r].conv \in Convs
  BY BoundTyped
<1> QED
  BY <1>1, <1>2, <1>3, <1>4, MessagesStay

LEMMA FollowedAtShow ==
    ASSUME Typed, Followed, NEW r \in Requests, Show(r)
    PROVE  FollowedReq(r)'
<1> DEFINE s == req[r].session
           c == req[r].conv
<1>1. /\ SameSend(r) /\ req[r].pc = "show" /\ req'[r].ok = req[r].ok
      /\ req'[r].pc = IF req'[r].conv = NoConv THEN "respond" ELSE "filter"
      /\ s # NoSession => req'[r].conv = convs[s]
  BY ShowFields
<1>2. UNCHANGED <<convs, msgs, forgotten, dropped>>
  BY DEF Show, bounds
<1>3. User(r)' = User(r) /\ Answer(r)' = Answer(r) /\ (Gone(r)' <=> Gone(r))
  BY <1>1, <1>2 DEF User, Answer, Gone, SameSend
<1>4. ASSUME req[r].ok
      PROVE  \/ Has(msgs[c], User(r)) /\ Has(msgs[c], Answer(r)) /\ req'[r].conv = c
                /\ c # NoConv
             \/ Gone(r)
  <2>1. Answered(r) /\ s # NoSession /\ c # NoConv
    BY <1>1, <1>4 DEF Answered, Typed, RequestsTyped, ReqTyped
  <2>2. InPlace(r) /\ Has(msgs[c], User(r)) /\ Has(msgs[c], Answer(r))
    BY <2>1 DEF Followed, FollowedReq
  <2> QED
    BY <1>1, <2>1, <2>2 DEF InPlace, Gone
<1>5. req'[r].pc \notin Bound /\ ~Answered(r)'
  BY <1>1 DEF Bound, Sending, Answered
<1> HIDE DEF s, c
<1>6. req'[r].pc = "filter" /\ req'[r].ok =>
          \/ Has(msgs'[req'[r].conv], User(r)') /\ Has(msgs'[req'[r].conv], Answer(r)')
          \/ Gone(r)'
  BY <1>1, <1>2, <1>3, <1>4
<1>7. req'[r].pc = "respond" /\ req'[r].ok => Gone(r)'
  BY <1>1, <1>3, <1>4
<1> QED
  BY <1>5, <1>6, <1>7 DEF FollowedReq

LEMMA FollowedAtFilter ==
    ASSUME Typed, Followed, NEW r \in Requests, Filter(r)
    PROVE  FollowedReq(r)'
<1> DEFINE c == req[r].conv
<1>1. /\ SameSend(r) /\ req[r].pc = "filter" /\ req'[r].pc = "respond"
      /\ req'[r].ok = req[r].ok
      /\ \A i \in DOMAIN msgs[c] : msgs[c][i].role \in {"user", "answer"} =>
            msgs[c][i] \in req'[r].shown
  BY FilterFields
<1>2. UNCHANGED <<msgs, forgotten, dropped>>
  BY DEF Filter, bounds
<1>3. User(r)' = User(r) /\ Answer(r)' = Answer(r) /\ (Gone(r)' <=> Gone(r))
  BY <1>1, <1>2 DEF User, Answer, Gone, SameSend
<1>4. User(r).role = "user" /\ Answer(r).role = "answer"
  BY DEF User, Answer, Message
<1>5. req[r].ok => \/ Has(msgs[c], User(r)) /\ Has(msgs[c], Answer(r))
                   \/ Gone(r)
  BY <1>1 DEF Followed, FollowedReq
<1> HIDE DEF c
<1>6. req[r].ok => {User(r), Answer(r)} \subseteq req'[r].shown \/ Gone(r)
  BY <1>1, <1>4, <1>5 DEF Has
<1>7. req'[r].pc \notin Bound /\ ~Answered(r)' /\ req'[r].pc # "filter"
  BY <1>1 DEF Bound, Sending, Answered
<1> QED
  BY <1>1, <1>3, <1>6, <1>7 DEF FollowedReq

LEMMA FollowedNext == Typed /\ Followed /\ [Next]_vars => Followed'
<1> SUFFICES ASSUME Typed, Followed, [Next]_vars PROVE Followed'
  OBVIOUS
<1>1. CASE Restart
  <2>1. /\ evictor' = NoSession /\ dropped' = dropped
        /\ \A r \in Requests : req'[r].pc = "idle"
    BY <1>1, IdleTyped DEF Restart
  <2>2. \A r \in Requests : FollowedReq(r)'
    BY <2>1 DEF FollowedReq, Answered, Bound, Sending
  <2> QED
    BY <2>1, <2>2 DEF Followed
<1>2. CASE ~Restart
  <2>1. dropped' \subseteq Convs /\ (evictor' # NoSession => convs'[evictor'] # NoConv)
    BY <1>2, ConversationsStay
  <2>2. ASSUME NEW r \in Requests PROVE FollowedReq(r)'
    <3> DEFINE Goes == req[r].pc \in Bound /\ SameSend(r) /\ req'[r].conv = req[r].conv
                       /\ ~req'[r].ok
    <3>1. ASSUME Goes, req[r].pc # "enter" PROVE FollowedReq(r)'
      BY <1>2, <3>1, FollowedGoesOn DEF FollowedReq, Answered
    <3>2. CASE Enter(r)
      <4>1. Goes /\ req'[r].pc = "llm"
        BY <3>2, EnterFields DEF Bound, Sending
      <4>2. Has(msgs'[req'[r].conv], User(r)') /\ InPlace(r)'
        BY <1>2, <3>2, <4>1, FollowedGoesOn, MessagesStay
      <4> QED
        BY <4>1, <4>2 DEF FollowedReq, Answered
    <3>3. CASE LLMAnswers(r)
      <4>1. /\ req[r].pc = "llm" /\ SameSend(r) /\ req'[r].conv = req[r].conv
            /\ req'[r].pc = "show" /\ req[r].pc \in Bound
        BY <3>3, LLMAnswersFields DEF Bound, Sending
      <4>2. /\ Has(msgs'[req'[r].conv], User(r)') /\ InPlace(r)'
            /\ Has(msgs'[req'[r].conv], Answer(r)')
        BY <1>2, <3>3, <4>1, FollowedGoesOn, MessagesStay
      <4> QED
        BY <4>1, <4>2 DEF FollowedReq
    <3>4. CASE Lookup(r)
      <4>1. /\ req'[r].pc = "enter" /\ req[r].session \in Sessions /\ SameSend(r)
            /\ convs'[req[r].session] = req'[r].conv
        <5>1. convs \in [Sessions -> 0 .. made] /\ req[r].session \in Sessions
          BY <3>4, LookupFields DEF Typed, Tables
        <5> QED
          BY <3>4, <5>1, LookupFields
      <4>2. InPlace(r)'
        BY <4>1 DEF InPlace, SameSend
      <4> QED
        BY <4>1, <4>2 DEF FollowedReq, Answered, Bound
    <3>5. CASE Tool(r) \/ ToolsDone(r) \/ Copy(r) \/ (\E n \in CallCounts : LLMCalls(r, n))
      <4>1. Goes /\ req[r].pc # "enter"
        BY <3>5, ToolFields, ToolsDoneFields, CopyFields, LLMCallsFields
           DEF Bound, Sending
      <4> QED
        BY <3>1, <4>1
    <3>6. ASSUME req'[r].pc \in {"idle", "lookup"} \/ ~req'[r].ok,
                 req'[r].pc \notin Bound
          PROVE  FollowedReq(r)'
      BY <3>6 DEF FollowedReq, Answered
    <3>7. CASE \/ LLMFails(r) \/ Respond(r) \/ ToolPanics(r)
               \/ \E b \in Browsers : Send(r, b) \/ Page(r, b)
      <4>1. /\ req'[r].pc \in {"idle", "lookup"} \/ ~req'[r].ok
            /\ req'[r].pc \notin Bound
        BY <3>7, LLMFailsFields, EndFields, IdleTyped, SendFields, PageFields
           DEF Bound, Sending
      <4> QED
        BY <3>6, <4>1
    <3>8. ASSUME NEW q \in Requests, q # r,
                 \/ Step(q) \/ ToolPanics(q) \/ \E b \in Browsers : Send(q, b) \/ Page(q, b)
          PROVE  req'[r] = req[r]
      <4>1. Only(q)
        <5>1. CASE Step(q)
          BY <5>1, StepsAreLocal
        <5>2. CASE ToolPanics(q) \/ \E b \in Browsers : Send(q, b) \/ Page(q, b)
          BY <5>2, EndFields, SendFields, PageFields
        <5> QED
          BY <3>8, <5>1, <5>2
      <4> QED
        BY <3>8, <4>1 DEF Only
    <3>9. ASSUME \/ \E b \in Browsers : Clear(b)
                 \/ \E c \in Convs : Age(c)
                 \/ \E s \in Sessions : Evict(s)
                 \/ Evicted \/ UNCHANGED vars
          PROVE  req'[r] = req[r]
      BY <3>9 DEF Clear, Age, Evict, Evicted, vars
    <3>10. CASE req'[r] = req[r]
      BY <1>2, <3>10, FollowedStays
    <3> HIDE DEF Goes
    <3> QED
      BY <1>2, <3>2, <3>3, <3>4, <3>5, <3>7, <3>8, <3>9, <3>10, FollowedAtShow,
         FollowedAtFilter DEF Next, Step
  <2> QED
    BY <2>1, <2>2 DEF Followed
<1> QED
  BY <1>1, <1>2

LEMMA FollowedAlways == Spec => []Followed
<1>1. Init => Followed
  <2> SUFFICES ASSUME Init PROVE Followed
    OBVIOUS
  <2>1. /\ evictor = NoSession /\ dropped = {}
        /\ \A r \in Requests : req[r].pc = "idle"
    BY IdleTyped DEF Init
  <2> QED
    BY <2>1 DEF Followed, FollowedReq, Answered, Bound, Sending
<1> QED
  BY <1>1, FollowedNext, TypedAlways, PTL DEF Spec

\* The page that ends a successful SendMessage shows the message and its
\* answer, whatever other requests of the session did meanwhile, unless a
\* clear or the evictor took the conversation away.
THEOREM NoAnswerLost == Spec => []AnswersAreShown
<1>1. Typed /\ Followed => AnswersAreShown
  <2> SUFFICES ASSUME Followed, NEW r \in Requests, req[r].pc = "respond", req[r].ok
               PROVE  \/ {Message("user", req[r].send), Message("answer", req[r].send)}
                            \subseteq req[r].shown
                      \/ req[r].send \in forgotten[req[r].session]
                      \/ \E c \in dropped : \E i \in DOMAIN msgs[c] :
                            msgs[c][i] = Message("user", req[r].send)
    BY DEF AnswersAreShown
  <2> QED
    BY DEF Followed, FollowedReq, Gone, Has, User, Answer
<1> QED
  BY <1>1, TypedAlways, FollowedAlways, PTL

-----------------------------------------------------------------------------
(* Transcripts                                                             *)

\* p is a well-formed transcript but for the last k replies to the tool calls
\* of send n.
Formed(p, k, n) ==
    /\ p \in Seq(Messages)
    /\ \A i \in 1 .. Len(p) : p[i].role = "system" <=> i = 1
    /\ \A j \in 1 .. Len(p) : p[j].role = "calls" =>
          /\ j + p[j].calls <= Len(p) + k
          /\ \A i \in j + 1 .. j + p[j].calls :
                i <= Len(p) => p[i] = Message("tool", p[j].send)
          /\ j + p[j].calls > Len(p) => p[j].send = n
    /\ \A i \in 1 .. Len(p) + k : i > Len(p) \/ p[i].role = "tool" =>
          \E j \in 1 .. Len(p) : p[j].role = "calls" /\ i \in j + 1 .. j + p[j].calls

LEMMA CallsAreNumbers ==
    ASSUME NEW m \in Messages, m.role = "calls"
    PROVE  m.calls \in Nat \ {0}
BY BoundsAssumption DEF Messages, Message0

LEMMA AppendAt ==
    ASSUME NEW p \in Seq(Messages), NEW m \in Messages
    PROVE  LET q == Append(p, m) IN
           /\ q \in Seq(Messages) /\ Len(q) = Len(p) + 1 /\ q[Len(p) + 1] = m
           /\ \A i \in 1 .. Len(p) : q[i] = p[i] /\ p[i] \in Messages
           /\ Len(p) \in Nat
OBVIOUS

LEMMA FormedAdd ==
    ASSUME NEW p, NEW a, NEW b, NEW m \in Messages, Formed(p, 0, a), Len(p) > 0,
           m.role \in {"user", "answer"}
    PROVE  Formed(Append(p, m), 0, b)
<1> DEFINE q == Append(p, m)
           l == Len(p)
<1>1. /\ p \in Seq(Messages)
      /\ \A i \in 1 .. l : p[i].role = "system" <=> i = 1
      /\ \A j \in 1 .. l : p[j].role = "calls" =>
            /\ j + p[j].calls <= l
            /\ \A i \in j + 1 .. j + p[j].calls :
                  i <= l => p[i] = Message("tool", p[j].send)
      /\ \A i \in 1 .. l : p[i].role = "tool" =>
            \E j \in 1 .. l : p[j].role = "calls" /\ i \in j + 1 .. j + p[j].calls
  <2>1. p \in Seq(Messages)
    BY DEF Formed
  <2>2. l \in Nat /\ \A j \in 1 .. l : p[j].role = "calls" => p[j].calls \in Nat
    BY <2>1, CallsAreNumbers
  <2> QED
    BY <2>1, <2>2 DEF Formed
<1>2. /\ q \in Seq(Messages) /\ Len(q) = l + 1 /\ q[l + 1] = m /\ l \in Nat
      /\ \A i \in 1 .. l : q[i] = p[i] /\ p[i] \in Messages
  BY <1>1, AppendAt
<1>3. \A j \in 1 .. l : p[j].role = "calls" => p[j].calls \in Nat
  BY <1>2, CallsAreNumbers
<1>4. l > 0
  OBVIOUS
<1> HIDE DEF q, l
<1>5. \A i \in 1 .. l + 1 : q[i].role = "system" <=> i = 1
  BY <1>1, <1>2, <1>4
<1>6. ASSUME NEW j \in 1 .. l + 1, q[j].role = "calls"
      PROVE  /\ j + q[j].calls <= l + 1 + 0
             /\ \A i \in j + 1 .. j + q[j].calls :
                   i <= l + 1 => q[i] = Message("tool", q[j].send)
             /\ j + q[j].calls > l + 1 => q[j].send = b
  <2>1. j \in 1 .. l /\ q[j] = p[j]
    BY <1>2, <1>6
  <2>2. /\ p[j].calls \in Nat /\ j + p[j].calls <= l
        /\ \A i \in j + 1 .. j + p[j].calls :
              i <= l => p[i] = Message("tool", p[j].send)
    BY <1>1, <1>3, <1>6, <2>1
  <2>3. \A i \in j + 1 .. j + p[j].calls : i \in 1 .. l /\ q[i] = p[i] /\ i <= l
    BY <1>2, <2>1, <2>2
  <2> QED
    BY <1>2, <2>1, <2>2, <2>3
<1>7. ASSUME NEW i \in 1 .. l + 1 + 0, i > l + 1 \/ q[i].role = "tool"
      PROVE  \E j \in 1 .. l + 1 : q[j].role = "calls" /\ i \in j + 1 .. j + q[j].calls
  <2>1. i \in 1 .. l /\ p[i].role = "tool"
    BY <1>2, <1>7
  <2>2. PICK j \in 1 .. l : p[j].role = "calls" /\ i \in j + 1 .. j + p[j].calls
    BY <1>1, <2>1
  <2>3. j \in 1 .. l + 1 /\ q[j] = p[j]
    BY <1>2, <2>2
  <2> QED
    BY <2>2, <2>3
<1>8. Formed(q, 0, b)
  BY <1>2, <1>5, <1>6, <1>7 DEF Formed
<1> QED
  BY <1>8 DEF q

LEMMA FormedDone ==
    ASSUME NEW p, NEW a, NEW b, Formed(p, 0, a)
    PROVE  Formed(p, 0, b)
<1>1. p \in Seq(Messages) /\ Len(p) \in Nat
  BY DEF Formed
<1>2. \A j \in 1 .. Len(p) : p[j].role = "calls" =>
         p[j].calls \in Nat /\ j + p[j].calls <= Len(p) + 0
  BY <1>1, CallsAreNumbers DEF Formed
<1>3. \A j \in 1 .. Len(p) : p[j].role = "calls" => ~(j + p[j].calls > Len(p))
  BY <1>1, <1>2
<1> QED
  BY <1>3 DEF Formed

LEMMA FormedCalls ==
    ASSUME NEW p, NEW a, NEW k \in CallCounts, NEW n \in Sends, Formed(p, 0, a),
           Len(p) > 0
    PROVE  Formed(Append(p, [role |-> "calls", send |-> n, calls |-> k]), k, n)
<1> DEFINE m == [role |-> "calls", send |-> n, calls |-> k]
           q == Append(p, m)
           l == Len(p)
<1>1. /\ p \in Seq(Messages) /\ m \in Messages /\ m.role = "calls" /\ m.send = n
      /\ m.calls = k /\ k \in Nat \ {0} /\ Formed(p, 0, n)
  <2>1. p \in Seq(Messages)
    BY DEF Formed
  <2>2. Formed(p, 0, n)
    BY FormedDone
  <2>3. /\ m \in Messages /\ m.role = "calls" /\ m.send = n /\ m.calls = k
    BY CallsTyped
  <2>4. k \in Nat \ {0}
    BY BoundsAssumption
  <2> QED
    BY <2>1, <2>2, <2>3, <2>4
<1> HIDE DEF m
<1>2. /\ q \in Seq(Messages) /\ Len(q) = l + 1 /\ q[l + 1] = m /\ l \in Nat
      /\ \A i \in 1 .. l : q[i] = p[i] /\ p[i] \in Messages
  BY <1>1, AppendAt
<1>3. \A j \in 1 .. l : p[j].role = "calls" =>
         /\ p[j].calls \in Nat /\ j + p[j].calls <= l
         /\ \A i \in j + 1 .. j + p[j].calls : i <= l => p[i] = Message("tool", p[j].send)
  <2>1. \A j \in 1 .. l : p[j].role = "calls" =>
           /\ p[j].calls \in Nat /\ j + p[j].calls <= l + 0
           /\ \A i \in j + 1 .. j + p[j].calls :
                 i <= l => p[i] = Message("tool", p[j].send)
    BY <1>1, <1>2, CallsAreNumbers DEF Formed
  <2> QED
    BY <1>2, <2>1
<1>4. /\ \A i \in 1 .. l : p[i].role = "system" <=> i = 1
      /\ \A i \in 1 .. l + 0 : i > l \/ p[i].role = "tool" =>
            \E j \in 1 .. l : p[j].role = "calls" /\ i \in j + 1 .. j + p[j].calls
      /\ l > 0
  BY <1>1 DEF Formed
<1> HIDE DEF q, l
<1>5. \A i \in 1 .. l + 1 : q[i].role = "system" <=> i = 1
  BY <1>1, <1>2, <1>4
<1>6. ASSUME NEW j \in 1 .. l + 1, q[j].role = "calls"
      PROVE  /\ j + q[j].calls <= l + 1 + k
             /\ \A i \in j + 1 .. j + q[j].calls :
                   i <= l + 1 => q[i] = Message("tool", q[j].send)
             /\ j + q[j].calls > l + 1 => q[j].send = n
  <2>1. CASE j = l + 1
    BY <1>1, <1>2, <2>1
  <2>2. CASE j # l + 1
    <3>1. j \in 1 .. l /\ q[j] = p[j]
      BY <1>2, <1>6, <2>2
    <3>2. /\ p[j].calls \in Nat /\ j + p[j].calls <= l
          /\ \A i \in j + 1 .. j + p[j].calls :
                i <= l => p[i] = Message("tool", p[j].send)
      BY <1>3, <1>6, <3>1
    <3>3. \A i \in j + 1 .. j + p[j].calls : i \in 1 .. l /\ q[i] = p[i] /\ i <= l
      BY <1>2, <3>1, <3>2
    <3> QED
      BY <1>1, <1>2, <3>1, <3>2, <3>3
  <2> QED
    BY <2>1, <2>2
<1>7. ASSUME NEW i \in 1 .. l + 1 + k, i > l + 1 \/ q[i].role = "tool"
      PROVE  \E j \in 1 .. l + 1 : q[j].role = "calls" /\ i \in j + 1 .. j + q[j].calls
  <2>1. CASE i > l + 1
    <3>1. l + 1 \in 1 .. l + 1 /\ i \in (l + 1) + 1 .. (l + 1) + q[l + 1].calls
      BY <1>1, <1>2, <1>7, <2>1
    <3> QED
      BY <1>1, <1>2, <3>1
  <2>2. CASE ~(i > l + 1)
    <3>1. i \in 1 .. l /\ p[i].role = "tool"
      BY <1>1, <1>2, <1>7, <2>2
    <3>2. PICK j \in 1 .. l : p[j].role = "calls" /\ i \in j + 1 .. j + p[j].calls
      BY <1>2, <1>4, <3>1
    <3>3. j \in 1 .. l + 1 /\ q[j] = p[j]
      BY <1>2, <3>2
    <3> QED
      BY <3>2, <3>3
  <2> QED
    BY <2>1, <2>2
<1>8. Formed(q, k, n)
  BY <1>2, <1>5, <1>6, <1>7 DEF Formed
<1> QED
  BY <1>8 DEF q, m

LEMMA FormedTool ==
    ASSUME NEW p, NEW k \in Nat \ {0}, NEW n, Formed(p, k, n),
           Message("tool", n) \in Messages
    PROVE  Formed(Append(p, Message("tool", n)), k - 1, n)
<1> DEFINE m == Message("tool", n)
           q == Append(p, m)
           l == Len(p)
<1>1. p \in Seq(Messages) /\ m \in Messages /\ m.role = "tool"
  BY DEF Formed, Message
<1>2. /\ q \in Seq(Messages) /\ Len(q) = l + 1 /\ q[l + 1] = m /\ l \in Nat
      /\ \A i \in 1 .. l : q[i] = p[i] /\ p[i] \in Messages
  BY <1>1, AppendAt
<1>3. \A j \in 1 .. l : p[j].role = "calls" =>
         /\ p[j].calls \in Nat /\ j + p[j].calls <= l + k
         /\ \A i \in j + 1 .. j + p[j].calls : i <= l => p[i] = Message("tool", p[j].send)
         /\ j + p[j].calls > l => p[j].send = n
  BY <1>1, <1>2, CallsAreNumbers DEF Formed
<1>4. /\ \A i \in 1 .. l : p[i].role = "system" <=> i = 1
      /\ \A i \in 1 .. l + k : i > l \/ p[i].role = "tool" =>
            \E j \in 1 .. l : p[j].role = "calls" /\ i \in j + 1 .. j + p[j].calls
  BY DEF Formed
<1>5. l > 0
  <2>1. l + 1 \in 1 .. l + k /\ l + 1 > l
    BY <1>2
  <2> QED
    BY <1>2, <1>4, <2>1
<1> HIDE DEF q, l
<1>6. \A i \in 1 .. l + 1 : q[i].role = "system" <=> i = 1
  BY <1>1, <1>2, <1>4, <1>5
<1>7. ASSUME NEW j \in 1 .. l + 1, q[j].role = "calls"
      PROVE  /\ j + q[j].calls <= l + 1 + (k - 1)
             /\ \A i \in j + 1 .. j + q[j].calls :
                   i <= l + 1 => q[i] = Message("tool", q[j].send)
             /\ j + q[j].calls > l + 1 => q[j].send = n
  <2>1. j \in 1 .. l /\ q[j] = p[j]
    BY <1>1, <1>2, <1>7
  <2>2. /\ p[j].calls \in Nat /\ j + p[j].calls <= l + k
        /\ \A i \in j + 1 .. j + p[j].calls :
              i <= l => p[i] = Message("tool", p[j].send)
        /\ j + p[j].calls > l => p[j].send = n
    BY <1>3, <1>7, <2>1
  <2>3. ASSUME NEW i \in j + 1 .. j + p[j].calls, i <= l + 1
        PROVE  q[i] = Message("tool", p[j].send)
    <3>1. CASE i = l + 1
      <4>1. p[j].send = n
        BY <1>2, <2>1, <2>2, <2>3, <3>1
      <4> QED
        BY <1>2, <3>1, <4>1
    <3>2. CASE i # l + 1
      <4>1. i \in 1 .. l /\ i <= l
        BY <1>2, <2>1, <2>2, <2>3, <3>2
      <4> QED
        BY <1>2, <2>2, <2>3, <4>1
    <3> QED
      BY <3>1, <3>2
  <2>4. j + p[j].calls <= l + 1 + (k - 1)
    BY <1>2, <2>1, <2>2
  <2>5. j + p[j].calls > l + 1 => p[j].send = n
    BY <1>2, <2>1, <2>2
  <2> QED
    BY <2>1, <2>3, <2>4, <2>5
<1>8. ASSUME NEW i \in 1 .. l + 1 + (k - 1), i > l + 1 \/ q[i].role = "tool"
      PROVE  \E j \in 1 .. l + 1 : q[j].role = "calls" /\ i \in j + 1 .. j + q[j].calls
  <2>1. i \in 1 .. l + k /\ (i > l \/ p[i].role = "tool")
    BY <1>2, <1>8
  <2>2. PICK j \in 1 .. l : p[j].role = "calls" /\ i \in j + 1 .. j + p[j].calls
    BY <1>4, <2>1
  <2>3. j \in 1 .. l + 1 /\ q[j] = p[j]
    BY <1>2, <2>2
  <2> QED
    BY <2>2, <2>3
<1>9. Formed(q, k - 1, n)
  <2>1. k - 1 \in Int
    OBVIOUS
  <2> QED
    BY <1>2, <1>6, <1>7, <1>8 DEF Formed
<1> QED
  BY <1>9 DEF q

LEMMA FormedStart ==
    ASSUME NEW p \in Seq(Messages), NEW n, NEW b, Len(p) = 2,
           p[1] = Message("system", 0), p[2] = Message("user", n)
    PROVE  Formed(p, 0, b)
<1>1. p[1].role = "system" /\ p[2].role = "user"
  BY DEF Message
<1>2. \A i \in 1 .. 2 : (i = 1 \/ i = 2) /\ ~(i > 2)
  OBVIOUS
<1>3. \A i \in 1 .. 2 : /\ p[i].role = "system" <=> i = 1
                        /\ p[i].role # "calls" /\ p[i].role # "tool"
  BY <1>1, <1>2
<1> QED
  BY <1>2, <1>3 DEF Formed

Transcripts ==
    /\ \A c \in Convs : lock[c] = "free" => Formed(msgs[c], 0, 0)
    /\ \A r \in Requests : req[r].pc = "tools" =>
          Formed(msgs[req[r].conv], req[r].calls, req[r].send)
    /\ \A r \in Requests : req[r].pc = "llm" =>
          Formed(req[r].prompt, 0, 0) /\ Has(req[r].prompt, User(r))

\* A request that holds no lock appends to a conversation that nobody holds,
\* or to none.
LEMMA TranscriptsFrame ==
    ASSUME Typed, Locked, Transcripts, NEW r \in Requests, Only(r),
           lock' = lock, req'[r].pc # "tools",
           \A c \in Convs : c # req[r].conv => msgs'[c] = msgs[c],
           req[r].conv \in Convs =>
              \/ msgs'[req[r].conv] = msgs[req[r].conv]
              \/ /\ lock[req[r].conv] = "free"
                 /\ Formed(msgs'[req[r].conv], 0, 0),
           req'[r].pc = "llm" =>
              Formed(req'[r].prompt, 0, 0) /\ Has(req'[r].prompt, User(r)')
    PROVE  Transcripts'
<1>1. \A c \in Convs : lock'[c] = "free" => Formed(msgs'[c], 0, 0)
  BY DEF Transcripts
<1>2. ASSUME NEW q \in Requests, req'[q].pc = "tools"
      PROVE  Formed(msgs'[req'[q].conv], req'[q].calls, req'[q].send)
  <2>1. q # r /\ req'[q] = req[q]
    BY <1>2 DEF Only
  <2>2. req[q].conv \in Convs
    BY <1>2, <2>1, BoundTyped DEF Bound, Sending
  <2>3. lock[req[q].conv] = "held"
    BY <1>2, <2>1, <2>2 DEF Locked, Holds
  <2>4. msgs'[req[q].conv] = msgs[req[q].conv]
    BY <2>2, <2>3
  <2> QED
    BY <1>2, <2>1, <2>4 DEF Transcripts
<1>3. ASSUME NEW q \in Requests, req'[q].pc = "llm"
      PROVE  Formed(req'[q].prompt, 0, 0) /\ Has(req'[q].prompt, User(q)')
  <2>1. CASE q = r
    BY <1>3, <2>1
  <2>2. CASE q # r
    <3>1. req'[q] = req[q] /\ User(q)' = User(q)
      BY <2>2 DEF Only, User
    <3> QED
      BY <1>3, <3>1 DEF Transcripts
  <2> QED
    BY <2>1, <2>2
<1> QED
  BY <1>1, <1>2, <1>3 DEF Transcripts

LEMMA TranscriptsEnter ==
    ASSUME Typed, Locked, Transcripts, NEW r \in Requests, Enter(r)
    PROVE  Transcripts'
<1> DEFINE c == req[r].conv
           user == Message("user", req[r].send)
<1>1. /\ Only(r) /\ SameSend(r) /\ c \in Convs /\ lock[c] = "free"
      /\ req'[r].pc = "llm" /\ req'[r].prompt = msgs'[c] /\ user \in Messages
      /\ msgs' \in [Convs -> Seq(Messages)] /\ lock' = lock
      /\ \/ msgs'[c] = Append(msgs[c], user) /\ msgs[c] # << >>
         \/ /\ Len(msgs'[c]) = 2 /\ msgs'[c][2] = user
            /\ msgs'[c][1] = Message("system", 0)
      /\ \A d \in Convs : d # c => msgs'[d] = msgs[d]
  BY EnterFields DEF Enter, Appends
<1>2. Formed(msgs[c], 0, 0) /\ user.role = "user"
  BY <1>1 DEF Transcripts, Message
<1>3. msgs[c] \in Seq(Messages) /\ msgs'[c] \in Seq(Messages)
  BY <1>1 DEF Typed, Tables
<1>4. Formed(msgs'[c], 0, 0) /\ Has(msgs'[c], user)
  <2>1. CASE msgs'[c] = Append(msgs[c], user) /\ msgs[c] # << >>
    <3>1. Len(msgs[c]) > 0
      BY <1>3, <2>1
    <3>2. Formed(msgs'[c], 0, 0)
      BY <1>1, <1>2, <2>1, <3>1, FormedAdd
    <3>3. Len(msgs[c]) + 1 \in DOMAIN msgs'[c] /\ msgs'[c][Len(msgs[c]) + 1] = user
      <4>1. user \in Messages /\ msgs[c] \in Seq(Messages)
        BY <1>1, <1>3
      <4> HIDE DEF user, c
      <4>2. LET q == Append(msgs[c], user)
            IN  /\ q \in Seq(Messages) /\ Len(q) = Len(msgs[c]) + 1
                /\ q[Len(msgs[c]) + 1] = user /\ Len(msgs[c]) \in Nat
        BY <4>1, AppendAt
      <4> QED
        BY <2>1, <4>2
    <3> QED
      BY <3>2, <3>3 DEF Has
  <2>2. CASE /\ Len(msgs'[c]) = 2 /\ msgs'[c][2] = user
             /\ msgs'[c][1] = Message("system", 0)
    <3>1. Formed(msgs'[c], 0, 0)
      BY <1>3, <2>2, FormedStart
    <3>2. 2 \in DOMAIN msgs'[c]
      BY <1>3, <2>2
    <3> QED
      BY <2>2, <3>1, <3>2 DEF Has
  <2> QED
    BY <1>1, <2>1, <2>2
<1>5. User(r)' = user
  BY <1>1 DEF User, SameSend
<1> QED
  BY <1>1, <1>4, <1>5, TranscriptsFrame

LEMMA NotEmpty ==
    ASSUME Typed, Followed, NEW r \in Requests, req[r].pc = "llm"
    PROVE  Len(msgs[req[r].conv]) > 0
<1>1. req[r].conv \in Convs /\ msgs[req[r].conv] \in Seq(Messages)
  BY BoundTyped DEF Bound, Sending
<1>2. Has(msgs[req[r].conv], User(r))
  BY DEF Followed, FollowedReq, Bound, Sending
<1> QED
  BY <1>1, <1>2 DEF Has

LEMMA TranscriptsAnswer ==
    ASSUME Typed, Locked, Followed, Transcripts, NEW r \in Requests, LLMAnswers(r)
    PROVE  Transcripts'
<1> DEFINE c == req[r].conv
           m == Message("answer", req[r].send)
<1>1. /\ Only(r) /\ lock[c] = "free" /\ req'[r].pc = "show" /\ req[r].pc = "llm"
      /\ Appends(r, m)
  BY LLMAnswersFields
<1>2. req[r].send \in 0 .. MaxSends /\ c \in Convs
  BY <1>1, BoundTyped DEF Bound, Sending
<1>3. m \in Messages /\ m.role = "answer"
  BY <1>2, MessageTyped
<1>4. Formed(msgs[c], 0, 0) /\ Len(msgs[c]) > 0
  BY <1>1, <1>2, NotEmpty DEF Transcripts
<1> HIDE DEF m
<1>5. Formed(Append(msgs[c], m), 0, 0)
  BY <1>3, <1>4, FormedAdd
<1>6. msgs'[c] = Append(msgs[c], m) /\ lock' = lock
      /\ \A d \in Convs : d # c => msgs'[d] = msgs[d]
  BY <1>1 DEF Appends, LLMAnswers
<1> QED
  BY <1>1, <1>5, <1>6, TranscriptsFrame

\* The same for a request that holds the lock of its conversation, or takes
\* it or gives it back.
LEMMA TranscriptsHolder ==
    ASSUME Typed, Locked, Transcripts, NEW r \in Requests, Only(r),
           req[r].conv \in Convs, req'[r].pc # "llm",
           \A d \in Convs : d # req[r].conv => msgs'[d] = msgs[d] /\ lock'[d] = lock[d],
           lock[req[r].conv] = "free" \/ Holds(r, req[r].conv),
           lock'[req[r].conv] = "free" => Formed(msgs'[req[r].conv], 0, 0),
           req'[r].pc = "tools" => /\ req'[r].conv = req[r].conv
                                   /\ Formed(msgs'[req[r].conv], req'[r].calls, req'[r].send)
    PROVE  Transcripts'
<1>1. \A c \in Convs : lock'[c] = "free" => Formed(msgs'[c], 0, 0)
  BY DEF Transcripts
<1>2. ASSUME NEW q \in Requests, req'[q].pc = "tools"
      PROVE  Formed(msgs'[req'[q].conv], req'[q].calls, req'[q].send)
  <2>1. CASE q = r
    BY <1>2, <2>1
  <2>2. CASE q # r
    <3>1. req'[q] = req[q]
      BY <2>2 DEF Only
    <3>2. req[q].conv \in Convs
      BY <1>2, <3>1, BoundTyped DEF Bound, Sending
    <3>3. Holds(q, req[q].conv)
      BY <1>2, <3>1 DEF Holds
    <3>4. lock[req[q].conv] = "held"
      BY <3>2, <3>3 DEF Locked
    <3>5. req[q].conv # req[r].conv
      BY <2>2, <3>2, <3>3, <3>4 DEF Locked
    <3> QED
      BY <1>2, <3>1, <3>2, <3>5 DEF Transcripts
  <2> QED
    BY <2>1, <2>2
<1>3. ASSUME NEW q \in Requests, req'[q].pc = "llm"
      PROVE  Formed(req'[q].prompt, 0, 0) /\ Has(req'[q].prompt, User(q)')
  <2>1. q # r /\ req'[q] = req[q]
    BY <1>3 DEF Only
  <2>2. User(q)' = User(q)
    BY <2>1 DEF User
  <2> QED
    BY <1>3, <2>1, <2>2 DEF Transcripts
<1> QED
  BY <1>1, <1>2, <1>3 DEF Transcripts

LEMMA TranscriptsCalls ==
    ASSUME Typed, Locked, Followed, Transcripts, NEW r \in Requests,
           NEW k \in CallCounts, LLMCalls(r, k)
    PROVE  Transcripts'
<1> DEFINE c == req[r].conv
           n == req[r].send
           m == [role |-> "calls", send |-> n, calls |-> k]
<1>1. /\ Only(r) /\ SameSend(r) /\ req[r].pc = "llm" /\ req'[r].pc = "tools"
      /\ req'[r].calls = k /\ req'[r].conv = c
      /\ lock[c] = "free" /\ lock' = [lock EXCEPT ![c] = "held"] /\ Appends(r, m)
  BY LLMCallsFields
<1>2. n \in Sends /\ c \in Convs /\ lock \in [Convs -> {"free", "held", "poisoned"}]
  BY <1>1, BoundTyped DEF Bound, Sending, Typed, Tables
<1>3. Formed(msgs[c], 0, 0) /\ Len(msgs[c]) > 0
  BY <1>1, <1>2, NotEmpty DEF Transcripts
<1>4. Formed(Append(msgs[c], m), k, n)
  BY <1>2, <1>3, FormedCalls
<1> HIDE DEF m
<1>5. /\ msgs'[c] = Append(msgs[c], m) /\ lock'[c] = "held" /\ req'[r].send = n
      /\ \A d \in Convs : d # c => msgs'[d] = msgs[d] /\ lock'[d] = lock[d]
  BY <1>1, <1>2 DEF Appends, SameSend
<1> QED
  BY <1>1, <1>2, <1>4, <1>5, TranscriptsHolder

LEMMA TranscriptsTool ==
    ASSUME Typed, Locked, Transcripts, NEW r \in Requests, Tool(r)
    PROVE  Transcripts'
<1> DEFINE c == req[r].conv
           n == req[r].send
           m == Message("tool", n)
<1>1. /\ Only(r) /\ SameSend(r) /\ req[r].pc = "tools" /\ req'[r].pc = "tools"
      /\ req[r].calls \in Nat \ {0} /\ req'[r].calls = req[r].calls - 1
      /\ req'[r].conv = c /\ Appends(r, m)
  BY ToolFields
<1>2. n \in 0 .. MaxSends /\ c \in Convs
  BY <1>1, BoundTyped DEF Bound, Sending
<1>3. m \in Messages /\ Formed(msgs[c], req[r].calls, n)
  BY <1>1, <1>2, MessageTyped DEF Transcripts
<1>4. Formed(Append(msgs[c], m), req[r].calls - 1, n)
  BY <1>1, <1>3, FormedTool
<1>5. Holds(r, c) /\ lock[c] = "held" /\ lock' = lock
  BY <1>1, <1>2 DEF Holds, Locked, Tool
<1>6. /\ msgs'[c] = Append(msgs[c], m) /\ req'[r].send = n
      /\ \A d \in Convs : d # c => msgs'[d] = msgs[d]
  BY <1>1 DEF Appends, SameSend
<1> QED
  BY <1>1, <1>2, <1>4, <1>5, <1>6, TranscriptsHolder

LEMMA TranscriptsRelease ==
    ASSUME Typed, Locked, Transcripts, NEW r \in Requests,
           ToolsDone(r) \/ ToolPanics(r)
    PROVE  Transcripts'
<1> DEFINE c == req[r].conv
<1>1. /\ Only(r) /\ req[r].pc = "tools" /\ req'[r].pc \notin {"tools", "llm"}
      /\ msgs' = msgs
      /\ \/ lock' = [lock EXCEPT ![c] = "free"] /\ req[r].calls = 0
         \/ lock' = [lock EXCEPT ![c] = "poisoned"]
  BY ToolsDoneFields, EndFields, IdleTyped DEF ToolsDone, ToolPanics
<1>2. c \in Convs /\ lock \in [Convs -> {"free", "held", "poisoned"}]
  BY <1>1, BoundTyped DEF Bound, Sending, Typed, Tables
<1>3. Formed(msgs[c], req[r].calls, req[r].send) /\ Holds(r, c)
  BY <1>1 DEF Transcripts, Holds
<1>4. lock'[c] = "free" => Formed(msgs[c], 0, 0)
  BY <1>1, <1>2, <1>3, FormedDone
<1>5. \A d \in Convs : d # c => lock'[d] = lock[d]
  BY <1>1, <1>2
<1> QED
  BY <1>1, <1>2, <1>3, <1>4, <1>5, TranscriptsHolder

LEMMA TranscriptsCopy ==
    ASSUME Typed, Locked, Followed, Transcripts, NEW r \in Requests, Copy(r)
    PROVE  Transcripts'
<1> DEFINE c == req[r].conv
<1>1. /\ Only(r) /\ SameSend(r) /\ lock[c] = "free" /\ req[r].pc = "copy"
      /\ req'[r].pc \in {"llm", "show"}
      /\ req'[r].pc = "llm" => req'[r].prompt = msgs[c]
  BY CopyFields
<1>2. c \in Convs /\ msgs' = msgs /\ lock' = lock
  BY <1>1, BoundTyped DEF Bound, Sending, Copy
<1>3. Formed(msgs[c], 0, 0) /\ Has(msgs[c], User(r)) /\ User(r)' = User(r)
  BY <1>1, <1>2 DEF Transcripts, Followed, FollowedReq, Bound, Sending, User, SameSend
<1> QED
  BY <1>1, <1>2, <1>3, TranscriptsFrame

LEMMA FormedEmpty == Formed(<< >>, 0, 0)
<1> DEFINE none == << >>
<1>1. none \in Seq(Messages) /\ Len(none) = 0
  OBVIOUS
<1> HIDE DEF none
<1>2. Formed(none, 0, 0)
  BY <1>1 DEF Formed
<1> QED
  BY <1>2 DEF none

LEMMA TranscriptsNext ==
    Typed /\ Locked /\ Followed /\ Transcripts /\ [Next]_vars => Transcripts'
<1> SUFFICES ASSUME Typed, Locked, Followed, Transcripts, [Next]_vars
             PROVE  Transcripts'
  OBVIOUS
<1>1. ASSUME NEW r \in Requests, Only(r), msgs' = msgs, lock' = lock,
             req'[r].pc \notin {"llm", "tools"}
      PROVE  Transcripts'
  BY <1>1, TranscriptsFrame
<1>2. ASSUME NEW r \in Requests,
             \/ Lookup(r) \/ LLMFails(r) \/ Show(r) \/ Filter(r) \/ Respond(r)
             \/ \E b \in Browsers : Send(r, b) \/ Page(r, b)
      PROVE  Transcripts'
  <2>1. Only(r) /\ req'[r].pc \notin {"llm", "tools"}
    <3>1. CASE Show(r)
      <4>1. Only(r) /\ req'[r].pc \in {"respond", "filter"}
        BY <3>1, ShowFields
      <4> QED
        BY <4>1
    <3> QED
      BY <1>2, <3>1, LookupFields, LLMFailsFields, FilterFields, EndFields, IdleTyped,
         SendFields, PageFields
  <2>2. msgs' = msgs /\ lock' = lock
    BY <1>2 DEF Lookup, LLMFails, Show, Filter, Respond, Send, Page
  <2> QED
    BY <1>1, <2>1, <2>2
<1>3. ASSUME Restart PROVE Transcripts'
  <2>1. /\ \A c \in Convs : msgs'[c] = << >>
        /\ \A r \in Requests : req'[r].pc = "idle"
    BY <1>3, IdleTyped DEF Restart
  <2> QED
    BY <2>1, FormedEmpty DEF Transcripts
<1>4. ASSUME UNCHANGED <<req, msgs, lock>> PROVE Transcripts'
  BY <1>4 DEF Transcripts, User
<1>5. \/ \E b \in Browsers : Clear(b)
      \/ \E c \in Convs : Age(c)
      \/ \E s \in Sessions : Evict(s)
      \/ Evicted \/ UNCHANGED vars
      => UNCHANGED <<req, msgs, lock>>
  BY DEF Clear, Age, Evict, Evicted, vars
<1> QED
  BY <1>2, <1>3, <1>4, <1>5, TranscriptsEnter, TranscriptsAnswer, TranscriptsCalls,
     TranscriptsTool, TranscriptsRelease, TranscriptsCopy DEF Next, Step

LEMMA TranscriptsAlways == Spec => []Transcripts
<1>1. Init => Transcripts
  <2> SUFFICES ASSUME Init PROVE Transcripts
    OBVIOUS
  <2>1. /\ \A c \in Convs : msgs[c] = << >>
        /\ \A r \in Requests : req[r].pc = "idle"
    BY IdleTyped DEF Init
  <2> QED
    BY <2>1, FormedEmpty DEF Transcripts
<1> QED
  BY <1>1, TranscriptsNext, TypedAlways, LockedAlways, FollowedAlways, PTL DEF Spec

\* Every transcript that is sent to the LLM is one that it accepts, with the
\* user's message in it, however the requests of a session interleave.
THEOREM PromptsAreAccepted == Spec => []PromptsWellFormed
<1>1. Transcripts => PromptsWellFormed
  <2> SUFFICES ASSUME Transcripts, NEW r \in Requests, req[r].pc = "llm"
               PROVE  LET p == req[r].prompt
                          replies(j) == j + 1 .. j + p[j].calls
                      IN  /\ \A i \in DOMAIN p : p[i].role = "system" <=> i = 1
                          /\ \A j \in DOMAIN p : p[j].role = "calls" =>
                                \A i \in replies(j) : /\ i \in DOMAIN p
                                                      /\ p[i] = Message("tool", p[j].send)
                          /\ \A i \in DOMAIN p : p[i].role = "tool" =>
                                \E j \in DOMAIN p : p[j].role = "calls" /\ i \in replies(j)
                          /\ \E i \in DOMAIN p : p[i] = Message("user", req[r].send)
    BY DEF PromptsWellFormed
  <2> DEFINE p == req[r].prompt
             l == Len(p)
  <2>1. Formed(p, 0, 0) /\ \E i \in DOMAIN p : p[i] = Message("user", req[r].send)
    BY DEF Transcripts, Has, User
  <2>2. p \in Seq(Messages) /\ DOMAIN p = 1 .. l /\ l \in Nat
    BY <2>1 DEF Formed
  <2>3. \A j \in 1 .. l : p[j].role = "calls" => p[j].calls \in Nat
    BY <2>2, CallsAreNumbers
  <2>4. /\ \A i \in 1 .. l : p[i].role = "system" <=> i = 1
        /\ \A j \in 1 .. l : p[j].role = "calls" =>
              /\ j + p[j].calls <= l + 0
              /\ \A i \in j + 1 .. j + p[j].calls :
                    i <= l => p[i] = Message("tool", p[j].send)
        /\ \A i \in 1 .. l + 0 : i > l \/ p[i].role = "tool" =>
              \E j \in 1 .. l : p[j].role = "calls" /\ i \in j + 1 .. j + p[j].calls
    BY <2>1 DEF Formed
  <2> HIDE DEF p, l
  <2>5. ASSUME NEW j \in 1 .. l, p[j].role = "calls", NEW i \in j + 1 .. j + p[j].calls
        PROVE  i \in 1 .. l /\ p[i] = Message("tool", p[j].send)
    <3>1. i \in 1 .. l /\ i <= l
      BY <2>2, <2>3, <2>4, <2>5
    <3> QED
      BY <2>4, <2>5, <3>1
  <2>6. \A i \in 1 .. l : p[i].role = "tool" =>
              \E j \in 1 .. l : p[j].role = "calls" /\ i \in j + 1 .. j + p[j].calls
    BY <2>2, <2>4
  <2> QED
    BY <2>1, <2>2, <2>4, <2>5, <2>6 DEF p
<1> QED
  BY <1>1, TranscriptsAlways, PTL
=============================================================================
