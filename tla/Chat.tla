-------------------------------- MODULE Chat --------------------------------
(***************************************************************************)
(* The chat page: HTTP handlers (delivery/http/chat.go), conversations and *)
(* the LLM/tool loop (usecase/chat.go, chat_execute.go), and the goroutine *)
(* that evicts stale conversations.  Conversations live in memory, keyed   *)
(* by session id (the project part of the key plays no role here); a       *)
(* browser remembers its session id in a cookie.                           *)
(*                                                                         *)
(* ChatUseCase.mu guards the map and Conversation.mu the messages; the     *)
(* latter is held while the tools run and released while the LLM thinks,   *)
(* so several requests of one session interleave at the LLM calls.         *)
(***************************************************************************)
EXTENDS Integers, Sequences, FiniteSets

CONSTANTS
    Browsers,
    Requests,   \* goroutines that serve one HTTP request at a time
    MaxTurns,   \* LLM calls per SendMessage (10 in the code)
    CallCounts, \* how many tool calls one LLM response may ask for
    MaxSends,   \* bound: SendMessage calls
    MaxEvents   \* bound: pages shown, clears, restarts and times a
                \*   conversation grows stale

ASSUME BoundsAssumption ==
    /\ IsFiniteSet(Requests)
    /\ {MaxTurns, MaxSends, MaxEvents} \subseteq Nat
    /\ CallCounts \subseteq Nat \ {0}
    /\ MaxTurns > 0

Sessions == 1 .. MaxSends       \* session ids: chat_1, chat_2, ...
NoSession == 0
Convs == 1 .. MaxSends          \* conversations, as pointers: never reused
NoConv == 0
Sends == 1 .. MaxSends

VARIABLES
    nextID,    \* ChatHandler.nextID
    convs,     \* ChatUseCase.convs: the conversation of each session
    evictor,   \* the session evictStaleSessions is about to delete, holding mu
    msgs,      \* msgs[c]: Conversation.Messages
    lock,      \* lock[c]: Conversation.mu, "free", "held" or "poisoned"
    stale,     \* stale[c]: LastAccessed is more than sessionTTL ago
    cookie,    \* cookie[b]: the session id in the cookie of browser b
    req,       \* req[r]: the activation of the handler
    made,      \* history: conversations made so far
    sends,     \* history: SendMessage calls so far
    events,    \* history: what MaxEvents bounds, so far
    restarts,  \* history: restarts among them
    forgotten, \* history: forgotten[s], the sends a clear of s removed
    dropped    \* history: the conversations that were evicted

vars == <<nextID, convs, evictor, msgs, lock, stale, cookie, req, made, sends,
          events, restarts, forgotten, dropped>>
bounds == <<events, restarts, forgotten, dropped>>

Idle == [pc |-> "idle", browser |-> CHOOSE b \in Browsers : TRUE,
         session |-> NoSession, conv |-> NoConv, send |-> 0, turn |-> 0,
         calls |-> 0, prompt |-> << >>, shown |-> {}, fresh |-> FALSE,
         ok |-> FALSE]

Init ==
    /\ nextID = 0
    /\ convs = [s \in Sessions |-> NoConv]
    /\ evictor = NoSession
    /\ msgs = [c \in Convs |-> << >>]
    /\ lock = [c \in Convs |-> "free"]
    /\ stale = [c \in Convs |-> FALSE]
    /\ cookie = [b \in Browsers |-> NoSession]
    /\ req = [r \in Requests |-> Idle]
    /\ made = 0 /\ sends = 0 /\ events = 0 /\ restarts = 0
    /\ forgotten = [s \in Sessions |-> {}]
    /\ dropped = {}

Message(role, send) == [role |-> role, send |-> send]

-----------------------------------------------------------------------------
(* HandleSend *)

\* mutant of NewSession: the number of conversations instead of a counter.
NewSessionByCount == Cardinality({s \in Sessions : convs[s] # NoConv}) + 1

NewSession == nextID + 1

\* A browser without the cookie gets a new session id; it learns it from the
\* response.
Send(r, b) ==
    /\ req[r].pc = "idle" /\ sends < MaxSends
    /\ sends' = sends + 1
    /\ IF cookie[b] = NoSession
       THEN /\ nextID' = nextID + 1
            /\ req' = [req EXCEPT ![r] = [Idle EXCEPT !.pc = "lookup",
                          !.browser = b, !.session = NewSession,
                          !.send = sends', !.fresh = TRUE]]
       ELSE /\ UNCHANGED nextID
            /\ req' = [req EXCEPT ![r] = [Idle EXCEPT !.pc = "lookup",
                          !.browser = b, !.session = cookie[b], !.send = sends']]
    /\ UNCHANGED <<convs, evictor, msgs, lock, stale, cookie, made, bounds>>

\* mutant of Lookup: a miss always installs a new conversation later, as if
\* the lookup and the insertion were two critical sections.
LookupRacy(r) ==
    /\ evictor = NoSession
    /\ LET s == req[r].session
       IN  \/ /\ req[r].pc = "lookup" /\ convs[s] # NoConv
              /\ req' = [req EXCEPT ![r].pc = "enter", ![r].conv = convs[s]]
              /\ UNCHANGED <<convs, made>>
           \/ /\ req[r].pc = "lookup" /\ convs[s] = NoConv
              /\ req' = [req EXCEPT ![r].pc = "install"]
              /\ UNCHANGED <<convs, made>>
           \/ /\ req[r].pc = "install"
              /\ made' = made + 1
              /\ convs' = [convs EXCEPT ![s] = made']
              /\ req' = [req EXCEPT ![r].pc = "enter", ![r].conv = made']
    /\ UNCHANGED <<nextID, evictor, msgs, lock, stale, cookie, sends, bounds>>

\* getOrCreateConversation, one critical section of ChatUseCase.mu.
Lookup(r) ==
    /\ req[r].pc = "lookup" /\ evictor = NoSession
    /\ LET s == req[r].session
       IN  IF convs[s] # NoConv
           THEN /\ req' = [req EXCEPT ![r].pc = "enter", ![r].conv = convs[s]]
                /\ UNCHANGED <<convs, made>>
           ELSE /\ made' = made + 1
                /\ convs' = [convs EXCEPT ![s] = made']
                /\ req' = [req EXCEPT ![r].pc = "enter", ![r].conv = made']
    /\ UNCHANGED <<nextID, evictor, msgs, lock, stale, cookie, sends, bounds>>

\* The system prompt, if it is the first message, and the user's message; the
\* LLM is given a copy of all messages.
Enter(r) ==
    LET c == req[r].conv
        system == IF msgs[c] = << >> THEN << Message("system", 0) >> ELSE << >>
    IN  /\ req[r].pc = "enter" /\ lock[c] = "free"
        /\ msgs' = [msgs EXCEPT ![c] =
                       @ \o system \o << Message("user", req[r].send) >>]
        /\ stale' = [stale EXCEPT ![c] = FALSE]
        /\ req' = [req EXCEPT ![r].pc = "llm", ![r].prompt = msgs'[c]]
        /\ UNCHANGED <<nextID, convs, evictor, lock, cookie, made, sends, bounds>>

\* The LLM client times out or reports an error.
LLMFails(r) ==
    /\ req[r].pc = "llm"
    /\ req' = [req EXCEPT ![r].pc = "respond", ![r].prompt = << >>]
    /\ UNCHANGED <<nextID, convs, evictor, msgs, lock, stale, cookie, made,
                   sends, bounds>>

\* mutant of LLMAnswers: the early return keeps conv.mu.
LLMAnswersLocked(r) ==
    LET c == req[r].conv
    IN  /\ req[r].pc = "llm" /\ lock[c] = "free"
        /\ msgs' = [msgs EXCEPT ![c] = Append(@, Message("answer", req[r].send))]
        /\ stale' = [stale EXCEPT ![c] = FALSE]
        /\ lock' = [lock EXCEPT ![c] = "held"]
        /\ req' = [req EXCEPT ![r].pc = "show", ![r].ok = TRUE,
                              ![r].prompt = << >>]
        /\ UNCHANGED <<nextID, convs, evictor, cookie, made, sends, bounds>>

\* The LLM answers without tool calls.
LLMAnswers(r) ==
    LET c == req[r].conv
    IN  /\ req[r].pc = "llm" /\ lock[c] = "free"
        /\ msgs' = [msgs EXCEPT ![c] = Append(@, Message("answer", req[r].send))]
        /\ stale' = [stale EXCEPT ![c] = FALSE]
        /\ req' = [req EXCEPT ![r].pc = "show", ![r].ok = TRUE,
                              ![r].prompt = << >>]
        /\ UNCHANGED <<nextID, convs, evictor, lock, cookie, made, sends, bounds>>

\* mutant of LLMCalls: conv.mu is not held while the tools run.
LLMCallsUnlocked(r, n) ==
    LET c == req[r].conv
    IN  /\ req[r].pc = "llm" /\ lock[c] = "free"
        /\ msgs' = [msgs EXCEPT ![c] =
              Append(@, [role |-> "calls", send |-> req[r].send, calls |-> n])]
        /\ stale' = [stale EXCEPT ![c] = FALSE]
        /\ req' = [req EXCEPT ![r].pc = "tools", ![r].calls = n,
                              ![r].prompt = << >>]
        /\ UNCHANGED <<nextID, convs, evictor, lock, cookie, made, sends, bounds>>

\* The LLM asks for n tool calls; conv.mu stays locked.
LLMCalls(r, n) ==
    LET c == req[r].conv
    IN  /\ req[r].pc = "llm" /\ lock[c] = "free"
        /\ msgs' = [msgs EXCEPT ![c] =
              Append(@, [role |-> "calls", send |-> req[r].send, calls |-> n])]
        /\ stale' = [stale EXCEPT ![c] = FALSE]
        /\ lock' = [lock EXCEPT ![c] = "held"]
        /\ req' = [req EXCEPT ![r].pc = "tools", ![r].calls = n,
                              ![r].prompt = << >>]
        /\ UNCHANGED <<nextID, convs, evictor, cookie, made, sends, bounds>>

\* executeTool and its reply, an error text when the tool failed.
Tool(r) ==
    /\ req[r].pc = "tools" /\ req[r].calls > 0
    /\ msgs' = [msgs EXCEPT ![req[r].conv] =
                   Append(@, Message("tool", req[r].send))]
    /\ req' = [req EXCEPT ![r].calls = @ - 1]
    /\ UNCHANGED <<nextID, convs, evictor, lock, stale, cookie, made, sends,
                   bounds>>

\* A tool that publishes an event may panic (module EventBus, SendPanics):
\* net/http recovers the handler, nobody unlocks conv.mu.
ToolPanics(r) ==
    /\ req[r].pc = "tools" /\ req[r].calls > 0
    /\ lock' = [lock EXCEPT ![req[r].conv] = "poisoned"]
    /\ req' = [req EXCEPT ![r] = Idle]
    /\ UNCHANGED <<nextID, convs, evictor, msgs, stale, cookie, made, sends,
                   bounds>>

\* The end of the loop over the tool calls.
ToolsDone(r) ==
    LET c == req[r].conv
    IN  /\ req[r].pc = "tools" /\ req[r].calls = 0
        /\ lock' = [lock EXCEPT ![c] = "free"]
        /\ stale' = [stale EXCEPT ![c] = FALSE]
        /\ req' = [req EXCEPT ![r].pc = "copy"]
        /\ UNCHANGED <<nextID, convs, evictor, msgs, cookie, made, sends, bounds>>

\* mutant of Copy: one turn too many.
CopyOffByOne(r) ==
    LET c == req[r].conv
        more == req[r].turn < MaxTurns
    IN  /\ req[r].pc = "copy" /\ lock[c] = "free"
        /\ req' = [req EXCEPT ![r].turn = @ + 1,
                              ![r].pc = IF more THEN "llm" ELSE "show",
                              ![r].prompt = IF more THEN msgs[c] ELSE << >>]
        /\ UNCHANGED <<nextID, convs, evictor, msgs, lock, stale, cookie, made,
                       sends, bounds>>

\* The next turn: a new copy for the LLM.  After MaxTurns turns SendMessage
\* returns a text that HandleSend ignores.
Copy(r) ==
    LET c == req[r].conv
        more == req[r].turn + 1 < MaxTurns
    IN  /\ req[r].pc = "copy" /\ lock[c] = "free"
        /\ req' = [req EXCEPT ![r].turn = @ + 1,
                              ![r].pc = IF more THEN "llm" ELSE "show",
                              ![r].prompt = IF more THEN msgs[c] ELSE << >>]
        /\ UNCHANGED <<nextID, convs, evictor, msgs, lock, stale, cookie, made,
                       sends, bounds>>

\* GetHistory: the lookup, and the copy under conv.mu, which touches the
\* conversation.  conv is now the conversation that is shown.
Show(r) ==
    /\ req[r].pc = "show" /\ evictor = NoSession
    /\ LET c == IF req[r].session = NoSession THEN NoConv
                ELSE convs[req[r].session]
       IN  req' = [req EXCEPT ![r].conv = c,
                      ![r].pc = IF c = NoConv THEN "respond" ELSE "filter"]
    /\ UNCHANGED <<nextID, convs, evictor, msgs, lock, stale, cookie, made,
                   sends, bounds>>

Filter(r) ==
    LET c == req[r].conv
        all == {msgs[c][i] : i \in DOMAIN msgs[c]}
    IN  /\ req[r].pc = "filter" /\ lock[c] = "free"
        /\ stale' = [stale EXCEPT ![c] = FALSE]
        /\ req' = [req EXCEPT ![r].pc = "respond",
                  ![r].shown = {m \in all : m.role \in {"user", "answer"}}]
        /\ UNCHANGED <<nextID, convs, evictor, msgs, lock, cookie, made, sends,
                       bounds>>

\* The response, if the browser is still there, carries the cookie.
Respond(r) ==
    LET b == req[r].browser
    IN  /\ req[r].pc = "respond"
        /\ \/ req[r].fresh
              /\ cookie' = [cookie EXCEPT ![b] = req[r].session]
           \/ UNCHANGED cookie
        /\ req' = [req EXCEPT ![r] = Idle]
        /\ UNCHANGED <<nextID, convs, evictor, msgs, lock, stale, made, sends,
                       bounds>>

-----------------------------------------------------------------------------
(* HandlePage, HandleClear, the evictor and the passing of time            *)

\* HandlePage shows the history of the session.
Page(r, b) ==
    /\ req[r].pc = "idle"
    /\ events < MaxEvents /\ events' = events + 1
    /\ req' = [req EXCEPT ![r] = [Idle EXCEPT !.pc = "show", !.browser = b,
                                              !.session = cookie[b]]]
    /\ UNCHANGED <<nextID, convs, evictor, msgs, lock, stale, cookie, made,
                   sends, restarts, forgotten, dropped>>

\* The sends that have found their conversation in session s.
Found(s) ==
    {n \in Sends : \/ \E r \in Requests :
                         /\ req[r].session = s /\ req[r].send = n
                         /\ req[r].pc \in {"enter", "llm", "tools", "copy"}
                   \/ /\ convs[s] # NoConv
                      /\ \E i \in DOMAIN msgs[convs[s]] :
                            msgs[convs[s]][i].send = n}

\* mutant of Clear: the messages are removed, not the conversation.
ClearInPlace(b) ==
    LET s == cookie[b]
    IN  /\ s # NoSession /\ evictor = NoSession
        /\ events < MaxEvents /\ events' = events + 1
        /\ forgotten' = [forgotten EXCEPT ![s] = @ \cup Found(s)]
        /\ msgs' = [c \in Convs |-> IF c = convs[s] THEN << >> ELSE msgs[c]]
        /\ UNCHANGED <<nextID, convs, evictor, lock, stale, cookie, req, made,
                       sends, restarts, dropped>>

\* HandleClear and ClearConversation, one critical section of ChatUseCase.mu.
Clear(b) ==
    LET s == cookie[b]
    IN  /\ s # NoSession /\ evictor = NoSession
        /\ events < MaxEvents /\ events' = events + 1
        /\ forgotten' = [forgotten EXCEPT ![s] = @ \cup Found(s)]
        /\ convs' = [convs EXCEPT ![s] = NoConv]
        /\ UNCHANGED <<nextID, evictor, msgs, lock, stale, cookie, req, made,
                       sends, restarts, dropped>>

\* An hour passes in which nobody touches conversation c.  No request is
\* between two touches that long, for the LLM client gives up after two
\* minutes, unless it waits for a lock that nobody will release.
Age(c) ==
    /\ c <= made /\ ~stale[c] /\ events < MaxEvents
    /\ lock[c] = "poisoned" \/ \A r \in Requests : req[r].conv # c
    /\ stale' = [stale EXCEPT ![c] = TRUE]
    /\ events' = events + 1
    /\ UNCHANGED <<nextID, convs, evictor, msgs, lock, cookie, req, made, sends,
                   restarts, forgotten, dropped>>

\* evictStaleSessions, holding ChatUseCase.mu: it finds LastAccessed too long
\* ago (it reads it without conv.mu) ...
Evict(s) ==
    /\ evictor = NoSession /\ convs[s] # NoConv /\ stale[convs[s]]
    /\ evictor' = s
    /\ UNCHANGED <<nextID, convs, msgs, lock, stale, cookie, req, made, sends,
                   bounds>>

\* ... and deletes the conversation, which a request may have touched since.
Evicted ==
    /\ evictor # NoSession
    /\ convs' = [convs EXCEPT ![evictor] = NoConv]
    /\ dropped' = dropped \cup {convs[evictor]}
    /\ evictor' = NoSession
    /\ UNCHANGED <<nextID, msgs, lock, stale, cookie, req, made, sends,
                   events, restarts, forgotten>>

\* The server is restarted: everything but the cookies is gone.
Restart ==
    /\ events < MaxEvents /\ events' = events + 1 /\ restarts' = restarts + 1
    /\ nextID' = 0
    /\ convs' = [s \in Sessions |-> NoConv]
    /\ evictor' = NoSession
    /\ req' = [r \in Requests |-> Idle]
    /\ msgs' = [c \in Convs |-> << >>]
    /\ lock' = [c \in Convs |-> "free"]
    /\ stale' = [c \in Convs |-> FALSE]
    /\ UNCHANGED <<cookie, made, sends, forgotten, dropped>>

-----------------------------------------------------------------------------
Step(r) ==
    \/ Lookup(r) \/ Enter(r) \/ LLMFails(r) \/ LLMAnswers(r)
    \/ \E n \in CallCounts : LLMCalls(r, n)
    \/ Tool(r) \/ ToolsDone(r) \/ Copy(r) \/ Show(r) \/ Filter(r) \/ Respond(r)

Next ==
    \/ \E r \in Requests : \/ Step(r) \/ ToolPanics(r)
                           \/ \E b \in Browsers : Send(r, b) \/ Page(r, b)
    \/ \E b \in Browsers : Clear(b)
    \/ \E c \in Convs : Age(c)
    \/ \E s \in Sessions : Evict(s)
    \/ Evicted \/ Restart

Spec == Init /\ [][Next]_vars

\* Requests and the evictor are scheduled; the LLM client answers or times
\* out; Go's mutexes do not starve a waiter, hence strong fairness.
FairSpec == Spec /\ WF_vars(Evicted) /\ \A r \in Requests : SF_vars(Step(r))

-----------------------------------------------------------------------------
(* Properties *)

Pcs == {"idle", "lookup", "enter", "llm", "tools", "copy", "show", "filter",
        "respond"}
Message0 == [role : {"system", "user", "tool", "answer"}, send : 0 .. MaxSends]
Messages == Message0 \cup
    [role : {"calls"}, send : Sends, calls : CallCounts]

TypeOK ==
    /\ nextID \in 0 .. MaxSends
    /\ convs \in [Sessions -> 0 .. made]
    /\ evictor \in Sessions \cup {NoSession}
    /\ \A c \in Convs : \A i \in DOMAIN msgs[c] : msgs[c][i] \in Messages
    /\ lock \in [Convs -> {"free", "held", "poisoned"}]
    /\ stale \in [Convs -> BOOLEAN]
    /\ cookie \in [Browsers -> Sessions \cup {NoSession}]
    /\ made <= sends /\ sends <= MaxSends
    /\ \A r \in Requests :
          /\ req[r].pc \in Pcs /\ req[r].turn \in 0 .. MaxTurns
          /\ req[r].conv \in 0 .. made /\ req[r].calls \in Nat

\* Conversation.mu is held exactly while one request runs its tools, or
\* forever once a tool has panicked under it.
LockIsHeldByOne ==
    \A c \in 1 .. made :
        LET holders == {r \in Requests : req[r].pc = "tools" /\ req[r].conv = c}
        IN  /\ lock[c] = "held" <=> holders # {}
            /\ Cardinality(holders) <= 1

\* What the LLM is sent is a well-formed transcript although requests of the
\* same session interleave: one system prompt, in front, and every message
\* with tool calls is followed at once by the replies to all of them and
\* nothing else (the LLM API refuses a transcript that breaks this).
PromptsWellFormed ==
    \A r \in Requests : req[r].pc = "llm" =>
        LET p == req[r].prompt
            replies(j) == j + 1 .. j + p[j].calls
        IN  /\ \A i \in DOMAIN p : p[i].role = "system" <=> i = 1
            /\ \A j \in DOMAIN p : p[j].role = "calls" =>
                  \A i \in replies(j) : /\ i \in DOMAIN p
                                        /\ p[i] = Message("tool", p[j].send)
            /\ \A i \in DOMAIN p : p[i].role = "tool" =>
                  \E j \in DOMAIN p : p[j].role = "calls" /\ i \in replies(j)
            /\ \E i \in DOMAIN p : p[i] = Message("user", req[r].send)

\* The page a successful HandleSend renders shows the message and its answer,
\* unless the session was cleared or its conversation evicted meanwhile.
AnswersAreShown ==
    \A r \in Requests :
        LET n == req[r].send
        IN  req[r].pc = "respond" /\ req[r].ok
            => \/ {Message("user", n), Message("answer", n)} \subseteq req[r].shown
               \/ n \in forgotten[req[r].session]
               \/ \E c \in dropped : \E i \in DOMAIN msgs[c] :
                     msgs[c][i] = Message("user", n)

\* A cleared conversation stays cleared: nothing that was said in it, nor the
\* late answer of a request that had looked it up before the clear, turns up in
\* the session again.  (A message that looks its conversation up afterwards
\* starts a new one.)
ClearedIsGone ==
    \A s \in Sessions : convs[s] # NoConv =>
        \A i \in DOMAIN msgs[convs[s]] :
            msgs[convs[s]][i].send \notin forgotten[s]

\* Until a restart resets the counter (see the README), two browsers never
\* share a session.
SessionsApart ==
    restarts = 0 =>
        LET holds(b) == ({cookie[b]} \cup
                          {req[r].session : r \in {q \in Requests :
                              req[q].pc # "idle" /\ req[q].browser = b}})
                             \ {NoSession}
        IN  \A a, b \in Browsers : a # b => holds(a) \cap holds(b) = {}

\* Every request returns, unless it waits for a conversation that a panic left
\* locked.
RequestsReturn ==
    \A r \in Requests :
        (req[r].pc # "idle")
            ~> \/ req[r].pc = "idle"
               \/ req[r].conv # NoConv /\ lock[req[r].conv] = "poisoned"
=============================================================================
