------------------------------- MODULE OAuth --------------------------------
(***************************************************************************)
(* The OAuth server (delivery/http/oauth.go, authorize.go, token.go), the  *)
(* login session that gates it (middleware.go, auth.go) and the check of   *)
(* bearer tokens in front of /mcp.                                         *)
(*                                                                         *)
(* Registered clients and authorization codes are kept in memory under one *)
(* mutex; tokens and the login cookie are signed values that only their    *)
(* holders keep.  A code exchange is two critical sections (take the code, *)
(* look the client up), an authorization request is two as well.           *)
(*                                                                         *)
(* Redirect URIs, client secrets and PKCE verifiers are compared with what *)
(* was stored; a comparison that fails ends the request and is covered by  *)
(* Refuse.  Scope "" stands for its default.                               *)
(***************************************************************************)
EXTENDS Integers, FiniteSets

CONSTANTS
    Requests,    \* goroutines that serve /oauth/authorize and /oauth/token
    Scopes,
    DefaultScope,
    CodeTTL, AccessTTL, RefreshTTL, SessionTTL,  \* in ticks
    MaxClients,  \* bound: registrations
    MaxCodes,    \* bound: authorization codes
    MaxTokens,   \* bound: unexpired tokens before others are issued
    MaxTime      \* bound: ticks

ASSUME TimesAssumption ==
    /\ {CodeTTL, AccessTTL, RefreshTTL, SessionTTL} \subseteq Nat
    /\ {MaxClients, MaxCodes, MaxTokens, MaxTime} \subseteq Nat
ASSUME ScopesAssumption == DefaultScope \in Scopes

Builtin == 0                    \* the client of the configuration
Clients == 0 .. MaxClients
Codes == 1 .. MaxCodes

VARIABLES
    now,
    session,    \* expiry of the login cookie in the user's browser, 0 if none
    ids,        \* history: client ids handed out (random, never repeated)
    registered, \* OAuthService.clients
    made,       \* history: codes made (random, never repeated)
    codes,      \* the keys of OAuthService.codes
    spent,      \* history: codes presented, and those of a server that was stopped
    code,       \* code[n]: the AuthCode of n in the map
    req,        \* req[r]: the activation of HandleAuthorize or tokenFromAuthCode
    tokens,     \* the signed tokens in the world that have not expired
    held,       \* held[c]: the refresh token client c keeps, if any
    approved,   \* history: what the logged-in user authorized
    exchanged,  \* history: exchanged[n], the tokens issued for code n
    issuedAt    \* history: when client c was last issued tokens

vars == <<now, session, ids, registered, made, codes, spent, code, req, tokens,
          held, approved, exchanged, issuedAt>>

Grant(c, s) == [client |-> c, scope |-> s]
NoCode == [client |-> Builtin, scope |-> DefaultScope, expires |-> 0]
Idle == [pc |-> "idle", client |-> Builtin, owner |-> Builtin,
         scope |-> DefaultScope, code |-> 0]

Init ==
    /\ now = 0
    /\ session = 0
    /\ ids = 0 /\ registered = {}
    /\ made = 0 /\ codes = {} /\ spent = {} /\ code = [n \in Codes |-> NoCode]
    /\ req = [r \in Requests |-> Idle]
    /\ tokens = {}
    /\ held = [c \in Clients |-> {}]
    /\ approved = {}
    /\ exchanged = [n \in Codes |-> 0]
    /\ issuedAt = [c \in Clients |-> 0]

-----------------------------------------------------------------------------
(* The login session and registration                                      *)

\* HandleLogin with the right password; a wrong one changes nothing.
Login ==
    /\ session' = now + SessionTTL
    /\ UNCHANGED <<now, ids, registered, made, codes, spent, code, req, tokens,
                   held, approved, exchanged, issuedAt>>

Logout ==
    /\ session' = 0
    /\ UNCHANGED <<now, ids, registered, made, codes, spent, code, req, tokens,
                   held, approved, exchanged, issuedAt>>

\* verifyCookieValue.
LoggedIn == session > now

\* HandleRegister.
Register ==
    /\ ids < MaxClients /\ ids' = ids + 1
    /\ registered' = registered \cup {ids'}
    /\ UNCHANGED <<now, session, made, codes, spent, code, req, tokens, held,
                   approved, exchanged, issuedAt>>

\* resolveClient: the built-in client needs no registration.
Known(c) == c \in registered \/ c = Builtin

-----------------------------------------------------------------------------
(* HandleAuthorize, behind SessionAuth                                     *)

Authorize(r, c, s) ==
    /\ req[r].pc = "idle" /\ LoggedIn /\ Known(c)
    /\ req' = [req EXCEPT ![r] = [pc |-> "insert", client |-> c,
                  owner |-> Builtin, scope |-> s, code |-> 0]]
    /\ approved' = approved \cup {Grant(c, s)}
    /\ UNCHANGED <<now, session, ids, registered, made, codes, spent, code,
                   tokens, held, exchanged, issuedAt>>

\* The redirect takes the code to the client.
InsertCode(r) ==
    /\ req[r].pc = "insert" /\ made < MaxCodes
    /\ made' = made + 1
    /\ codes' = codes \cup {made'}
    /\ code' = [code EXCEPT ![made'] = [client |-> req[r].client,
                   scope |-> req[r].scope, expires |-> now + CodeTTL]]
    /\ req' = [req EXCEPT ![r] = Idle]
    /\ UNCHANGED <<now, session, ids, registered, spent, tokens, held, approved,
                   exchanged, issuedAt>>

-----------------------------------------------------------------------------
(* HandleToken                                                             *)

\* mutant of AccessToken: the lifetime of the other token.
AccessTokenLong(c, s) ==
    [subject |-> c, scope |-> s, use |-> "access", exp |-> now + RefreshTTL]

AccessToken(c, s) ==
    [subject |-> c, scope |-> s, use |-> "access", exp |-> now + AccessTTL]

RefreshToken(c, s) ==
    [subject |-> c, scope |-> s, use |-> "refresh", exp |-> now + RefreshTTL]

\* issueToken; the client may not hear the answer.
IssueToken(c, s, heard) ==
    /\ Cardinality(tokens) <= MaxTokens
    /\ tokens' = tokens \cup {AccessToken(c, s), RefreshToken(c, s)}
    /\ held' = IF heard THEN [held EXCEPT ![c] = {RefreshToken(c, s)}] ELSE held
    /\ issuedAt' = [issuedAt EXCEPT ![c] = now]

\* A request that names client c has the AuthCode of n.
Taken(n, c) == [pc |-> "check", client |-> c, owner |-> code[n].client,
                scope |-> code[n].scope, code |-> n]

\* mutant of Take: the code is deleted only when it has expired.
TakeKeeps(r, n, c) ==
    /\ req[r].pc = "idle" /\ n \in codes /\ spent' = spent \cup {n}
    /\ IF code[n].expires >= now
       THEN /\ req' = [req EXCEPT ![r] = Taken(n, c)]
            /\ UNCHANGED <<codes, code>>
       ELSE /\ codes' = codes \ {n}
            /\ code' = [code EXCEPT ![n] = NoCode]
            /\ UNCHANGED req
    /\ UNCHANGED <<now, session, ids, registered, made, tokens, held, approved,
                   exchanged, issuedAt>>

\* tokenFromAuthCode takes code n out of the map, expired or not, for a
\* request that names client c.  Without the code the request ends.
Take(r, n, c) ==
    /\ req[r].pc = "idle" /\ n \in codes
    /\ codes' = codes \ {n} /\ spent' = spent \cup {n}
    /\ code' = [code EXCEPT ![n] = NoCode]
    /\ req' = IF code[n].expires >= now
              THEN [req EXCEPT ![r] = Taken(n, c)]
              ELSE req
    /\ UNCHANGED <<now, session, ids, registered, made, tokens, held, approved,
                   exchanged, issuedAt>>

\* mutant of Exchange: tokens for the client the request names, whoever the
\* code was issued to.
ExchangeForAnyone(r, heard) ==
    LET n == req[r].code
        c == req[r].client
    IN  /\ req[r].pc = "check"
        /\ Known(c)
        /\ IssueToken(c, req[r].scope, heard)
        /\ exchanged' = [exchanged EXCEPT ![n] = @ + 1]
        /\ req' = [req EXCEPT ![r] = Idle]
        /\ UNCHANGED <<now, session, ids, registered, made, codes, spent, code,
                       approved>>

\* The rest of tokenFromAuthCode: the client is looked up and is the one the
\* code was issued to.
Exchange(r, heard) ==
    LET n == req[r].code
        c == req[r].client
    IN  /\ req[r].pc = "check"
        /\ Known(c) /\ req[r].owner = c
        /\ IssueToken(c, req[r].scope, heard)
        /\ exchanged' = [exchanged EXCEPT ![n] = @ + 1]
        /\ req' = [req EXCEPT ![r] = Idle]
        /\ UNCHANGED <<now, session, ids, registered, made, codes, spent, code,
                       approved>>

\* Any of its checks fails; the code is spent.
Refuse(r) ==
    /\ req[r].pc = "check"
    /\ req' = [req EXCEPT ![r] = Idle]
    /\ UNCHANGED <<now, session, ids, registered, made, codes, spent, code,
                   tokens, held, approved, exchanged, issuedAt>>

\* mutant of Refreshable: the client must be registered, as for a code.
RefreshableIfKnown(t) == t.use = "refresh" /\ now < t.exp /\ Known(t.subject)

\* The claims a refresh token is checked for; no registry is consulted.
Refreshable(t) == t.use = "refresh" /\ now < t.exp

\* The tokens somebody may present.
Kept == tokens \cup UNION {held[c] : c \in Clients}

\* tokenFromRefreshToken: anyone presents any token, for client c (or for none:
\* then only the token counts, as when c is the right one).  A client whose own
\* token is refused has lost its connection and must send its user through
\* /oauth/authorize again.
Refresh(t, c, heard) ==
    /\ IF Refreshable(t) /\ c = t.subject
       THEN IssueToken(t.subject, t.scope, heard)
       ELSE /\ held' = IF t \in held[c] THEN [held EXCEPT ![c] = {}] ELSE held
            /\ UNCHANGED <<tokens, issuedAt>>
    /\ UNCHANGED <<now, session, ids, registered, made, codes, spent, code, req,
                   approved, exchanged>>

\* tokenFromClientCredentials, for the built-in client only.
ClientCredentials(heard) ==
    /\ IssueToken(Builtin, DefaultScope, heard)
    /\ UNCHANGED <<now, session, ids, registered, made, codes, spent, code,
                   req, approved, exchanged>>

-----------------------------------------------------------------------------
(* /mcp, time and restarts                                                 *)

\* mutant of Accepted: any signed token will do.
AcceptedAnyUse(t) == now < t.exp

\* authMiddleware lets a request with token t through to /mcp.
Accepted(t) == t.use # "refresh" /\ now < t.exp

\* Time passes.  The browser drops a cookie that has expired; an expired token
\* is never accepted again and is forgotten, unless a client still keeps it.
Tick ==
    /\ now < MaxTime /\ now' = now + 1
    /\ session' = IF session > now' THEN session ELSE 0
    /\ tokens' = {t \in tokens : now' < t.exp}
    /\ UNCHANGED <<ids, registered, made, codes, spent, code, req, held,
                   approved, exchanged, issuedAt>>

\* The server is restarted: both maps are empty, requests are gone.
Restart ==
    /\ registered' = {}
    /\ codes' = {} /\ spent' = spent \cup codes
    /\ code' = [n \in Codes |-> NoCode]
    /\ req' = [r \in Requests |-> Idle]
    /\ UNCHANGED <<now, session, ids, made, tokens, held, approved, exchanged,
                   issuedAt>>

Next ==
    \/ Login \/ Logout \/ Register \/ Tick \/ Restart
    \/ \E r \in Requests :
          \/ \E c \in Clients, s \in Scopes : Authorize(r, c, s)
          \/ \E n \in Codes, c \in Clients : Take(r, n, c)
          \/ InsertCode(r) \/ Refuse(r)
    \/ \E heard \in BOOLEAN :
          \/ \E r \in Requests : Exchange(r, heard)
          \/ \E t \in Kept, c \in Clients : Refresh(t, c, heard)
          \/ ClientCredentials(heard)

Spec == Init /\ [][Next]_vars

-----------------------------------------------------------------------------
(* Properties *)

Grants == [client : Clients, scope : Scopes]
AuthCodes == [client : Clients, scope : Scopes, expires : Nat]
Tokens ==
    [subject : Clients, scope : Scopes, use : {"access", "refresh"}, exp : Nat]
Activations == [pc : {"idle", "insert", "check"}, client : Clients,
                owner : Clients, scope : Scopes, code : Nat]

\* Every variable has its type; a client keeps nothing but one refresh token of
\* its own, and only codes that were made are in the map or in use.
TypeOK ==
    /\ now \in Nat /\ session \in Nat
    /\ ids \in 0 .. MaxClients /\ registered \subseteq 1 .. ids
    /\ made \in 0 .. MaxCodes /\ codes \subseteq 1 .. made
    /\ spent \subseteq 1 .. made
    /\ code \in [Codes -> AuthCodes]
    /\ req \in [Requests -> Activations]
    /\ tokens \subseteq Tokens
    /\ held \in [Clients -> SUBSET Tokens]
    /\ \A c \in Clients : \A t, u \in held[c] :
          t = u /\ t.subject = c /\ t.use = "refresh"
    /\ approved \subseteq Grants
    /\ exchanged \in [Codes -> Nat]
    /\ issuedAt \in [Clients -> Nat]

\* A code buys tokens at most once, however many requests present it at the
\* same time or again (token_test.go, "reused auth code rejected"); and once it
\* was presented, even by a request that was then refused, or was made by a
\* server that has been restarted since, no request finds it any more.
CodesAreSingleUse ==
    /\ \A n \in Codes : exchanged[n] <= 1
    /\ codes \cap spent = {}

\* Whoever holds a token, directly or through any chain of refreshes, holds it
\* for a client and a scope that the user authorized while logged in, or is
\* the built-in client that proved its secret.
TokensAreGranted ==
    \A t \in Kept :
        \/ Grant(t.subject, t.scope) \in approved
        \/ t.subject = Builtin /\ t.scope = DefaultScope

\* /mcp serves a client only within AccessTTL of the last time it exchanged a
\* code, refreshed or proved its secret: a refresh token, which lives far
\* longer, is no substitute for an access token.
AccessIsRecent ==
    \A t \in tokens : Accepted(t) => now < issuedAt[t.subject] + AccessTTL

\* A connection is lost only by letting its refresh token expire: no restart,
\* no lost answer and no other client's business sends a user back to the
\* login (docs/plans/2026-10-23-oauth-persistent-connection-design.md).
StaysConnected ==
    [][\A c \in Clients : \A t \in held[c] :
          held'[c] = {} => now >= t.exp]_vars

\* What makes CodesAreSingleUse inductive: a code is in the map, or in the
\* hands of one request, or spent.
CodeIsInOnePlace ==
    /\ \A n \in codes : exchanged[n] = 0
    /\ \A n \in Codes : n > made => exchanged[n] = 0
    /\ \A r \in Requests : req[r].pc = "check" =>
          /\ req[r].code \in 1 .. made /\ req[r].code \notin codes
          /\ exchanged[req[r].code] = 0
          /\ \A q \in Requests :
                req[q].pc = "check" /\ req[q].code = req[r].code => q = r

\* What makes TokensAreGranted inductive: codes and the requests that make
\* them are for grants the user authorized.
CodesAreGranted ==
    /\ \A n \in codes : Grant(code[n].client, code[n].scope) \in approved
    /\ \A r \in Requests :
          /\ req[r].pc = "insert" => Grant(req[r].client, req[r].scope) \in approved
          /\ req[r].pc = "check" => Grant(req[r].owner, req[r].scope) \in approved

\* What makes AccessIsRecent inductive.
TokensAreRecent ==
    /\ \A c \in Clients : issuedAt[c] <= now
    /\ \A t \in tokens :
          t.use = "access" => t.exp <= issuedAt[t.subject] + AccessTTL

IInv == /\ TypeOK /\ CodesAreSingleUse /\ CodeIsInOnePlace
        /\ TokensAreGranted /\ CodesAreGranted /\ TokensAreRecent
=============================================================================
