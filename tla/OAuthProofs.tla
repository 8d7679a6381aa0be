---------------------------- MODULE OAuthProofs -----------------------------
(***************************************************************************)
(* The safety of the OAuth server, for every number of requests, clients   *)
(* and codes, every choice of scopes and lifetimes, and every bound.       *)
(***************************************************************************)
EXTENDS OAuth, TLAPS

LEMMA Constants ==
    /\ CodeTTL \in Nat /\ AccessTTL \in Nat /\ RefreshTTL \in Nat
    /\ SessionTTL \in Nat /\ MaxClients \in Nat /\ MaxCodes \in Nat
    /\ DefaultScope \in Scopes /\ Builtin \in Clients
BY TimesAssumption, ScopesAssumption DEF Builtin, Clients

LEMMA RecordTypes == Idle \in Activations /\ NoCode \in AuthCodes
BY Constants DEF Idle, Activations, NoCode, AuthCodes

LEMMA InitInv == Init => IInv
<1> SUFFICES ASSUME Init PROVE IInv
  OBVIOUS
<1>1. TypeOK
  BY Constants, RecordTypes DEF Init, TypeOK, Codes
<1>2. CodesAreSingleUse /\ CodeIsInOnePlace
  BY DEF Init, CodesAreSingleUse, CodeIsInOnePlace, Idle
<1>3. TokensAreGranted /\ CodesAreGranted /\ TokensAreRecent
  BY DEF Init, TokensAreGranted, Kept, CodesAreGranted, TokensAreRecent, Idle
<1> QED
  BY <1>1, <1>2, <1>3 DEF IInv

-----------------------------------------------------------------------------
(* IInv in two halves: codes and requests, and tokens.                     *)

CodeTypes ==
    /\ session \in Nat
    /\ ids \in 0 .. MaxClients /\ registered \subseteq 1 .. ids
    /\ made \in 0 .. MaxCodes /\ codes \subseteq 1 .. made
    /\ spent \subseteq 1 .. made
    /\ code \in [Codes -> AuthCodes]
    /\ req \in [Requests -> Activations]
    /\ approved \subseteq Grants
    /\ exchanged \in [Codes -> Nat]

TokenTypes ==
    /\ now \in Nat
    /\ tokens \subseteq Tokens
    /\ held \in [Clients -> SUBSET Tokens]
    /\ \A c \in Clients : \A t, u \in held[c] :
          t = u /\ t.subject = c /\ t.use = "refresh"
    /\ issuedAt \in [Clients -> Nat]

CodesOK == CodeTypes /\ CodesAreSingleUse /\ CodeIsInOnePlace /\ CodesAreGranted
TokensOK == TokenTypes /\ TokensAreGranted /\ TokensAreRecent

LEMMA Halves == IInv <=> CodesOK /\ TokensOK
BY DEF IInv, TypeOK, CodesOK, TokensOK, CodeTypes, TokenTypes

LEMMA HalvesNext == IInv' <=> CodesOK' /\ TokensOK'
BY DEF IInv, TypeOK, CodesOK, TokensOK, CodeTypes, TokenTypes

\* What a step that leaves the tokens alone keeps; more may be approved.
LEMMA TokensFrame ==
    ASSUME TokensOK, UNCHANGED <<now, tokens, held, issuedAt>>,
           approved \subseteq approved'
    PROVE  TokensOK'
<1>1. TokenTypes' /\ TokensAreRecent'
  BY DEF TokensOK, TokenTypes, TokensAreRecent
<1>2. TokensAreGranted'
  BY DEF TokensOK, TokensAreGranted, Kept, Grant
<1> QED
  BY <1>1, <1>2 DEF TokensOK

\* What a step that leaves the codes and the requests alone keeps.
LEMMA CodesFrame ==
    ASSUME CodesOK, session' \in Nat,
           UNCHANGED <<ids, registered, made, codes, spent, code, req, approved,
                       exchanged>>
    PROVE  CodesOK'
BY DEF CodesOK, CodeTypes, CodesAreSingleUse, CodeIsInOnePlace, CodesAreGranted,
       Grant

\* Tokens issued for an approved grant, or to the built-in client.
LEMMA IssueTokenSafe ==
    ASSUME TokensOK, NEW c \in Clients, NEW s \in Scopes, NEW heard,
           IssueToken(c, s, heard), UNCHANGED <<now, approved>>,
           Grant(c, s) \in approved \/ (c = Builtin /\ s = DefaultScope)
    PROVE  TokensOK'
<1> DEFINE a == AccessToken(c, s)
           f == RefreshToken(c, s)
<1>1. a \in Tokens /\ a.subject = c /\ a.scope = s /\ a.exp = now + AccessTTL
  BY Constants DEF AccessToken, Tokens, TokensOK, TokenTypes
<1>2. f \in Tokens /\ f.subject = c /\ f.scope = s /\ f.use = "refresh"
  BY Constants DEF RefreshToken, Tokens, TokensOK, TokenTypes
<1>3. /\ tokens' = tokens \cup {a, f}
      /\ held' = [held EXCEPT ![c] = {f}] \/ held' = held
      /\ issuedAt' = [issuedAt EXCEPT ![c] = now]
  BY DEF IssueToken
<1> HIDE DEF a, f
<1>4. TokenTypes'
  <2>1. now' \in Nat /\ tokens' \subseteq Tokens /\ issuedAt' \in [Clients -> Nat]
    BY <1>1, <1>2, <1>3 DEF TokensOK, TokenTypes
  <2>2. held' \in [Clients -> SUBSET Tokens]
    BY <1>2, <1>3 DEF TokensOK, TokenTypes
  <2>3. ASSUME NEW d \in Clients, NEW t \in held'[d], NEW u \in held'[d]
        PROVE  t = u /\ t.subject = d /\ t.use = "refresh"
    BY <1>2, <1>3 DEF TokensOK, TokenTypes
  <2> QED
    BY <2>1, <2>2, <2>3 DEF TokenTypes
<1>5. TokensAreGranted'
  <2> SUFFICES ASSUME NEW t \in tokens' \cup UNION {held'[d] : d \in Clients}
               PROVE  \/ Grant(t.subject, t.scope) \in approved
                      \/ t.subject = Builtin /\ t.scope = DefaultScope
    BY DEF TokensAreGranted, Kept, Grant
  <2>1. t \in {a, f} \/ t \in tokens \cup UNION {held[d] : d \in Clients}
    <3>1. CASE t \in tokens'
      BY <3>1, <1>3
    <3>2. CASE t \in UNION {held'[d] : d \in Clients}
      <4>1. PICK d \in Clients : t \in held'[d]
        BY <3>2
      <4>2. t = f \/ t \in held[d]
        BY <4>1, <1>3 DEF TokensOK, TokenTypes
      <4> QED
        BY <4>2
    <3> QED
      BY <3>1, <3>2
  <2> QED
    BY <2>1, <1>1, <1>2 DEF TokensOK, TokensAreGranted, Kept
<1>6. TokensAreRecent'
  <2>1. \A d \in Clients : issuedAt'[d] <= now'
    BY <1>3 DEF TokensOK, TokenTypes, TokensAreRecent
  <2>2. ASSUME NEW t \in tokens', t.use = "access"
        PROVE  t.exp <= issuedAt'[t.subject] + AccessTTL
    <3>1. CASE t = a
      BY <3>1, <1>1, <1>3, Constants DEF TokensOK, TokenTypes
    <3>2. CASE t \in tokens
      <4>1. t.subject \in Clients /\ t.exp \in Nat
        BY <3>2 DEF TokensOK, TokenTypes, Tokens
      <4>2. t.exp <= issuedAt[t.subject] + AccessTTL
        BY <2>2, <3>2 DEF TokensOK, TokensAreRecent
      <4>3. issuedAt[t.subject] <= issuedAt'[t.subject]
        BY <4>1, <1>3 DEF TokensOK, TokenTypes, TokensAreRecent
      <4> QED
        BY <4>1, <4>2, <4>3, <1>3, Constants DEF TokensOK, TokenTypes
    <3> QED
      BY <2>2, <3>1, <3>2, <1>2, <1>3
  <2> QED
    BY <2>1, <2>2 DEF TokensAreRecent
<1> QED
  BY <1>4, <1>5, <1>6 DEF TokensOK

-----------------------------------------------------------------------------
(* The steps *)

LEMMA AuthorizeInv ==
    ASSUME IInv, NEW r \in Requests, NEW c \in Clients, NEW s \in Scopes,
           Authorize(r, c, s)
    PROVE  IInv'
<1> DEFINE act == [pc |-> "insert", client |-> c, owner |-> Builtin,
                   scope |-> s, code |-> 0]
<1>1. act \in Activations /\ Grant(c, s) \in Grants
  BY Constants DEF Activations, Grant, Grants
<1>2. act.pc = "insert" /\ act.client = c /\ act.scope = s
  OBVIOUS
<1>3. /\ req' = [req EXCEPT ![r] = act]
      /\ approved' = approved \cup {Grant(c, s)}
      /\ UNCHANGED <<now, session, ids, registered, made, codes, spent, code,
                     tokens, held, exchanged, issuedAt>>
  BY DEF Authorize
<1> HIDE DEF act
<1>4. CodeTypes'
  BY <1>1, <1>3, Halves DEF CodesOK, CodeTypes
<1>5. CodesAreSingleUse' /\ CodeIsInOnePlace'
  BY <1>2, <1>3, Halves DEF CodesOK, CodeTypes, CodesAreSingleUse, CodeIsInOnePlace
<1>6. CodesAreGranted'
  BY <1>2, <1>3, Halves DEF CodesOK, CodeTypes, CodesAreGranted
<1>7. TokensOK'
  BY <1>3, Halves, TokensFrame
<1> QED
  BY <1>4, <1>5, <1>6, <1>7, HalvesNext DEF CodesOK

LEMMA InsertCodeInv ==
    ASSUME IInv, NEW r \in Requests, InsertCode(r)
    PROVE  IInv'
<1> DEFINE n == made + 1
           new == [client |-> req[r].client, scope |-> req[r].scope,
                   expires |-> now + CodeTTL]
<1>1. /\ req[r].pc = "insert" /\ made < MaxCodes /\ made' = n
      /\ codes' = codes \cup {n} /\ code' = [code EXCEPT ![n] = new]
      /\ req' = [req EXCEPT ![r] = Idle]
      /\ UNCHANGED <<now, session, ids, registered, spent, tokens, held,
                     approved, exchanged, issuedAt>>
  BY DEF InsertCode
<1>2. new \in AuthCodes /\ new.client = req[r].client /\ new.scope = req[r].scope
  <2>1. req[r] \in Activations /\ now \in Nat
    BY Halves DEF CodesOK, CodeTypes, TokensOK, TokenTypes
  <2> QED
    BY <2>1, Constants DEF Activations, AuthCodes
<1> HIDE DEF new
<1>3. n \in Codes /\ n \notin codes /\ n > made /\ made \in Nat
  BY <1>1, Halves, Constants DEF CodesOK, CodeTypes, Codes
<1>4. CodeTypes'
  <2>1. /\ made' \in 0 .. MaxCodes /\ codes' \subseteq 1 .. made'
        /\ spent' \subseteq 1 .. made'
    BY <1>1, <1>3, Halves, Constants DEF CodesOK, CodeTypes
  <2>2. code' \in [Codes -> AuthCodes] /\ req' \in [Requests -> Activations]
    BY <1>1, <1>2, <1>3, Halves, RecordTypes DEF CodesOK, CodeTypes
  <2> QED
    BY <2>1, <2>2, <1>1, Halves DEF CodesOK, CodeTypes
<1>5. CodesAreSingleUse'
  <2>1. n \notin spent
    BY <1>3, Halves DEF CodesOK, CodeTypes
  <2> QED
    BY <2>1, <1>1, Halves DEF CodesOK, CodesAreSingleUse
<1>6. CodeIsInOnePlace'
  <2>1. \A k \in codes' : exchanged'[k] = 0
    BY <1>1, <1>3, Halves DEF CodesOK, CodeIsInOnePlace
  <2>2. \A k \in Codes : k > made' => exchanged'[k] = 0
    BY <1>1, <1>3, Halves DEF CodesOK, CodeIsInOnePlace, Codes
  <2>3. \A q \in Requests : req'[q].pc = "check" =>
            q # r /\ req'[q] = req[q] /\ req[q].code # n /\ req[q].code \in 1 .. n
    BY <1>1, <1>3, Halves DEF CodesOK, CodeTypes, CodeIsInOnePlace, Idle
  <2> QED
    BY <2>1, <2>2, <2>3, <1>1, Halves DEF CodesOK, CodeIsInOnePlace
<1>7. CodesAreGranted'
  <2>1. \A k \in codes' : Grant(code'[k].client, code'[k].scope) \in approved'
    <3> TAKE k \in codes'
    <3>1. CASE k = n
      BY <3>1, <1>1, <1>2, <1>3, Halves
      DEF CodesOK, CodeTypes, CodesAreGranted
    <3>2. CASE k \in codes /\ k # n
      BY <3>2, <1>1, Halves DEF CodesOK, CodeTypes, CodesAreGranted, Codes
    <3> QED
      BY <3>1, <3>2, <1>1
  <2>2. \A q \in Requests : req'[q].pc # "idle" => req'[q] = req[q]
    BY <1>1, Halves DEF CodesOK, CodeTypes, Idle
  <2> QED
    BY <2>1, <2>2, <1>1, Halves DEF CodesOK, CodesAreGranted
<1>8. TokensOK'
  BY <1>1, Halves, TokensFrame
<1> QED
  BY <1>4, <1>5, <1>6, <1>7, <1>8, HalvesNext DEF CodesOK

LEMMA TakeInv ==
    ASSUME IInv, NEW r \in Requests, NEW n \in Codes, NEW c \in Clients,
           Take(r, n, c)
    PROVE  IInv'
<1> DEFINE act == Taken(n, c)
<1>1. /\ req[r].pc = "idle" /\ n \in codes /\ codes' = codes \ {n}
      /\ spent' = spent \cup {n}
      /\ code' = [code EXCEPT ![n] = NoCode]
      /\ req' = [req EXCEPT ![r] = act] \/ req' = req
      /\ UNCHANGED <<now, session, ids, registered, made, tokens, held, approved,
                     exchanged, issuedAt>>
  BY DEF Take
<1>2. /\ act \in Activations /\ act.pc = "check" /\ act.code = n
      /\ act.owner = code[n].client /\ act.scope = code[n].scope
  <2>1. code[n] \in AuthCodes
    BY Halves DEF CodesOK, CodeTypes
  <2> QED
    BY <2>1 DEF Taken, Activations, AuthCodes, Codes
<1> HIDE DEF act
<1>3. n \in 1 .. made /\ exchanged[n] = 0
  BY <1>1, Halves DEF CodesOK, CodeTypes, CodeIsInOnePlace
<1>4. CodeTypes'
  BY <1>1, <1>2, <1>3, RecordTypes, Halves DEF CodesOK, CodeTypes
<1>5. CodesAreSingleUse'
  BY <1>1, Halves DEF CodesOK, CodesAreSingleUse
<1>6. CodeIsInOnePlace'
  <2>1. \A q \in Requests : req'[q].pc = "check" =>
            \/ q = r /\ req'[q] = act
            \/ req'[q] = req[q] /\ q # r /\ req[q].code # n
    BY <1>1, <1>2, Halves DEF CodesOK, CodeTypes, CodeIsInOnePlace
  <2> QED
    BY <2>1, <1>1, <1>2, <1>3, Halves DEF CodesOK, CodeIsInOnePlace
<1>7. CodesAreGranted'
  <2>1. \A k \in codes' : code'[k] = code[k] /\ k \in codes
    BY <1>1, Halves DEF CodesOK, CodeTypes, Codes
  <2>2. ASSUME NEW q \in Requests
        PROVE  req'[q] = req[q] \/ req'[q] = act
    <3>1. CASE q = r
      BY <3>1, <1>1, Halves DEF CodesOK, CodeTypes
    <3>2. CASE q # r
      BY <3>2, <1>1, Halves DEF CodesOK, CodeTypes
    <3> QED
      BY <3>1, <3>2
  <2> QED
    BY <2>1, <2>2, <1>1, <1>2, Halves DEF CodesOK, CodesAreGranted
<1>8. TokensOK'
  BY <1>1, Halves, TokensFrame
<1> QED
  BY <1>4, <1>5, <1>6, <1>7, <1>8, HalvesNext DEF CodesOK

\* A request that is done with its code, spent or not.
LEMMA CodeSpent ==
    ASSUME CodesOK, NEW r \in Requests, req[r].pc = "check",
           req' = [req EXCEPT ![r] = Idle],
           \/ exchanged' = exchanged
           \/ exchanged' = [exchanged EXCEPT ![req[r].code] = @ + 1],
           UNCHANGED <<session, ids, registered, made, codes, spent, code, approved>>
    PROVE  CodesOK'
<1> DEFINE n == req[r].code
<1>1. n \in Codes /\ n \in 1 .. made /\ n \notin codes /\ exchanged[n] = 0
  BY Constants DEF CodesOK, CodeTypes, CodeIsInOnePlace, Codes
<1>2. \A q \in Requests : req'[q].pc # "idle" => q # r /\ req'[q] = req[q]
  BY DEF CodesOK, CodeTypes, Idle
<1>3. /\ exchanged' \in [Codes -> Nat] /\ exchanged'[n] \in {0, 1}
      /\ \A k \in Codes \ {n} : exchanged'[k] = exchanged[k]
  BY <1>1 DEF CodesOK, CodeTypes
<1>4. CodeTypes'
  BY <1>3, RecordTypes DEF CodesOK, CodeTypes
<1>5. CodesAreSingleUse'
  BY <1>1, <1>3 DEF CodesOK, CodesAreSingleUse
<1>6. CodeIsInOnePlace'
  <2>1. \A k \in codes' : exchanged'[k] = 0
    BY <1>1, <1>3, Constants DEF CodesOK, CodeTypes, CodeIsInOnePlace, Codes
  <2>2. \A k \in Codes : k > made' => exchanged'[k] = 0
    BY <1>1, <1>3 DEF CodesOK, CodeTypes, CodeIsInOnePlace
  <2>3. \A q \in Requests : req'[q].pc = "check" =>
            req'[q] = req[q] /\ req[q].code # n /\ req[q].code \in Codes
    BY <1>2, Constants DEF CodesOK, CodeTypes, CodeIsInOnePlace, Codes
  <2> QED
    BY <2>1, <2>2, <2>3, <1>3 DEF CodesOK, CodeIsInOnePlace
<1>7. CodesAreGranted'
  BY <1>2 DEF CodesOK, CodesAreGranted
<1> QED
  BY <1>4, <1>5, <1>6, <1>7 DEF CodesOK

LEMMA ExchangeInv ==
    ASSUME IInv, NEW r \in Requests, NEW heard \in BOOLEAN, Exchange(r, heard)
    PROVE  IInv'
<1>1. req[r] \in Activations
  BY Halves DEF CodesOK, CodeTypes
<1>2. req[r].client \in Clients /\ req[r].scope \in Scopes
  BY <1>1 DEF Activations
<1>3. Grant(req[r].client, req[r].scope) \in approved
  <2>1. req[r].pc = "check" /\ req[r].owner = req[r].client
    BY DEF Exchange
  <2>2. Grant(req[r].owner, req[r].scope) \in approved
    BY <2>1, Halves DEF CodesOK, CodesAreGranted
  <2> QED
    BY <2>1, <2>2 DEF Grant
<1>4. PICK c \in Clients, s \in Scopes : c = req[r].client /\ s = req[r].scope
  BY <1>2
<1>5. IssueToken(c, s, heard) /\ UNCHANGED <<now, approved>>
  BY <1>4 DEF Exchange
<1>6. TokensOK'
  <2>1. TokensOK
    BY Halves
  <2>2. Grant(c, s) \in approved
    BY <1>3, <1>4 DEF Grant
  <2> QED
    BY <1>5, <2>1, <2>2, IssueTokenSafe
<1>7. CodesOK'
  BY Halves, CodeSpent DEF Exchange
<1> QED
  BY <1>6, <1>7, HalvesNext

LEMMA RefuseInv ==
    ASSUME IInv, NEW r \in Requests, Refuse(r)
    PROVE  IInv'
<1>1. CodesOK'
  BY Halves, CodeSpent DEF Refuse
<1>2. TokensOK'
  BY Halves, TokensFrame DEF Refuse
<1> QED
  BY <1>1, <1>2, HalvesNext

LEMMA RefreshInv ==
    ASSUME IInv, NEW t \in Kept, NEW c \in Clients, NEW heard \in BOOLEAN,
           Refresh(t, c, heard)
    PROVE  IInv'
<1>1. t \in Tokens
  BY Halves DEF TokensOK, TokenTypes, Kept
<1>2. \/ Grant(t.subject, t.scope) \in approved
      \/ t.subject = Builtin /\ t.scope = DefaultScope
  BY Halves DEF TokensOK, TokensAreGranted, Kept
<1>3. UNCHANGED <<now, approved>>
  BY DEF Refresh
<1>4. TokensOK'
  <2>1. CASE Refreshable(t) /\ c = t.subject
    <3>1. PICK d \in Clients, s \in Scopes : d = t.subject /\ s = t.scope
      BY <1>1 DEF Tokens
    <3>2. IssueToken(d, s, heard)
      BY <2>1, <3>1 DEF Refresh
    <3>3. TokensOK
      BY Halves
    <3>4. Grant(d, s) \in approved \/ (d = Builtin /\ s = DefaultScope)
      BY <3>1, <1>2 DEF Grant
    <3> QED
      BY <3>2, <3>3, <3>4, <1>3, IssueTokenSafe
  <2>2. CASE ~(Refreshable(t) /\ c = t.subject)
    <3>1. UNCHANGED <<now, tokens, issuedAt, approved>>
      BY <2>2, <1>3 DEF Refresh
    <3>2. held' = [held EXCEPT ![c] = {}] \/ held' = held
      BY <2>2 DEF Refresh
    <3>3. TokenTypes' /\ TokensAreRecent'
      BY <3>1, <3>2, Halves DEF TokensOK, TokenTypes, TokensAreRecent
    <3>4. UNION {held'[d] : d \in Clients} \subseteq UNION {held[d] : d \in Clients}
      BY <3>2, Halves DEF TokensOK, TokenTypes
    <3>5. TokensAreGranted'
      BY <3>1, <3>4, Halves DEF TokensOK, TokensAreGranted, Grant, Kept
    <3> QED
      BY <3>3, <3>5 DEF TokensOK
  <2> QED
    BY <2>1, <2>2
<1>5. CodesOK'
  BY Halves, CodesFrame DEF Refresh, CodesOK, CodeTypes
<1> QED
  BY <1>4, <1>5, HalvesNext

LEMMA TickInv == ASSUME IInv, Tick PROVE IInv'
<1>1. CodesOK'
  <2>1. session' \in Nat
    BY Halves DEF Tick, CodesOK, CodeTypes
  <2> QED
    BY <2>1, Halves, CodesFrame DEF Tick
<1>2. now' = now + 1 /\ tokens' \subseteq tokens /\ UNCHANGED <<held, approved, issuedAt>>
  BY DEF Tick
<1>3. TokenTypes'
  BY <1>2, Halves DEF TokensOK, TokenTypes
<1>4. TokensAreGranted'
  BY <1>2, Halves DEF TokensOK, TokensAreGranted, Kept, Grant
<1>5. TokensAreRecent'
  BY <1>2, Halves DEF TokensOK, TokenTypes, TokensAreRecent
<1> QED
  BY <1>1, <1>3, <1>4, <1>5, HalvesNext DEF TokensOK

LEMMA RestartInv == ASSUME IInv, Restart PROVE IInv'
<1>1. TokensOK'
  BY Halves, TokensFrame DEF Restart
<1>2. CodeTypes'
  BY RecordTypes, Halves DEF Restart, CodesOK, CodeTypes
<1>3. CodesAreSingleUse' /\ CodeIsInOnePlace'
  BY Halves DEF Restart, CodesOK, CodesAreSingleUse, CodeIsInOnePlace, Idle
<1>4. CodesAreGranted'
  BY DEF Restart, CodesAreGranted, Idle
<1> QED
  BY <1>1, <1>2, <1>3, <1>4, HalvesNext DEF CodesOK

\* Login, Logout and Register touch neither codes nor tokens.
LEMMA SessionInv == ASSUME IInv, Login \/ Logout \/ Register PROVE IInv'
<1>1. TokensOK'
  BY Halves, TokensFrame DEF Login, Logout, Register
<1>2. CASE Login \/ Logout
  <2>1. session' \in Nat
    BY <1>2, Halves, Constants DEF Login, Logout, TokensOK, TokenTypes
  <2>2. CodesOK'
    BY <2>1, <1>2, Halves, CodesFrame DEF Login, Logout
  <2> QED
    BY <2>2, <1>1, HalvesNext
<1>3. CASE Register
  <2>1. CodeTypes'
    BY <1>3, Halves, Constants DEF Register, CodesOK, CodeTypes
  <2>2. CodesAreSingleUse' /\ CodeIsInOnePlace' /\ CodesAreGranted'
    BY <1>3, Halves
    DEF Register, CodesOK, CodesAreSingleUse, CodeIsInOnePlace, CodesAreGranted, Grant
  <2> QED
    BY <2>1, <2>2, <1>1, HalvesNext DEF CodesOK
<1> QED
  BY <1>2, <1>3

LEMMA ClientCredentialsInv ==
    ASSUME IInv, NEW heard \in BOOLEAN, ClientCredentials(heard)
    PROVE  IInv'
<1>1. TokensOK'
  BY Halves, Constants, IssueTokenSafe DEF ClientCredentials
<1>2. CodesOK'
  BY Halves, CodesFrame DEF ClientCredentials, CodesOK, CodeTypes
<1> QED
  BY <1>1, <1>2, HalvesNext

LEMMA StutterInv == ASSUME IInv, UNCHANGED vars PROVE IInv'
<1>1. TokensOK'
  BY Halves, TokensFrame DEF vars
<1>2. CodesOK'
  BY Halves, CodesFrame DEF vars, CodesOK, CodeTypes
<1> QED
  BY <1>1, <1>2, HalvesNext

LEMMA NextInv == ASSUME IInv, [Next]_vars PROVE IInv'
BY AuthorizeInv, InsertCodeInv, TakeInv, ExchangeInv, RefuseInv, RefreshInv,
   TickInv, RestartInv, SessionInv, ClientCredentialsInv, StutterInv DEF Next

-----------------------------------------------------------------------------
(* The theorems *)

\* IInv holds in every reachable state.
THEOREM OAuthInvariant == Spec => []IInv
BY InitInv, NextInv, PTL DEF Spec

\* Every variable keeps its type; a client keeps at most one refresh token,
\* its own.
THEOREM OAuthTypeCorrect == Spec => []TypeOK
<1>1. IInv => TypeOK
  BY DEF IInv
<1> QED
  BY <1>1, OAuthInvariant, PTL

\* An authorization code buys tokens at most once, under any interleaving of
\* the requests that present it and across restarts, and nobody finds it again
\* once it was presented or its server stopped (token.go tokenFromAuthCode).
THEOREM SingleUse == Spec => []CodesAreSingleUse
<1>1. IInv => CodesAreSingleUse
  BY DEF IInv
<1> QED
  BY <1>1, OAuthInvariant, PTL

\* Every token, through any chain of refreshes, is for a grant the logged-in
\* user authorized, or the built-in client's.
THEOREM Granted == Spec => []TokensAreGranted
<1>1. IInv => TokensAreGranted
  BY DEF IInv
<1> QED
  BY <1>1, OAuthInvariant, PTL

\* A token /mcp accepts was issued within AccessTTL of its client's last grant,
\* refresh or login.
THEOREM Recent == Spec => []AccessIsRecent
<1>1. IInv => AccessIsRecent
  <2> SUFFICES ASSUME IInv, NEW t \in tokens, Accepted(t)
               PROVE  now < issuedAt[t.subject] + AccessTTL
    BY DEF AccessIsRecent
  <2>1. t \in Tokens /\ now \in Nat
    BY Halves DEF TokensOK, TokenTypes
  <2>2. t.use = "access" /\ t.exp \in Nat /\ issuedAt[t.subject] \in Nat
    BY <2>1, Halves DEF Accepted, Tokens, TokensOK, TokenTypes
  <2>3. t.exp <= issuedAt[t.subject] + AccessTTL
    BY <2>2, Halves DEF TokensOK, TokensAreRecent
  <2> QED
    BY <2>1, <2>2, <2>3, Constants DEF Accepted
<1> QED
  BY <1>1, OAuthInvariant, PTL

\* A client loses its connection only by letting its refresh token expire.
THEOREM Connected == Spec => StaysConnected
<1> DEFINE Lasts == \A c \in Clients : \A t \in held[c] :
                       held'[c] = {} => now >= t.exp
<1>1. ASSUME IInv, [Next]_vars PROVE [Lasts]_vars
  <2> SUFFICES ASSUME NEW c \in Clients, NEW t \in held[c], held'[c] = {}
               PROVE  now >= t.exp
    OBVIOUS
  <2>1. t \in Tokens /\ now \in Nat /\ t.exp \in Nat
    BY <1>1, Halves DEF TokensOK, TokenTypes, Tokens
  <2>2. ASSUME NEW d \in Clients, NEW s, NEW heard, IssueToken(d, s, heard)
        PROVE  FALSE
    BY <2>2, <1>1, Halves DEF IssueToken, TokensOK, TokenTypes
  <2>3. CASE \E u \in Kept, d \in Clients, heard \in BOOLEAN : Refresh(u, d, heard)
    <3>1. PICK u \in Kept, d \in Clients, heard \in BOOLEAN : Refresh(u, d, heard)
      BY <2>3
    <3>2. u \in Tokens /\ u.subject \in Clients
      BY <1>1, Halves DEF TokensOK, TokenTypes, Tokens, Kept
    <3>3. ~(Refreshable(u) /\ d = u.subject)
      BY <3>1, <3>2, <2>2 DEF Refresh
    <3>4. u \in held[d] /\ held' = [held EXCEPT ![d] = {}]
      BY <3>1, <3>3 DEF Refresh
    <3>5. c = d
      BY <3>4, <1>1, Halves DEF TokensOK, TokenTypes
    <3>6. u = t
      BY <3>4, <3>5, <1>1, Halves DEF TokensOK, TokenTypes
    <3>7. u.use = "refresh" /\ u.subject = d
      BY <3>4, <1>1, Halves DEF TokensOK, TokenTypes
    <3> QED
      BY <3>3, <3>6, <3>7, <2>1 DEF Refreshable
  <2>4. CASE \E r \in Requests, heard \in BOOLEAN : Exchange(r, heard)
    <3>1. PICK r \in Requests, heard \in BOOLEAN : Exchange(r, heard)
      BY <2>4
    <3>2. req[r].client \in Clients
      BY <1>1, Halves DEF CodesOK, CodeTypes, Activations
    <3> QED
      BY <3>1, <3>2, <2>2 DEF Exchange
  <2>5. CASE \E heard \in BOOLEAN : ClientCredentials(heard)
    BY <2>5, <2>2, Constants DEF ClientCredentials
  <2>6. CASE held' = held
    BY <2>6
  <2> QED
    BY <1>1, <2>3, <2>4, <2>5, <2>6
    DEF Next, vars, Login, Logout, Register, Tick, Restart, Authorize, Take,
        InsertCode, Refuse
<1> QED
  BY <1>1, OAuthInvariant, PTL DEF Spec, StaysConnected
=============================================================================
