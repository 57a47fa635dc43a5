--------------------------- MODULE SessionsProofs ----------------------------
(***************************************************************************)
(* Proofs about Sessions: types, the index of every user's sessions, who   *)
(* is served, and who is signed out.                                       *)
(***************************************************************************)
EXTENDS Sessions, TLAPS

\* What a request knows once it is past Send
InFlight(q) ==
    /\ pc[q] = "lookup" => token[q] \in Ids
    /\ pc[q] \in {"account", "revoke", "delete"} => token[q] \in Ids /\ found[q] \in Users
    /\ pc[q] # "idle" /\ call[q].op = "callback" => query[q] \in Reqs
    /\ pc[q] = "callback" => call[q].op = "callback"
    /\ pc[q] = "exchange" => query[q] \in Reqs
    /\ pc[q] \in {"exchange", "upsert", "create"} => consent[q] \in Users

TypeInv == TypeOK /\ \A q \in Reqs : InFlight(q)

LEMMA ReqIsId == Reqs \subseteq Ids /\ Earlier \subseteq Ids
BY DEF Ids

LEMMA CallsAreTyped ==
    ASSUME TypeOK, NEW q \in Reqs
    PROVE  /\ call[q].op \in {"login", "callback", "logout", "me"}
           /\ call[q].browser \in Browsers
           /\ Handler(call[q].op) = call[q].op
BY CallsAssumption DEF TypeOK, CallType, Handler

LEMMA TypeInit == Init => TypeInv
<1> SUFFICES ASSUME Init PROVE TypeInv  OBVIOUS
<1>1. TypeOK
  BY StartAssumption, TtlAssumption, ReqIsId DEF Init, TypeOK, Locations, Codes
<1>2. \A q \in Reqs : InFlight(q)  BY DEF Init, InFlight
<1> QED  BY <1>1, <1>2 DEF TypeInv

\* The session store's transactions keep its types.
LEMMA StoreTypes ==
    ASSUME TypeOK, NEW t \in Ids, NEW u \in Users,
           SetSession(t, u) \/ DropSession(t, u) \/ UNCHANGED redis
    PROVE  /\ session' \in [Ids -> [user: Users \cup {NoUser}, left: 0..Ttl]]
           /\ index' \in [Users -> SUBSET Ids]
           /\ life' \in [Users -> 0..Ttl]
<1> USE DEF TypeOK
<1>1. CASE SetSession(t, u)
  <2>1. [user |-> u, left |-> Ttl] \in [user: Users \cup {NoUser}, left: 0..Ttl]
    BY TtlAssumption
  <2>2. session' \in [Ids -> [user: Users \cup {NoUser}, left: 0..Ttl]]
    BY <1>1, <2>1 DEF SetSession
  <2> QED  BY <1>1, <2>2, TtlAssumption DEF SetSession
<1>2. CASE DropSession(t, u)
  <2>1. session' = [session EXCEPT ![t] = [user |-> NoUser, left |-> session[t].left]]
    BY <1>2 DEF DropSession
  <2>2. [user |-> NoUser, left |-> session[t].left] \in [user: Users \cup {NoUser}, left: 0..Ttl]
    OBVIOUS
  <2>3. session' \in [Ids -> [user: Users \cup {NoUser}, left: 0..Ttl]]
    BY <2>1, <2>2
  <2> QED  BY <1>2, <2>3 DEF DropSession
<1>3. CASE UNCHANGED redis  BY <1>3 DEF redis
<1> QED  BY <1>1, <1>2, <1>3

LEMMA TypeSend == ASSUME TypeInv, NEW q \in Reqs, Send(q) PROVE TypeInv'
<1> USE DEF redis, cookies
<1>1. TypeOK'
  BY ReqIsId, CallsAreTyped DEF TypeInv, TypeOK, Send, Goto, Locations, Actives
<1>2. InFlight(q)'
  BY CallsAreTyped DEF TypeInv, TypeOK, InFlight, Send, Goto
<1>3. \A p \in Reqs \ {q} : InFlight(p)'
  BY DEF TypeInv, TypeOK, InFlight, Send, Goto
<1> QED  BY <1>1, <1>2, <1>3 DEF TypeInv

LEMMA TypeReceive == ASSUME TypeInv, NEW q \in Reqs, Receive(q) PROVE TypeInv'
<1> USE DEF redis, cookies, input
<1> DEFINE b == call[q].browser
<1>0. /\ jar \in [Browsers -> Ids \cup {NoId}] /\ oauth \in [Browsers -> Ids \cup {NoId}]
      /\ b \in Browsers /\ q \in Ids
  BY ReqIsId, CallsAreTyped DEF TypeInv, TypeOK
<1>a. \/ UNCHANGED cookies
      \/ /\ \E v \in {q, NoId, jar[b]} : jar' = [jar EXCEPT ![b] = v]
         /\ \E v \in {q, NoId, oauth[b]} : oauth' = [oauth EXCEPT ![b] = v]
  <2>1. CASE UNCHANGED cookies  BY <2>1
  <2>2. CASE /\ jar' = [jar EXCEPT ![b] = CASE resp[q] = "signedin" -> q
                                            [] call[q].op = "logout" -> NoId
                                            [] OTHER -> @]
             /\ oauth' = [oauth EXCEPT ![b] = CASE resp[q] = "302" -> q
                                                [] call[q].op = "callback" -> NoId
                                                [] OTHER -> @]
    <3>1. (CASE resp[q] = "signedin" -> q [] call[q].op = "logout" -> NoId
             [] OTHER -> jar[b]) \in {q, NoId, jar[b]}
      OBVIOUS
    <3>2. (CASE resp[q] = "302" -> q [] call[q].op = "callback" -> NoId
             [] OTHER -> oauth[b]) \in {q, NoId, oauth[b]}
      OBVIOUS
    <3> QED  BY <2>2, <3>1, <3>2
  <2> QED  BY <2>1, <2>2 DEF Receive
<1>b. /\ jar' \in [Browsers -> Ids \cup {NoId}]
      /\ oauth' \in [Browsers -> Ids \cup {NoId}]
  BY <1>0, <1>a
<1>1. TypeOK'
  BY <1>b DEF TypeInv, TypeOK, Receive, Goto, Locations
<1>2. \A p \in Reqs : InFlight(p)'
  BY DEF TypeInv, TypeOK, InFlight, Receive, Goto
<1> QED  BY <1>1, <1>2 DEF TypeInv

LEMMA TypeLoadUser == ASSUME TypeInv, NEW q \in Reqs, LoadUser(q) PROVE TypeInv'
<1> USE DEF cookies, input
<1>0. /\ TypeOK /\ \A p \in Reqs : InFlight(p)
      /\ Handler(call[q].op) = call[q].op
      /\ call[q].op \in {"login", "callback", "logout", "me"}
  BY CallsAreTyped DEF TypeInv
<1>1. CASE Lookup(q)
  <2>1. pc[q] = "lookup" /\ token[q] \in Ids  BY <1>0, <1>1 DEF Lookup, InFlight
  <2>a. session[token[q]].user \in Users \cup {NoUser}  BY <1>0, <2>1 DEF TypeOK
  <2>2. TypeOK'
    <3>1. found' \in [Reqs -> Users \cup {NoUser}]
      <4>1. found' \in {found, [found EXCEPT ![q] = session[token[q]].user]}
        BY <1>1 DEF Lookup
      <4> QED  BY <1>0, <2>a, <4>1 DEF TypeOK
    <3>2. pc' \in [Reqs -> Locations]
      <4>1. \E l \in {Handler(call[q].op), "account"} : pc' = [pc EXCEPT ![q] = l]
        BY <1>1 DEF Lookup, Goto
      <4> QED  BY <1>0, <4>1 DEF TypeOK, Locations
    <3>3. UNCHANGED <<account, up, session, index, life, used, jar, oauth, call, token,
                      sent, query, consent, user, ret, resp, met>>
      BY <1>1 DEF Lookup, redis
    <3> QED  BY <1>0, <3>1, <3>2, <3>3 DEF TypeOK
  <2>3. InFlight(q)'
    BY <1>0, <1>1, <2>1 DEF TypeOK, Lookup, Open, Goto, InFlight
  <2>4. \A p \in Reqs \ {q} : InFlight(p)'
    BY <1>0, <1>1 DEF TypeOK, Lookup, Goto, InFlight
  <2> QED  BY <2>2, <2>3, <2>4 DEF TypeInv
<1>2. CASE GetByID(q)
  <2>1. pc[q] = "account" /\ found[q] \in Users  BY <1>0, <1>2 DEF GetByID, InFlight
  <2>a. UNCHANGED redis /\ user' \in {user, [user EXCEPT ![q] = found[q]]}
    BY <1>2 DEF GetByID, Attach
  <2>2. TypeOK'
    <3>1. user' \in [Reqs -> Users \cup {NoUser}]
      BY <1>0, <2>1, <2>a DEF TypeOK
    <3>2. pc' \in [Reqs -> Locations]
      <4>1. \E l \in {Handler(call[q].op), "revoke"} : pc' = [pc EXCEPT ![q] = l]
        BY <1>2 DEF GetByID, Goto
      <4> QED  BY <1>0, <4>1 DEF TypeOK, Locations
    <3>3. UNCHANGED <<account, up, used, jar, oauth, call, token, sent, query, consent,
                      found, ret, resp, met>>
      BY <1>2 DEF GetByID
    <3> QED  BY <1>0, <2>a, <3>1, <3>2, <3>3 DEF TypeOK, redis
  <2>3. InFlight(q)'  BY <1>0, <1>2, <2>1 DEF TypeOK, GetByID, Goto, InFlight
  <2>4. \A p \in Reqs \ {q} : InFlight(p)'
    BY <1>0, <1>2 DEF TypeOK, GetByID, Goto, InFlight
  <2> QED  BY <2>2, <2>3, <2>4 DEF TypeInv
<1>3. CASE Revoke(q)
  <2>1. pc[q] = "revoke" /\ token[q] \in Ids /\ found[q] \in Users
    BY <1>0, <1>3 DEF Revoke, InFlight
  <2>2. DropSession(token[q], found[q]) \/ UNCHANGED redis
    BY <1>3 DEF Revoke
  <2>3. TypeOK'
    BY <1>0, <1>3, <2>1, <2>2, StoreTypes
    DEF TypeOK, Revoke, Answered, Unanswered, Goto, Locations
  <2>4. InFlight(q)'  BY <1>0, <1>3, <2>1 DEF TypeOK, Revoke, Goto, InFlight
  <2>5. \A p \in Reqs \ {q} : InFlight(p)'
    BY <1>0, <1>3 DEF TypeOK, Revoke, Goto, InFlight
  <2> QED  BY <2>3, <2>4, <2>5 DEF TypeInv
<1> QED  BY <1>1, <1>2, <1>3 DEF LoadUser

LEMMA TypeSignIn == ASSUME TypeInv, NEW q \in Reqs, SignIn(q) PROVE TypeInv'
<1> USE DEF cookies, input
<1>0. TypeOK /\ \A p \in Reqs : InFlight(p)  BY DEF TypeInv
<1>1. CASE Login(q)
  <2>1. TypeOK'  BY <1>0, <1>1 DEF TypeOK, Login, Reply, Goto, Locations, Codes, redis
  <2>2. \A p \in Reqs : InFlight(p)'
    BY <1>0, <1>1 DEF TypeOK, Login, Reply, Goto, InFlight
  <2> QED  BY <2>1, <2>2 DEF TypeInv
<1>2. CASE CheckState(q)
  <2>1. TypeOK'  BY <1>0, <1>2 DEF TypeOK, CheckState, Reply, Goto, Locations, Codes, redis
  <2>2. \A p \in Reqs : InFlight(p)'
    BY <1>0, <1>2 DEF TypeOK, CheckState, Reply, Goto, InFlight
  <2> QED  BY <2>1, <2>2 DEF TypeInv
<1>3. CASE FetchProfile(q)
  <2>1. query[q] \in Ids  BY <1>0, <1>3, ReqIsId DEF FetchProfile, InFlight
  <2>2. TypeOK'
    BY <1>0, <1>3, <2>1 DEF TypeOK, FetchProfile, Reply, Goto, Locations, Codes, redis
  <2>3. \A p \in Reqs : InFlight(p)'
    BY <1>0, <1>3 DEF TypeOK, FetchProfile, Reply, Goto, InFlight
  <2> QED  BY <2>2, <2>3 DEF TypeInv
<1>4. CASE UpsertByProvider(q)
  <2>1. pc[q] = "upsert" /\ consent[q] \in Users
    BY <1>0, <1>4 DEF UpsertByProvider, InFlight
  <2>a. account' \in [Users -> {"none", "active", "deleted"}]
    BY <1>0, <1>4, <2>1 DEF TypeOK, UpsertByProvider, Upserted
  <2>b. met' \in [Reqs -> SUBSET Users]
    BY <1>0, <1>4 DEF TypeOK, UpsertByProvider, Meet
  <2>c. /\ pc' \in [Reqs -> Locations] /\ resp' \in [Reqs -> Codes]
    BY <1>0, <1>4 DEF TypeOK, UpsertByProvider, Reply, Goto, Locations, Codes
  <2>2. TypeOK'
    BY <1>0, <1>4, <2>a, <2>b, <2>c DEF TypeOK, UpsertByProvider, redis
  <2>3. \A p \in Reqs : InFlight(p)'
    BY <1>0, <1>4 DEF TypeOK, UpsertByProvider, Reply, Goto, InFlight
  <2> QED  BY <2>2, <2>3 DEF TypeInv
<1>5. CASE Create(q)
  <2>1. q \in Ids /\ pc[q] = "create" /\ consent[q] \in Users
    BY <1>0, <1>5, ReqIsId DEF Create, InFlight
  <2>2. SetSession(q, consent[q]) \/ UNCHANGED redis  BY <1>5 DEF Create
  <2>3. TypeOK'
    BY <1>0, <1>5, <2>1, <2>2, StoreTypes
    DEF TypeOK, Create, Answered, Unanswered, Reply, Goto, Locations, Codes
  <2>4. \A p \in Reqs : InFlight(p)'
    BY <1>0, <1>5 DEF TypeOK, Create, Reply, Goto, InFlight
  <2> QED  BY <2>3, <2>4 DEF TypeInv
<1> QED  BY <1>1, <1>2, <1>3, <1>4, <1>5 DEF SignIn

LEMMA TypeSignOut ==
    ASSUME TypeInv, NEW q \in Reqs, SignOut(q) \/ Me(q) PROVE TypeInv'
<1> USE DEF cookies, input
<1>0. TypeOK /\ \A p \in Reqs : InFlight(p)  BY DEF TypeInv
<1>1. CASE FindSession(q)
  <2>a. Knows(q) => session[token[q]].user \in Users \cup {NoUser}
    BY <1>0 DEF TypeOK, Knows
  <2>1. TypeOK'
    BY <1>0, <1>1, <2>a
    DEF TypeOK, FindSession, Unanswered, Reply, Goto, Locations, Codes, redis
  <2>2. \A p \in Reqs : InFlight(p)'
    BY <1>0, <1>1
    DEF TypeOK, FindSession, Knows, Open, Unanswered, Reply, Goto, InFlight
  <2> QED  BY <2>1, <2>2 DEF TypeInv
<1>2. CASE Delete(q)
  <2>1. pc[q] = "delete" /\ token[q] \in Ids /\ found[q] \in Users
    BY <1>0, <1>2 DEF Delete, InFlight
  <2>2. DropSession(token[q], found[q]) \/ UNCHANGED redis  BY <1>2 DEF Delete
  <2>3. TypeOK'
    BY <1>0, <1>2, <2>1, <2>2, StoreTypes
    DEF TypeOK, Delete, Answered, Unanswered, Reply, Goto, Locations, Codes
  <2>4. \A p \in Reqs : InFlight(p)'
    BY <1>0, <1>2 DEF TypeOK, Delete, Reply, Goto, InFlight
  <2> QED  BY <2>3, <2>4 DEF TypeInv
<1>3. CASE Me(q)
  <2>1. TypeOK'  BY <1>0, <1>3 DEF TypeOK, Me, Reply, Goto, Locations, Codes, redis
  <2>2. \A p \in Reqs : InFlight(p)'
    BY <1>0, <1>3 DEF TypeOK, Me, Reply, Goto, InFlight
  <2> QED  BY <2>1, <2>2 DEF TypeInv
<1> QED  BY <1>1, <1>2, <1>3 DEF SignOut

LEMMA TypeExternal == ASSUME TypeInv, External \/ UNCHANGED vars PROVE TypeInv'
<1> USE DEF cookies, input, server
<1>0. TypeOK /\ \A p \in Reqs : InFlight(p)  BY DEF TypeInv
<1>1. CASE Tick
  <2>1. TypeOK'
    <3>1. \A n \in 0..Ttl : (IF n = 0 THEN 0 ELSE n - 1) \in 0..Ttl  BY TtlAssumption
    <3> QED  BY <1>0, <1>1, <3>1 DEF TypeOK, Tick
  <2> QED  BY <1>0, <1>1, <2>1 DEF TypeInv, Tick, InFlight
<1>2. CASE Outage
  BY <1>0, <1>2 DEF TypeInv, TypeOK, Outage, InFlight, redis
<1>3. ASSUME NEW u \in Users, NEW s \in {"active", "deleted"}, SetAccount(u, s)
      PROVE  TypeInv'
  <2>1. TypeOK'  BY <1>0, <1>3 DEF TypeOK, SetAccount, Meet, redis
  <2> QED  BY <1>0, <1>3, <2>1 DEF TypeInv, SetAccount, InFlight
<1>4. ASSUME NEW b \in Browsers, DropCookies(b) PROVE TypeInv'
  <2>1. TypeOK'  BY <1>0, <1>4 DEF TypeOK, DropCookies, redis
  <2> QED  BY <1>0, <1>4, <2>1 DEF TypeInv, DropCookies, InFlight
<1>5. CASE UNCHANGED vars
  BY <1>0, <1>5 DEF vars, TypeInv, TypeOK, InFlight, redis
<1> QED  BY <1>1, <1>2, <1>3, <1>4, <1>5 DEF External

LEMMA TypeNext == TypeInv /\ [Next]_vars => TypeInv'
BY TypeSend, TypeReceive, TypeLoadUser, TypeSignIn, TypeSignOut, TypeExternal DEF Next, Step

LEMMA TypeAlways == Spec => []TypeInv
BY TypeInit, TypeNext, PTL DEF Spec

\* Every variable always has its type; in particular no session has more than
\* SessionTTL to live.
THEOREM SessionsTypeCorrect == Spec => []TypeOK
<1>1. TypeInv => TypeOK  BY DEF TypeInv
<1> QED  BY <1>1, TypeAlways, PTL

----------------------------------------------------------------------------
(* The index of a user's sessions *)

Answering == {"reply", "done"}

\* Before a request is answered nobody has a token of its making.
Fresh(q) ==
    pc[q] \notin Answering =>
        /\ session[q].user = NoUser
        /\ session[q].left = 0
        /\ \A u \in Users : q \notin index[u]
        /\ \A b \in Browsers : jar[b] # q
        /\ \A p \in Reqs : token[p] # q

\* The user a request found is still the session's, or the session was revoked.
Known(q) ==
    pc[q] \in {"account", "revoke", "delete"} =>
        session[token[q]].user \in {found[q], NoUser}

IndexInv == (\A q \in Reqs : Fresh(q) /\ Known(q)) /\ IndexCoversSessions

LEMMA IndexInit == Init => IndexInv
<1> SUFFICES ASSUME Init PROVE IndexInv  OBVIOUS
<1>1. \A q \in Reqs : Fresh(q) /\ Known(q)
  BY StartAssumption, DistinctAssumption, ReqIsId DEF Init, Fresh, Known, Answering, Ids
<1>2. IndexCoversSessions
  BY StartAssumption, TtlAssumption, DistinctAssumption, ReqIsId
  DEF Init, IndexCoversSessions, Open, Ids
<1> QED  BY <1>1, <1>2 DEF IndexInv

\* What a step may do to the requests and the cookies
Orderly ==
    /\ \A p \in Reqs : pc'[p] \notin Answering => pc[p] \notin Answering
    /\ \A b \in Browsers : \/ jar'[b] \in {jar[b], NoId}
                            \/ \E p \in Reqs : jar'[b] = p /\ pc'[p] \in Answering
    /\ \A p \in Reqs : token'[p] = token[p] \/ \E b \in Browsers : token'[p] = jar[b]
    /\ \A p \in Reqs : pc'[p] \in {"account", "revoke", "delete"} =>
          /\ token'[p] = token[p]
          /\ \/ /\ pc[p] \in {"account", "revoke", "delete"}
                /\ found'[p] = found[p]
             \/ found'[p] = session[token[p]].user

LEMMA IndexQuiet == ASSUME TypeInv, IndexInv, Orderly, UNCHANGED redis PROVE IndexInv'
<1> USE DEF redis
<1>1. ASSUME NEW q \in Reqs PROVE Fresh(q)'
  <2> SUFFICES ASSUME pc'[q] \notin Answering
               PROVE  /\ \A b \in Browsers : jar'[b] # q
                      /\ \A p \in Reqs : token'[p] # q
    BY DEF IndexInv, Fresh, Orderly
  <2>1. Fresh(q) /\ pc[q] \notin Answering  BY DEF IndexInv, Orderly
  <2> QED  BY <2>1, DistinctAssumption, ReqIsId DEF Fresh, Orderly
<1>2. ASSUME NEW q \in Reqs PROVE Known(q)'  BY DEF IndexInv, Known, Orderly
<1>3. IndexCoversSessions'  BY DEF IndexInv, IndexCoversSessions, Open
<1> QED  BY <1>1, <1>2, <1>3 DEF IndexInv

LEMMA IndexDrop ==
    ASSUME TypeInv, TypeInv', IndexInv, Orderly, NEW q \in Reqs,
           pc[q] \in {"revoke", "delete"}, DropSession(token[q], found[q])
    PROVE  IndexInv'
<1> DEFINE t == token[q]
<1>0. /\ t \in Ids /\ found[q] \in Users
      /\ session \in [Ids -> [user: Users \cup {NoUser}, left: 0..Ttl]]
      /\ index \in [Users -> SUBSET Ids]
  BY DEF TypeInv, TypeOK, InFlight
<1>1. /\ session'[t] = [user |-> NoUser, left |-> session[t].left]
      /\ \A x \in Ids : x # t => session'[x] = session[x]
      /\ index'[found[q]] = index[found[q]] \ {t}
      /\ \A u \in Users : u # found[q] => index'[u] = index[u]
      /\ life' = life
  BY <1>0 DEF DropSession
<1>2. session[t].user \in {found[q], NoUser}  BY DEF IndexInv, Known
<1>3. ASSUME NEW r \in Reqs PROVE Fresh(r)'
  <2> SUFFICES ASSUME pc'[r] \notin Answering PROVE Fresh(r)'  BY DEF Fresh
  <2>1. Fresh(r) /\ pc[r] \notin Answering  BY DEF IndexInv, Orderly
  <2>2. r # t /\ r \in Ids  BY <2>1, ReqIsId DEF Fresh
  <2>3. /\ \A b \in Browsers : jar'[b] # r
        /\ \A p \in Reqs : token'[p] # r
    BY <2>1, DistinctAssumption, ReqIsId DEF Fresh, Orderly
  <2>4. session'[r].user = NoUser /\ session'[r].left = 0  BY <1>1, <2>1, <2>2 DEF Fresh
  <2>5. \A u \in Users : r \notin index'[u]  BY <1>1, <2>1 DEF Fresh
  <2> QED  BY <2>3, <2>4, <2>5 DEF Fresh
<1>4. ASSUME NEW r \in Reqs PROVE Known(r)'
  <2> SUFFICES ASSUME pc'[r] \in {"account", "revoke", "delete"}
               PROVE  session'[token'[r]].user \in {found'[r], NoUser}
    BY DEF Known
  <2>1. token'[r] = token[r] /\ session[token[r]].user \in {found'[r], NoUser}
    BY DEF IndexInv, Known, Orderly
  <2>2. CASE token[r] = t  BY <1>1, <2>1, <2>2
  <2>3. CASE token[r] # t
    <3>1. token[r] \in Ids \cup {NoId}  BY DEF TypeInv, TypeOK
    <3>2. session'[token[r]] = session[token[r]] \/ token[r] = NoId
      BY <1>1, <2>3, <3>1
    <3>3. token[r] # NoId  BY <2>1, DistinctAssumption DEF TypeInv, InFlight
    <3> QED  BY <2>1, <3>2, <3>3
  <2> QED  BY <2>2, <2>3
<1>5. IndexCoversSessions'
  <2>1. ASSUME NEW x \in Ids, Open(x)'
        PROVE  /\ x \in index'[session'[x].user]
               /\ life'[session'[x].user] >= session'[x].left
    <3>1. x # t /\ session'[x] = session[x]  BY <1>1, <2>1 DEF Open
    <3>2. /\ x \in index[session[x].user] /\ session[x].user \in Users
          /\ life[session[x].user] >= session[x].left
      BY <1>0, <2>1, <3>1 DEF IndexInv, IndexCoversSessions, Open
    <3> QED  BY <1>1, <3>1, <3>2
  <2>2. ASSUME NEW u \in Users, NEW x \in index'[u] PROVE session'[x].user = u
    <3>1. x \in index[u] /\ session[x].user = u /\ x \in Ids
      BY <1>0, <1>1, <2>2 DEF IndexInv, IndexCoversSessions
    <3>2. x # t  BY <1>0, <1>1, <1>2, <2>2, <3>1, DistinctAssumption
    <3> QED  BY <1>1, <3>1, <3>2
  <2> QED  BY <2>1, <2>2 DEF IndexCoversSessions
<1> QED  BY <1>3, <1>4, <1>5 DEF IndexInv

LEMMA IndexSet ==
    ASSUME TypeInv, TypeInv', IndexInv, Orderly, NEW q \in Reqs, NEW u \in Users,
           pc[q] = "create", pc'[q] \in Answering, SetSession(q, u)
    PROVE  IndexInv'
<1>0. /\ q \in Ids
      /\ session \in [Ids -> [user: Users \cup {NoUser}, left: 0..Ttl]]
      /\ index \in [Users -> SUBSET Ids]
      /\ life \in [Users -> 0..Ttl]
  BY ReqIsId DEF TypeInv, TypeOK
<1>1. /\ session'[q] = [user |-> u, left |-> Ttl]
      /\ \A x \in Ids : x # q => session'[x] = session[x]
      /\ index'[u] = index[u] \cup {q}
      /\ \A v \in Users : v # u => index'[v] = index[v]
      /\ life'[u] = Ttl
      /\ \A v \in Users : v # u => life'[v] = life[v]
  BY <1>0 DEF SetSession
<1>2. Fresh(q) /\ pc[q] \notin Answering  BY DEF IndexInv, Answering
<1>3. ASSUME NEW r \in Reqs PROVE Fresh(r)'
  <2> SUFFICES ASSUME pc'[r] \notin Answering PROVE Fresh(r)'  BY DEF Fresh
  <2>1. Fresh(r) /\ pc[r] \notin Answering /\ r # q  BY DEF IndexInv, Orderly
  <2>2. /\ \A b \in Browsers : jar'[b] # r
        /\ \A p \in Reqs : token'[p] # r
    BY <2>1, DistinctAssumption, ReqIsId DEF Fresh, Orderly
  <2>3. session'[r].user = NoUser /\ session'[r].left = 0
    BY <1>1, <2>1, ReqIsId DEF Fresh
  <2>4. \A v \in Users : r \notin index'[v]  BY <1>1, <2>1 DEF Fresh
  <2> QED  BY <2>2, <2>3, <2>4 DEF Fresh
<1>4. ASSUME NEW r \in Reqs PROVE Known(r)'
  <2> SUFFICES ASSUME pc'[r] \in {"account", "revoke", "delete"}
               PROVE  session'[token'[r]].user \in {found'[r], NoUser}
    BY DEF Known
  <2>1. token'[r] = token[r] /\ session[token[r]].user \in {found'[r], NoUser}
    BY DEF IndexInv, Known, Orderly
  <2>2. token[r] \in Ids  BY <2>1 DEF TypeInv, InFlight
  <2>3. token[r] # q  BY <1>2 DEF Fresh
  <2> QED  BY <1>1, <2>1, <2>2, <2>3
<1>5. IndexCoversSessions'
  <2>1. ASSUME NEW x \in Ids, Open(x)'
        PROVE  /\ x \in index'[session'[x].user]
               /\ life'[session'[x].user] >= session'[x].left
    <3>1. CASE x = q  BY <1>1, <3>1, TtlAssumption
    <3>2. CASE x # q
      <4>1. session'[x] = session[x]  BY <1>1, <3>2
      <4>2. /\ x \in index[session[x].user] /\ session[x].user \in Users
            /\ life[session[x].user] >= session[x].left
        BY <1>0, <2>1, <4>1 DEF IndexInv, IndexCoversSessions, Open
      <4>3. session[x].left \in 0..Ttl  BY <1>0
      <4> QED  BY <1>1, <4>1, <4>2, <4>3, TtlAssumption
    <3> QED  BY <3>1, <3>2
  <2>2. ASSUME NEW v \in Users, NEW x \in index'[v] PROVE session'[x].user = v
    <3>1. CASE x = q
      <4>1. v = u  BY <1>1, <1>2, <2>2, <3>1 DEF Fresh
      <4> QED  BY <1>1, <3>1, <4>1
    <3>2. CASE x # q
      <4>1. x \in index[v] /\ x \in Ids  BY <1>0, <1>1, <2>2, <3>2
      <4>2. session[x].user = v  BY <4>1 DEF IndexInv, IndexCoversSessions
      <4> QED  BY <1>1, <3>2, <4>1, <4>2
    <3> QED  BY <3>1, <3>2
  <2> QED  BY <2>1, <2>2 DEF IndexCoversSessions
<1> QED  BY <1>3, <1>4, <1>5 DEF IndexInv

LEMMA IndexTick == ASSUME TypeInv, TypeInv', IndexInv, Orderly, Tick PROVE IndexInv'
<1>0. /\ session \in [Ids -> [user: Users \cup {NoUser}, left: 0..Ttl]]
      /\ index \in [Users -> SUBSET Ids]
      /\ life \in [Users -> 0..Ttl]
  BY DEF TypeInv, TypeOK
<1>1. /\ \A x \in Ids : /\ session'[x].user = session[x].user
                        /\ session[x].left = 0 => session'[x].left = 0
                        /\ session[x].left # 0 => session'[x].left = session[x].left - 1
      /\ \A u \in Users : /\ life[u] <= 1 => index'[u] = {}
                          /\ ~(life[u] <= 1) => index'[u] = index[u]
                          /\ life[u] = 0 => life'[u] = 0
                          /\ life[u] # 0 => life'[u] = life[u] - 1
  BY DEF Tick
<1>2. ASSUME NEW r \in Reqs PROVE Fresh(r)' /\ Known(r)'
  <2>1. r \in Ids  BY ReqIsId
  <2>2. UNCHANGED <<pc, jar, token, found>>  BY DEF Tick, cookies, server, input
  <2>3. Fresh(r)'
    <3>1. \A u \in Users : r \notin index[u] => r \notin index'[u]  BY <1>1
    <3> QED  BY <1>1, <2>1, <2>2, <3>1 DEF IndexInv, Fresh
  <2>4. Known(r)'
    <3> SUFFICES ASSUME pc[r] \in {"account", "revoke", "delete"}
                 PROVE  session'[token[r]].user \in {found[r], NoUser}
      BY <2>2 DEF Known
    <3>1. token[r] \in Ids  BY DEF TypeInv, InFlight
    <3> QED  BY <1>1, <3>1 DEF IndexInv, Known
  <2> QED  BY <2>3, <2>4
<1>3. IndexCoversSessions'
  <2>1. ASSUME NEW x \in Ids, Open(x)'
        PROVE  /\ x \in index'[session'[x].user]
               /\ life'[session'[x].user] >= session'[x].left
    <3> DEFINE u == session[x].user
    <3>a. session'[x].user = u /\ session'[x].user # NoUser /\ session'[x].left > 0
      BY <1>1, <2>1 DEF Open
    <3>b. session[x].left \in 0..Ttl /\ u \in Users \cup {NoUser}  BY <1>0
    <3>c. session[x].left # 0 /\ session'[x].left = session[x].left - 1
      BY <1>1, <3>a, <3>b
    <3>d. session[x].left \in Nat /\ session[x].left > 1  BY <3>a, <3>b, <3>c, TtlAssumption
    <3>1. /\ session'[x].user = u /\ session[x].left \in Nat /\ u \in Users
          /\ session[x].left > 1 /\ session'[x].left = session[x].left - 1
      BY <3>a, <3>b, <3>c, <3>d
    <3>2. x \in index[u] /\ life[u] >= session[x].left /\ life[u] \in Nat
      BY <1>0, <3>1, <3>a, <3>d DEF IndexInv, IndexCoversSessions, Open
    <3>3. index'[u] = index[u] /\ life'[u] = life[u] - 1  BY <1>1, <3>1, <3>2
    <3> QED  BY <3>1, <3>2, <3>3
  <2>2. ASSUME NEW u \in Users, NEW x \in index'[u] PROVE session'[x].user = u
    <3>1. x \in index[u] /\ x \in Ids  BY <1>0, <1>1, <2>2
    <3> QED  BY <1>1, <3>1 DEF IndexInv, IndexCoversSessions
  <2> QED  BY <2>1, <2>2 DEF IndexCoversSessions
<1> QED  BY <1>2, <1>3 DEF IndexInv

LEMMA IndexNext == TypeInv /\ TypeInv' /\ IndexInv /\ [Next]_vars => IndexInv'
<1> SUFFICES ASSUME TypeInv, TypeInv', IndexInv, [Next]_vars PROVE IndexInv'  OBVIOUS
<1> USE DEF cookies, input
<1>0. /\ pc \in [Reqs -> Locations] /\ token \in [Reqs -> Ids \cup {NoId}]
      /\ found \in [Reqs -> Users \cup {NoUser}]
      /\ \A q \in Reqs : Handler(call[q].op) \in {"login", "callback", "logout", "me"}
      /\ \A q \in Reqs : InFlight(q)
      /\ TypeOK
  BY CallsAreTyped DEF TypeInv, TypeOK
\* A request goes on, and nothing else moves but the store.
<1>1. ASSUME NEW q \in Reqs, NEW l, pc[q] \notin Answering, pc' = [pc EXCEPT ![q] = l],
             jar' = jar, token' = token,
             \/ l \notin {"account", "revoke", "delete"} /\ \A p \in Reqs \ {q} : found'[p] = found[p]
             \/ /\ pc[q] \in {"account", "revoke", "delete"}
                /\ found' = found
             \/ found' = [found EXCEPT ![q] = session[token[q]].user]
      PROVE  Orderly
  BY <1>0, <1>1 DEF Orderly, Answering
<1>2. ASSUME NEW q \in Reqs, Send(q) PROVE IndexInv'
  <2>1. Orderly
    BY <1>0, <1>2, CallsAreTyped DEF Send, Goto, Orderly, Answering, TypeInv, TypeOK
  <2> QED  BY <1>2, <2>1, IndexQuiet DEF Send
<1>3. ASSUME NEW q \in Reqs, Receive(q) PROVE IndexInv'
  <2>1. /\ jar \in [Browsers -> Ids \cup {NoId}] /\ call[q].browser \in Browsers
    BY <1>0, CallsAreTyped DEF TypeOK
  <2>2. \E v \in {q, NoId, jar[call[q].browser]} :
           jar' = [jar EXCEPT ![call[q].browser] = v]
    <3>1. CASE UNCHANGED cookies  BY <2>1, <3>1
    <3>2. CASE jar' = [jar EXCEPT ![call[q].browser] =
                           CASE resp[q] = "signedin" -> q
                             [] call[q].op = "logout" -> NoId
                             [] OTHER -> @]
      <4>1. (CASE resp[q] = "signedin" -> q [] call[q].op = "logout" -> NoId
               [] OTHER -> jar[call[q].browser]) \in {q, NoId, jar[call[q].browser]}
        OBVIOUS
      <4> QED  BY <3>2, <4>1
    <3> QED  BY <1>3, <3>1, <3>2 DEF Receive
  <2>3. Orderly
    BY <1>0, <1>3, <2>1, <2>2 DEF Receive, Goto, Orderly, Answering
  <2> QED  BY <1>3, <2>3, IndexQuiet DEF Receive
<1>4. ASSUME NEW q \in Reqs, Lookup(q) PROVE IndexInv'
  <2>1. Orderly  BY <1>0, <1>1, <1>4 DEF Lookup, Goto, Answering
  <2> QED  BY <1>4, <2>1, IndexQuiet DEF Lookup
<1>5. ASSUME NEW q \in Reqs, GetByID(q) PROVE IndexInv'
  <2>1. Orderly  BY <1>0, <1>1, <1>5 DEF GetByID, Goto, Answering
  <2>2. UNCHANGED redis  BY <1>5 DEF GetByID, Attach
  <2> QED  BY <2>1, <2>2, IndexQuiet
<1>6. ASSUME NEW q \in Reqs, Revoke(q) \/ Delete(q) PROVE IndexInv'
  <2>1. Orderly
    BY <1>0, <1>1, <1>6 DEF Revoke, Delete, Reply, Goto, Answering
  <2>2. /\ pc[q] \in {"revoke", "delete"}
        /\ UNCHANGED redis \/ DropSession(token[q], found[q])
    BY <1>6 DEF Revoke, Delete
  <2> QED  BY <2>1, <2>2, IndexQuiet, IndexDrop
<1>7. ASSUME NEW q \in Reqs,
             Me(q) \/ Login(q) \/ CheckState(q) \/ FetchProfile(q) \/ UpsertByProvider(q)
      PROVE  IndexInv'
  <2>1. /\ UNCHANGED <<redis, jar, token, found>> /\ pc[q] \notin Answering
        /\ \E l \in {"reply", "exchange", "upsert", "create"} : pc' = [pc EXCEPT ![q] = l]
    BY <1>7 DEF Me, Login, CheckState, FetchProfile, UpsertByProvider, Reply, Goto, Answering
  <2>2. Orderly  BY <1>1, <2>1
  <2> QED  BY <2>1, <2>2, IndexQuiet
<1>8. ASSUME NEW q \in Reqs, Create(q) PROVE IndexInv'
  <2>1. /\ pc[q] = "create" /\ pc' = [pc EXCEPT ![q] = "reply"] /\ consent[q] \in Users
        /\ UNCHANGED redis \/ SetSession(q, consent[q])
        /\ UNCHANGED <<jar, token, found>>
    BY <1>0, <1>8 DEF Create, Reply, Goto, InFlight
  <2>2. Orderly /\ pc'[q] \in Answering  BY <1>0, <1>1, <2>1 DEF Answering
  <2> QED  BY <2>1, <2>2, IndexQuiet, IndexSet
<1>9. ASSUME NEW q \in Reqs, FindSession(q) PROVE IndexInv'
  <2>1. Orderly
    BY <1>0, <1>1, <1>9 DEF FindSession, Reply, Goto, Answering
  <2> QED  BY <1>9, <2>1, IndexQuiet DEF FindSession
<1>10. ASSUME UNCHANGED <<jar, token, pc, found>> \/ \E b \in Browsers : DropCookies(b)
       PROVE  Orderly
  BY <1>0, <1>10 DEF Orderly, DropCookies, server, TypeOK
<1>11. CASE External
  <2>1. CASE Tick  BY <1>10, <2>1, IndexTick DEF Tick, server
  <2>2. CASE External /\ ~Tick
    <3>1. UNCHANGED redis  BY <2>2 DEF External, Outage, SetAccount, DropCookies
    <3>2. Orderly
      BY <1>10, <2>2 DEF External, Outage, SetAccount, server
    <3> QED  BY <3>1, <3>2, IndexQuiet
  <2> QED  BY <1>11, <2>1, <2>2
<1>12. CASE UNCHANGED vars  BY <1>10, <1>12, IndexQuiet DEF vars
<1> QED
  BY <1>2, <1>3, <1>4, <1>5, <1>6, <1>7, <1>8, <1>9, <1>11, <1>12
  DEF Next, Step, LoadUser, SignIn, SignOut

LEMMA IndexAlways == Spec => []IndexInv
BY IndexInit, IndexNext, TypeAlways, PTL DEF Spec

\* user_sessions:<id> finds every session of the user, and nothing revoked.
THEOREM IndexCoversSessionsAlways == Spec => []IndexCoversSessions
<1>1. IndexInv => IndexCoversSessions  BY DEF IndexInv
<1> QED  BY <1>1, IndexAlways, PTL

----------------------------------------------------------------------------
(* Who is served *)

Resting == {"idle", "reply", "done"}

\* A request in flight has met every account that is active now.
Served(q) ==
    /\ user[q] # NoUser => pc[q] # "idle" /\ user[q] \in met[q]
    /\ pc[q] \notin Resting => Actives \subseteq met[q]
    /\ pc[q] = "create" => consent[q] \in met[q]

ServedInv == \A q \in Reqs : Served(q)

LEMMA ServedInit == Init => ServedInv
BY DEF Init, ServedInv, Served, Resting

\* Steps that leave the accounts alone
LEMMA ServedQuiet ==
    ASSUME TypeInv, ServedInv, NEW q \in Reqs, NEW l, pc[q] # "idle",
           pc' = [pc EXCEPT ![q] = l], l \in Resting \/ pc[q] \notin Resting,
           l \notin {"idle", "create"}, UNCHANGED <<account, met, consent>>,
           \A p \in Reqs \ {q} : user'[p] = user[p],
           user'[q] = user[q] \/ user'[q] \in met[q]
    PROVE  ServedInv'
<1>1. pc \in [Reqs -> Locations]  BY DEF TypeInv, TypeOK
<1>2. Actives' = Actives  BY DEF Actives
<1>3. ASSUME NEW p \in Reqs \ {q} PROVE Served(p)'
  BY <1>1, <1>2 DEF ServedInv, Served
<1>4. Served(q)'
  BY <1>1, <1>2 DEF ServedInv, Served
<1> QED  BY <1>3, <1>4 DEF ServedInv

LEMMA ServedStep ==
    ASSUME TypeInv, ServedInv, NEW q \in Reqs, Step(q)
    PROVE  ServedInv'
<1> USE DEF cookies, input
<1>0. /\ pc \in [Reqs -> Locations] /\ user \in [Reqs -> Users \cup {NoUser}]
      /\ met \in [Reqs -> SUBSET Users]
      /\ Handler(call[q].op) \in {"login", "callback", "logout", "me"}
      /\ InFlight(q) /\ Served(q)
  BY CallsAreTyped DEF TypeInv, TypeOK, ServedInv
<1>1. CASE Send(q)
  <2>1. UNCHANGED <<account, user>> /\ pc[q] = "idle" /\ met' = [met EXCEPT ![q] = Actives]
        /\ Actives' = Actives
    BY <1>1 DEF Send, Actives
  <2>2. /\ \A p \in Reqs \ {q} : consent'[p] = consent[p] /\ pc'[p] = pc[p]
        /\ pc'[q] # "create"
    BY <1>0, <1>1 DEF Send, Goto, TypeInv, TypeOK
  <2>3. user[q] = NoUser  BY <1>0, <2>1 DEF Served
  <2>4. Served(q)'  BY <1>0, <2>1, <2>2, <2>3 DEF Served
  <2>5. ASSUME NEW p \in Reqs \ {q} PROVE Served(p)'
    BY <1>0, <2>1, <2>2 DEF ServedInv, Served
  <2> QED  BY <2>4, <2>5 DEF ServedInv
<1>2. CASE GetByID(q)
  <2>1. /\ pc[q] = "account" /\ UNCHANGED <<account, met, consent>>
        /\ \E l \in {Handler(call[q].op), "revoke"} : pc' = [pc EXCEPT ![q] = l]
        /\ \/ user' = user
           \/ account[found[q]] = "active" /\ user' = [user EXCEPT ![q] = found[q]]
    BY <1>2 DEF GetByID, Attach, IsActive, Goto
  <2>2. account[found[q]] = "active" => found[q] \in met[q]
    BY <1>0, <2>1 DEF Served, Resting, Actives, InFlight
  <2> QED  BY <1>0, <2>1, <2>2, ServedQuiet DEF Resting
<1>3. CASE UpsertByProvider(q)
  <2>1. /\ pc[q] = "upsert" /\ consent[q] \in Users /\ UNCHANGED <<user, consent>>
        /\ account \in [Users -> {"none", "active", "deleted"}]
    BY <1>0, <1>3 DEF UpsertByProvider, InFlight, TypeInv, TypeOK
  <2>2. CASE UNCHANGED <<account, met>> /\ pc' = [pc EXCEPT ![q] = "reply"]
    <3>1. /\ pc[q] # "idle" /\ "reply" \in Resting /\ "reply" \notin {"idle", "create"}
          /\ UNCHANGED <<account, met, consent>>
          /\ \A p \in Reqs : user'[p] = user[p]
      BY <2>1, <2>2 DEF Resting
    <3> QED  BY <2>2, <3>1, ServedQuiet
  <2>3. CASE /\ Meet(account')
             /\ \/ account'[consent[q]] = "active" /\ pc' = [pc EXCEPT ![q] = "create"]
                \/ pc' = [pc EXCEPT ![q] = "reply"]
    <3>1. \A p \in Reqs : pc'[p] \notin Resting =>
              pc[p] \notin Resting /\ met'[p] = met[p] \cup Actives'
      BY <1>0, <2>1, <2>3 DEF Meet, Resting, Actives
    <3>2. \A p \in Reqs : met[p] \subseteq met'[p] /\ (pc'[p] = "idle" => pc[p] = "idle")
      BY <1>0, <2>1, <2>3 DEF Meet
    <3>3. pc'[q] = "create" => consent[q] \in Actives'
      BY <1>0, <2>1, <2>3 DEF Actives
    <3>4. \A p \in Reqs \ {q} : pc'[p] = "create" => pc[p] = "create"
      BY <1>0, <2>3
    <3>5. ASSUME NEW p \in Reqs PROVE Served(p)'
      BY <2>1, <3>1, <3>2, <3>3, <3>4, <3>5 DEF ServedInv, Served, Resting
    <3> QED  BY <3>5 DEF ServedInv
  <2> QED  BY <1>3, <2>2, <2>3 DEF UpsertByProvider, Reply, Goto
<1>4. CASE Create(q)
  <2>1. /\ pc[q] = "create" /\ UNCHANGED <<account, met, consent>>
        /\ pc' = [pc EXCEPT ![q] = "reply"]
        /\ user' = user \/ user' = [user EXCEPT ![q] = consent[q]]
    BY <1>4 DEF Create, Reply, Goto
  <2>2. consent[q] \in met[q]  BY <1>0, <2>1 DEF Served
  <2>3. /\ pc[q] # "idle" /\ "reply" \in Resting /\ "reply" \notin {"idle", "create"}
        /\ \A p \in Reqs \ {q} : user'[p] = user[p]
        /\ user'[q] = user[q] \/ user'[q] \in met[q]
    BY <1>0, <2>1, <2>2 DEF Resting
  <2> QED  BY <2>1, <2>3, ServedQuiet
<1>5. CASE Lookup(q) \/ Revoke(q) \/ Me(q) \/ Login(q) \/ CheckState(q) \/ FetchProfile(q)
           \/ FindSession(q) \/ Delete(q) \/ Receive(q)
  <2>1. /\ UNCHANGED <<account, met, consent, user>>
        /\ pc[q] # "idle" /\ (pc[q] \notin Resting \/ pc' = [pc EXCEPT ![q] = "done"])
        /\ \E l \in {"account", Handler(call[q].op), "reply", "exchange", "upsert",
                     "delete", "done"} : pc' = [pc EXCEPT ![q] = l]
    BY <1>5 DEF Lookup, Revoke, Me, Login, CheckState, FetchProfile, FindSession, Delete,
       Receive, Reply, Goto, Resting
  <2>2. CASE pc' = [pc EXCEPT ![q] = "done"]
    BY <1>0, <2>1, <2>2, ServedQuiet DEF Resting
  <2>3. CASE pc[q] \notin Resting  BY <1>0, <2>1, <2>3, ServedQuiet
  <2> QED  BY <2>1, <2>2, <2>3
<1> QED
  BY <1>1, <1>2, <1>3, <1>4, <1>5 DEF Step, LoadUser, SignIn, SignOut

LEMMA ServedNext == TypeInv /\ ServedInv /\ [Next]_vars => ServedInv'
<1> SUFFICES ASSUME TypeInv, ServedInv, [Next]_vars PROVE ServedInv'  OBVIOUS
<1> USE DEF cookies, input, server
<1>1. ASSUME UNCHANGED <<pc, user, met, consent, account>> PROVE ServedInv'
  BY <1>1 DEF ServedInv, Served, Actives
<1>2. ASSUME NEW u \in Users, NEW s \in {"active", "deleted"}, SetAccount(u, s)
      PROVE  ServedInv'
  <2>1. UNCHANGED <<pc, user, consent>> /\ Meet(account')  BY <1>2 DEF SetAccount
  <2>2. met' = [p \in Reqs |-> IF pc[p] \in Resting THEN met[p] ELSE met[p] \cup Actives']
    BY <2>1 DEF Meet, Resting, Actives
  <2>3. ASSUME NEW p \in Reqs PROVE Served(p)'
    <3>1. Served(p)  BY DEF ServedInv
    <3>2. met'[p] = IF pc[p] \in Resting THEN met[p] ELSE met[p] \cup Actives'  BY <2>2
    <3>3. CASE pc[p] \in Resting
      BY <2>1, <3>1, <3>2, <3>3 DEF Served, Resting
    <3>4. CASE pc[p] \notin Resting
      <4>1. met'[p] = met[p] \cup Actives'  BY <3>2, <3>4
      <4>2. Actives' \subseteq met'[p]  BY <4>1
      <4>3. \A x : x \in met[p] => x \in met'[p]  BY <4>1
      <4> QED  BY <2>1, <3>1, <4>2, <4>3 DEF Served
    <3> QED  BY <3>3, <3>4
  <2> QED  BY <2>3 DEF ServedInv
<1>3. CASE External
  BY <1>1, <1>2, <1>3 DEF External, Tick, Outage, DropCookies
<1>4. CASE UNCHANGED vars  BY <1>1, <1>4 DEF vars
<1> QED  BY <1>3, <1>4, ServedStep DEF Next

\* Nobody is served as a user whose account was inactive throughout the request.
THEOREM ServedWhileActiveAlways == Spec => []ServedWhileActive
<1>1. ServedInv => ServedWhileActive  BY DEF ServedInv, Served, ServedWhileActive
<1> QED  BY <1>1, ServedInit, ServedNext, TypeAlways, PTL DEF Spec
----------------------------------------------------------------------------
(* Who is signed out *)

\* A request that was answered stays answered.
RevokedInv ==
    /\ \A q \in Reqs : resp[q] = "204" => pc[q] \in Answering
    /\ SignedOutIsRevoked

LEMMA RevokedInit == Init => RevokedInv
BY DEF Init, RevokedInv, SignedOutIsRevoked

\* What a step may do to the sessions: only Create opens one, its own.
LEMMA StoreStep ==
    ASSUME [Next]_vars
    PROVE  \/ UNCHANGED session
           \/ \E q \in Reqs : pc[q] = "create" /\ SetSession(q, consent[q])
           \/ \E q \in Reqs : pc[q] \in {"revoke", "delete"} /\ DropSession(token[q], found[q])
           \/ Tick
<1> USE DEF redis
<1>1. ASSUME NEW q \in Reqs, Step(q)
      PROVE  \/ UNCHANGED session
             \/ pc[q] = "create" /\ SetSession(q, consent[q])
             \/ pc[q] \in {"revoke", "delete"} /\ DropSession(token[q], found[q])
  <2>1. CASE Create(q)  BY <2>1 DEF Create
  <2>2. CASE Revoke(q) \/ Delete(q)  BY <2>2 DEF Revoke, Delete
  <2>3. CASE Send(q) \/ Receive(q) \/ Lookup(q) \/ GetByID(q) \/ Me(q)
    BY <2>3 DEF Send, Receive, Lookup, GetByID, Attach, Me
  <2>4. CASE \/ Login(q) \/ CheckState(q) \/ FetchProfile(q) \/ UpsertByProvider(q)
             \/ FindSession(q)
    BY <2>4 DEF Login, CheckState, FetchProfile, UpsertByProvider, FindSession
  <2> QED
    BY <1>1, <2>1, <2>2, <2>3, <2>4 DEF Step, LoadUser, SignIn, SignOut
<1>2. CASE External
  BY <1>2 DEF External, Outage, SetAccount, DropCookies
<1>3. CASE UNCHANGED vars  BY <1>3 DEF vars
<1> QED  BY <1>1, <1>2, <1>3 DEF Next

\* A session whose token somebody carries never opens again: not by Create,
\* whose token nobody has yet, and not by time.
LEMMA StaysClosed ==
    ASSUME TypeInv, IndexInv, [Next]_vars, NEW p \in Reqs, NEW t \in Ids, token[p] = t,
           ~Open(t)
    PROVE  ~Open(t)'
<1>0. session \in [Ids -> [user: Users \cup {NoUser}, left: 0..Ttl]]
  BY DEF TypeInv, TypeOK
<1>1. CASE UNCHANGED session  BY <1>1 DEF Open
<1>2. ASSUME NEW q \in Reqs, pc[q] = "create", SetSession(q, consent[q]) PROVE ~Open(t)'
  <2>1. q # t  BY <1>2 DEF IndexInv, Fresh, Answering
  <2> QED  BY <1>0, <1>2, <2>1 DEF SetSession, Open
<1>3. ASSUME NEW q \in Reqs, DropSession(token[q], found[q]) PROVE ~Open(t)'
  BY <1>0, <1>3 DEF DropSession, Open
<1>4. CASE Tick
  <2>1. /\ session'[t].user = session[t].user
        /\ session[t].left = 0 => session'[t].left = 0
    BY <1>4 DEF Tick
  <2>2. session[t].left \in Nat  BY <1>0, TtlAssumption
  <2> QED  BY <2>1, <2>2 DEF Open
<1> QED  BY <1>1, <1>2, <1>3, <1>4, StoreStep

\* What a step may do to a sign-out: leave it alone, or answer it.  With ret
\* "nil" the answer says that the session was not there, or was deleted.
LEMMA AnswerStep ==
    ASSUME TypeInv, RevokedInv, [Next]_vars, NEW p \in Reqs,
           resp'[p] = "204"
    PROVE  /\ pc'[p] \in Answering
           /\ token'[p] = token[p]
           /\ \/ resp[p] = "204" /\ ret'[p] = ret[p]
              \/ ret'[p] # "nil"
              \/ UNCHANGED session /\ ~Knows(p)
              \/ token[p] \in Ids /\ DropSession(token[p], found[p])
<1> USE DEF redis, input, Answering
<1>0. /\ pc \in [Reqs -> Locations] /\ resp \in [Reqs -> Codes]
      /\ ret \in [Reqs -> {"none", "nil", "err"}] /\ token \in [Reqs -> Ids \cup {NoId}]
      /\ resp[p] = "204" => pc[p] \in Answering
      /\ InFlight(p)
      /\ Handler(call[p].op) \in {"login", "callback", "logout", "me"}
  BY CallsAreTyped DEF TypeInv, TypeOK, RevokedInv
<1>1. ASSUME NEW q \in Reqs, Step(q) PROVE
           /\ pc'[p] \in Answering
           /\ token'[p] = token[p]
           /\ \/ resp[p] = "204" /\ ret'[p] = ret[p]
              \/ ret'[p] # "nil"
              \/ UNCHANGED session /\ ~Knows(p)
              \/ token[p] \in Ids /\ DropSession(token[p], found[p])
  <2>1. CASE Send(q)
    BY <1>0, <2>1 DEF Send, Goto
  <2>2. CASE Receive(q)
    BY <1>0, <2>2 DEF Receive, Goto
  <2>3. CASE Lookup(q) \/ GetByID(q) \/ Me(q)
    BY <1>0, <2>3 DEF Lookup, GetByID, Attach, Me, Reply, Goto
  <2>4. CASE Revoke(q)
    BY <1>0, <2>4 DEF Revoke, Answered, Unanswered, Goto
  <2>5. CASE Login(q) \/ CheckState(q) \/ FetchProfile(q) \/ UpsertByProvider(q)
    BY <1>0, <2>5 DEF Login, CheckState, FetchProfile, UpsertByProvider, Reply, Goto
  <2>6. CASE Create(q)
    BY <1>0, <2>6 DEF Create, Answered, Unanswered, Reply, Goto
  <2>7. CASE FindSession(q)
    BY <1>0, <2>7 DEF FindSession, Unanswered, Reply, Goto
  <2>8. CASE Delete(q)
    BY <1>0, <2>8 DEF Delete, Answered, Unanswered, Reply, Goto, InFlight
  <2> QED
    BY <1>1, <2>1, <2>2, <2>3, <2>4, <2>5, <2>6, <2>7, <2>8
    DEF Step, LoadUser, SignIn, SignOut
<1>2. CASE External
  BY <1>0, <1>2 DEF External, Tick, Outage, SetAccount, DropCookies, server
<1>3. CASE UNCHANGED vars  BY <1>0, <1>3 DEF vars
<1> QED  BY <1>1, <1>2, <1>3 DEF Next

LEMMA RevokedNext == TypeInv /\ IndexInv /\ RevokedInv /\ [Next]_vars => RevokedInv'
<1> SUFFICES ASSUME TypeInv, IndexInv, RevokedInv, [Next]_vars PROVE RevokedInv'  OBVIOUS
<1>1. ASSUME NEW p \in Reqs, resp'[p] = "204" PROVE pc'[p] \in Answering
  BY <1>1, AnswerStep
<1>2. ASSUME NEW p \in Reqs, call'[p].op = "logout", resp'[p] = "204", ret'[p] = "nil",
             token'[p] # NoId
      PROVE  ~Open(token[p])'
  <2>1. token'[p] = token[p] /\ token[p] \in Ids
    BY <1>2, AnswerStep DEF TypeInv, TypeOK
  <2>2. call' = call
    BY DEF Next, Step, LoadUser, SignIn, SignOut, External, vars, input, server, Send, Receive,
       Lookup, GetByID, Revoke, Me, Login, CheckState, FetchProfile, UpsertByProvider, Create,
       FindSession, Delete, Tick, Outage, SetAccount, DropCookies
  <2>3. CASE ~Open(token[p])
    BY <2>1, <2>3, StaysClosed DEF Open
  <2>4. CASE Open(token[p])
    <3>1. resp[p] # "204" \/ ret[p] # "nil"
      BY <1>2, <2>1, <2>2, <2>4 DEF RevokedInv, SignedOutIsRevoked
    <3>2. Knows(p)  BY <1>2, <2>1, <2>4 DEF Knows
    <3>3. DropSession(token[p], found[p])  BY <1>2, <3>1, <3>2, AnswerStep
    <3>4. session'[token[p]].user = NoUser
      BY <2>1, <3>3 DEF DropSession, TypeInv, TypeOK
    <3> QED  BY <2>1, <3>4 DEF Open
  <2> QED  BY <2>3, <2>4
<1> QED  BY <1>1, <1>2 DEF RevokedInv, SignedOutIsRevoked

\* A sign-out that the session store answered ends the session for good.
THEOREM SignedOutIsRevokedAlways == Spec => []SignedOutIsRevoked
<1>1. RevokedInv => SignedOutIsRevoked  BY DEF RevokedInv
<1> QED  BY <1>1, RevokedInit, RevokedNext, TypeAlways, IndexAlways, PTL DEF Spec
=============================================================================
