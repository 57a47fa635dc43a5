------------------------------ MODULE Sessions -------------------------------
(***************************************************************************)
(* Google sign-in and sessions: the requests of several browser tabs that  *)
(* run middleware.LoadUser and the handlers of handler/auth.go, one action *)
(* per Redis transaction, database statement or call to Google.            *)
(*                                                                         *)
(* Redis holds session:<hash>, with the user and a time to live, and       *)
(* user_sessions:<id>, the hashes of the user's sessions with a time to    *)
(* live of their own.  A random token is abstracted to the callback that   *)
(* made it, a random OAuth state to the login that made it.  Time is       *)
(* counted in the periods that Tick lets pass, Ttl of them make the 30     *)
(* days of a session.                                                      *)
(***************************************************************************)
EXTENDS Naturals

CONSTANTS
    Reqs,       \* the HTTP requests, each is handled once
    Earlier,    \* the sign-ins that were completed before the start
    Users,      \* the accounts at Google
    Browsers,   \* the cookie jars
    Calls,      \* what the requests ask for, a subset of CallType
    StartUser,  \* whose session each of the earlier sign-ins opened
    StartJar,   \* the cookie each browser starts with
    Ttl,        \* SessionTTL
    NoId,       \* no token, no OAuth state
    NoUser,     \* nobody
    Outside     \* which things happen besides the requests' own steps

Ids == Reqs \cup Earlier

\* "me" stands for every request that only uses the session.
CallType == [op: {"login", "callback", "logout", "me"}, browser: Browsers]

ASSUME CallsAssumption == Calls \subseteq CallType
ASSUME TtlAssumption == Ttl \in Nat \ {0}
ASSUME StartAssumption == /\ StartUser \in [Earlier -> Users]
                          /\ StartJar \in [Browsers -> Earlier \cup {NoId}]
ASSUME DistinctAssumption == /\ Reqs \cap Earlier = {}
                             /\ NoId \notin Ids
                             /\ NoUser \notin Users
ASSUME OutsideAssumption ==
    Outside \subseteq {"time", "accounts", "faults", "cookies"}

VARIABLES
    account,  \* users.status of every account, "none" before the first sign-in
    up,       \* Redis can be reached
    session,  \* session:<hash>: the user, and what is left of its time to live
    index,    \* user_sessions:<id>: the tokens
    life,     \* what is left of the time to live of that key
    used,     \* the logins whose code Google has exchanged
    jar,      \* each browser's bdg_session cookie
    oauth,    \* each browser's bdg_oauth cookie
    pc,       \* what each request does next
    call,     \* what each request asks for
    token,    \* the bdg_session cookie it carries
    sent,     \* the bdg_oauth cookie it carries
    query,    \* the state in the callback's URL
    consent,  \* who agreed at Google, NoUser when the user cancelled
    found,    \* the user its token led to
    user,     \* the user in its context, or signed in by it
    ret,      \* what the session store's last Create or Delete returned
    resp,     \* the HTTP response
    met       \* history: the users who were active at some time since it was sent

redis == <<session, index, life>>
cookies == <<jar, oauth>>
input == <<call, token, sent, query, consent>>
vars == <<account, up, redis, used, cookies, pc, input, found, user, ret, resp, met>>

----------------------------------------------------------------------------
(* The shape of the state *)

Locations == {"idle", "lookup", "account", "revoke", "login", "callback", "exchange",
              "upsert", "create", "logout", "delete", "me", "reply", "done"}
Codes == {"none", "200", "204", "302", "401", "503", "failed", "deactivated", "signedin"}
Actives == {u \in Users : account[u] = "active"}

\* The session key exists in Redis.
Open(t) == session[t].user # NoUser /\ session[t].left > 0

Goto(q, l) == pc' = [pc EXCEPT ![q] = l]
Reply(q, code) == Goto(q, "reply") /\ resp' = [resp EXCEPT ![q] = code]

\* The handler of each route, after LoadUser
Handler(op) == CASE op = "login" -> "login"
                 [] op = "callback" -> "callback"
                 [] op = "logout" -> "logout"
                 [] op = "me" -> "me"

Init ==
    /\ account = [u \in Users |-> IF \E e \in Earlier : StartUser[e] = u
                                  THEN "active" ELSE "none"]
    /\ up = TRUE
    /\ session = [t \in Ids |-> IF t \in Earlier THEN [user |-> StartUser[t], left |-> Ttl]
                                ELSE [user |-> NoUser, left |-> 0]]
    /\ index = [u \in Users |-> {e \in Earlier : StartUser[e] = u}]
    /\ life = [u \in Users |-> Ttl]
    /\ used = Earlier
    /\ jar = StartJar
    /\ oauth = [b \in Browsers |-> NoId]
    /\ pc = [q \in Reqs |-> "idle"]
    /\ call \in [Reqs -> Calls]
    /\ token = [q \in Reqs |-> NoId]
    /\ sent = [q \in Reqs |-> NoId]
    /\ query = [q \in Reqs |-> NoId]
    /\ consent = [q \in Reqs |-> NoUser]
    /\ found = [q \in Reqs |-> NoUser]
    /\ user = [q \in Reqs |-> NoUser]
    /\ ret = [q \in Reqs |-> "none"]
    /\ resp = [q \in Reqs |-> "none"]
    /\ met = [q \in Reqs |-> {}]

----------------------------------------------------------------------------
(* The browser *)

\* A login whose redirect sent the browser to Google
Started(b, f) == call[f].op = "login" /\ call[f].browser = b /\ resp[f] = "302"

\* The request leaves the browser with the cookies of the moment.  A callback
\* comes back from Google for a login of this browser, of whichever tab.
Send(q) ==
    LET b == call[q].browser IN
    /\ pc[q] = "idle"
    /\ \/ /\ call[q].op = "callback"
          /\ \E f \in Reqs : /\ Started(b, f)
                             /\ pc[f] = "done"
                             /\ query' = [query EXCEPT ![q] = f]
          /\ \E u \in Users \cup {NoUser} : consent' = [consent EXCEPT ![q] = u]
       \/ /\ call[q].op # "callback"
          /\ UNCHANGED <<query, consent>>
    /\ token' = [token EXCEPT ![q] = jar[b]]
    /\ sent' = [sent EXCEPT ![q] = oauth[b]]
    /\ met' = [met EXCEPT ![q] = Actives]
    /\ Goto(q, IF jar[b] = NoId THEN Handler(call[q].op) ELSE "lookup")
    /\ UNCHANGED <<account, up, redis, used, cookies, call, found, user, ret, resp>>

\* The response arrives, or is lost on its way, and the browser stores and
\* drops the cookies it names; responses may overtake each other.
Receive(q) ==
    LET b == call[q].browser IN
    /\ pc[q] = "reply"
    /\ \/ /\ jar' = [jar EXCEPT ![b] = CASE resp[q] = "signedin" -> q
                                         [] call[q].op = "logout" -> NoId
                                         [] OTHER -> @]
          /\ oauth' = [oauth EXCEPT ![b] = CASE resp[q] = "302" -> q
                                             [] call[q].op = "callback" -> NoId
                                             [] OTHER -> @]
       \/ "faults" \in Outside /\ UNCHANGED cookies
    /\ Goto(q, "done")
    /\ UNCHANGED <<account, up, redis, used, input, found, user, ret, resp, met>>

----------------------------------------------------------------------------
(* The session store *)

\* What SET, SADD and EXPIRE do, in one transaction.  Mutant: the index key
\* keeps the time to live it has.
SetKeepingLife(q, u) ==
    /\ session' = [session EXCEPT ![q] = [user |-> u, left |-> Ttl]]
    /\ index' = [index EXCEPT ![u] = @ \cup {q}]
    /\ life' = [life EXCEPT ![u] = IF index[u] = {} THEN Ttl ELSE @]

\* Mutant: a session that outlives SessionTTL
SetTooLong(q, u) ==
    /\ session' = [session EXCEPT ![q] = [user |-> u, left |-> Ttl + 1]]
    /\ index' = [index EXCEPT ![u] = @ \cup {q}]
    /\ life' = [life EXCEPT ![u] = Ttl]

SetSession(q, u) ==
    /\ session' = [session EXCEPT ![q] = [user |-> u, left |-> Ttl]]
    /\ index' = [index EXCEPT ![u] = @ \cup {q}]
    /\ life' = [life EXCEPT ![u] = Ttl]

\* Mutant: DEL is missing
DropFromIndex(t, u) ==
    /\ index' = [index EXCEPT ![u] = @ \ {t}]
    /\ UNCHANGED <<session, life>>

\* What DEL and SREM do, in one transaction
DropSession(t, u) ==
    /\ session' = [session EXCEPT ![t] = [user |-> NoUser, left |-> @.left]]
    /\ index' = [index EXCEPT ![u] = @ \ {t}]
    /\ UNCHANGED life

\* A transaction that Redis runs, and whose answer comes within opTimeout
Answered(q) == up /\ ret' = [ret EXCEPT ![q] = "nil"]

\* One whose answer does not come: Redis may have run it all the same.
Unanswered(q) == /\ ~up \/ "faults" \in Outside
                 /\ ret' = [ret EXCEPT ![q] = "err"]

----------------------------------------------------------------------------
(* middleware.LoadUser *)

\* Lookup: every error makes the request anonymous.
Lookup(q) ==
    /\ pc[q] = "lookup"
    /\ \/ /\ up
          /\ Open(token[q])
          /\ found' = [found EXCEPT ![q] = session[token[q]].user]
          /\ Goto(q, "account")
       \/ /\ (up /\ ~Open(token[q])) \/ ~up \/ "faults" \in Outside
          /\ Goto(q, Handler(call[q].op))
          /\ UNCHANGED found
    /\ UNCHANGED <<account, up, redis, used, cookies, input, user, ret, resp, met>>

\* Mutant: the status of the account is not looked at
AnyAccount(u) == account[u] # "none"

IsActive(u) == account[u] = "active"

\* The request has a user; the session is left as it is.
Attach(q) == user' = [user EXCEPT ![q] = found[q]] /\ UNCHANGED redis

\* GetByID, and what UserFromSession makes of it
GetByID(q) ==
    /\ pc[q] = "account"
    /\ \/ /\ IsActive(found[q])
          /\ Attach(q)
          /\ Goto(q, Handler(call[q].op))
       \/ /\ ~IsActive(found[q])
          /\ Goto(q, "revoke")
          /\ UNCHANGED <<user, redis>>
       \/ /\ "faults" \in Outside
          /\ Goto(q, Handler(call[q].op))
          /\ UNCHANGED <<user, redis>>
    /\ UNCHANGED <<account, up, used, cookies, input, found, ret, resp, met>>

\* DeleteHash of the session of an account that is not active; its error is
\* ignored.
Revoke(q) ==
    /\ pc[q] = "revoke"
    /\ \/ Answered(q) /\ DropSession(token[q], found[q])
       \/ Unanswered(q) /\ up /\ DropSession(token[q], found[q])
       \/ Unanswered(q) /\ UNCHANGED redis
    /\ Goto(q, Handler(call[q].op))
    /\ UNCHANGED <<account, up, used, cookies, input, found, user, resp, met>>

Me(q) ==
    /\ pc[q] = "me"
    /\ Reply(q, IF user[q] = NoUser THEN "401" ELSE "200")
    /\ UNCHANGED <<account, up, redis, used, cookies, input, found, user, ret, met>>

----------------------------------------------------------------------------
(* Signing in *)

\* BeginLogin: Available pings Redis.
Login(q) ==
    /\ pc[q] = "login"
    /\ \/ up /\ Reply(q, "302")
       \/ (~up \/ "faults" \in Outside) /\ Reply(q, "503")
    /\ UNCHANGED <<account, up, redis, used, cookies, input, found, user, ret, met>>

\* Callback, up to the call to Google
CheckState(q) ==
    /\ pc[q] = "callback"
    /\ \/ /\ consent[q] # NoUser
          /\ sent[q] = query[q]
          /\ Goto(q, "exchange")
          /\ UNCHANGED resp
       \/ /\ consent[q] = NoUser \/ sent[q] # query[q]
          /\ Reply(q, "failed")
    /\ UNCHANGED <<account, up, redis, used, cookies, input, found, user, ret, met>>

\* FetchProfile: Google takes a code once, with the verifier of its login.
FetchProfile(q) ==
    /\ pc[q] = "exchange"
    /\ \/ /\ query[q] \notin used
          /\ used' = used \cup {query[q]}
          /\ Goto(q, "upsert")
          /\ UNCHANGED resp
       \/ /\ query[q] \in used
          /\ Reply(q, "failed")
          /\ UNCHANGED used
       \/ /\ "faults" \in Outside
          /\ used' \in {used, used \cup {query[q]}}
          /\ Reply(q, "failed")
    /\ UNCHANGED <<account, up, redis, cookies, input, found, user, ret, met>>

\* INSERT ... ON CONFLICT DO UPDATE, which leaves the status alone
Upserted(u) == [account EXCEPT ![u] = IF @ = "none" THEN "active" ELSE @]

\* What the requests in flight have met when the accounts change to a
Meet(a) == met' = [q \in Reqs |-> IF pc[q] \in {"idle", "reply", "done"} THEN met[q]
                                  ELSE met[q] \cup {u \in Users : a[u] = "active"}]

UpsertByProvider(q) ==
    /\ pc[q] = "upsert"
    /\ \/ /\ account' = Upserted(consent[q])
          /\ Meet(account')
          /\ IF account'[consent[q]] = "active"
             THEN Goto(q, "create") /\ UNCHANGED resp
             ELSE Reply(q, "deactivated")
       \/ /\ "faults" \in Outside
          /\ Reply(q, "failed")
          /\ UNCHANGED <<account, met>>
    /\ UNCHANGED <<up, redis, used, cookies, input, found, user, ret>>

\* SessionRepository.Create, and the response with the new cookie
Create(q) ==
    /\ pc[q] = "create"
    /\ \/ /\ Answered(q)
          /\ SetSession(q, consent[q])
          /\ user' = [user EXCEPT ![q] = consent[q]]
          /\ Reply(q, "signedin")
       \/ /\ Unanswered(q)
          /\ (up /\ SetSession(q, consent[q])) \/ UNCHANGED redis
          /\ Reply(q, "failed")
          /\ UNCHANGED user
    /\ UNCHANGED <<account, up, used, cookies, input, found, met>>

----------------------------------------------------------------------------
(* Signing out *)

Knows(q) == token[q] # NoId /\ Open(token[q])

\* Logout and the Lookup in Delete
FindSession(q) ==
    /\ pc[q] = "logout"
    /\ \/ /\ up
          /\ Knows(q)
          /\ found' = [found EXCEPT ![q] = session[token[q]].user]
          /\ Goto(q, "delete")
          /\ UNCHANGED <<ret, resp>>
       \/ /\ ~Knows(q)
          /\ up \/ token[q] = NoId
          /\ ret' = [ret EXCEPT ![q] = "nil"]
          /\ Reply(q, "204")
          /\ UNCHANGED found
       \/ /\ token[q] # NoId
          /\ Unanswered(q)
          /\ Reply(q, "204")
          /\ UNCHANGED found
    /\ UNCHANGED <<account, up, redis, used, cookies, input, user, met>>

\* DeleteHash: its error is logged, the answer is the same.
Delete(q) ==
    /\ pc[q] = "delete"
    /\ \/ Answered(q) /\ DropSession(token[q], found[q])
       \/ Unanswered(q) /\ up /\ DropSession(token[q], found[q])
       \/ Unanswered(q) /\ UNCHANGED redis
    /\ Reply(q, "204")
    /\ UNCHANGED <<account, up, used, cookies, input, found, user, met>>

----------------------------------------------------------------------------
(* What happens besides the requests *)

server == <<pc, input, found, user, ret, resp>>

\* A period goes by: every key has less time left, and keys without are gone.
Tick ==
    LET Less(n) == IF n = 0 THEN 0 ELSE n - 1 IN
    /\ "time" \in Outside
    /\ session' = [t \in Ids |-> [user |-> session[t].user, left |-> Less(session[t].left)]]
    /\ life' = [u \in Users |-> Less(life[u])]
    /\ index' = [u \in Users |-> IF life[u] <= 1 THEN {} ELSE index[u]]
    /\ UNCHANGED <<account, up, used, cookies, server, met>>

\* Redis is lost, or found again, with its data.
Outage ==
    /\ "faults" \in Outside
    /\ up' = ~up
    /\ UNCHANGED <<account, redis, used, cookies, server, met>>

\* Mission control deactivates an account, or takes it back.
SetAccount(u, s) ==
    /\ "accounts" \in Outside
    /\ account[u] # "none"
    /\ account' = [account EXCEPT ![u] = s]
    /\ Meet(account')
    /\ UNCHANGED <<up, redis, used, cookies, server>>

\* A cookie reaches its Max-Age, or the user clears it.
DropCookies(b) ==
    /\ "cookies" \in Outside
    /\ \/ jar' = [jar EXCEPT ![b] = NoId] /\ UNCHANGED oauth
       \/ oauth' = [oauth EXCEPT ![b] = NoId] /\ UNCHANGED jar
    /\ UNCHANGED <<account, up, redis, used, server, met>>

----------------------------------------------------------------------------
LoadUser(q) == Lookup(q) \/ GetByID(q) \/ Revoke(q)

SignIn(q) == \/ Login(q) \/ CheckState(q) \/ FetchProfile(q)
             \/ UpsertByProvider(q) \/ Create(q)

SignOut(q) == FindSession(q) \/ Delete(q)

Step(q) == \/ Send(q) \/ Receive(q) \/ LoadUser(q) \/ Me(q)
           \/ SignIn(q) \/ SignOut(q)

External == \/ Tick \/ Outage
            \/ \E u \in Users, s \in {"active", "deleted"} : SetAccount(u, s)
            \/ \E b \in Browsers : DropCookies(b)

Next == (\E q \in Reqs : Step(q)) \/ External

Spec == Init /\ [][Next]_vars

----------------------------------------------------------------------------
(* Properties *)

\* Every variable has its type.
TypeOK ==
    /\ account \in [Users -> {"none", "active", "deleted"}]
    /\ up \in BOOLEAN
    /\ session \in [Ids -> [user: Users \cup {NoUser}, left: 0..Ttl]]
    /\ index \in [Users -> SUBSET Ids]
    /\ life \in [Users -> 0..Ttl]
    /\ used \subseteq Ids
    /\ jar \in [Browsers -> Ids \cup {NoId}]
    /\ oauth \in [Browsers -> Ids \cup {NoId}]
    /\ pc \in [Reqs -> Locations]
    /\ call \in [Reqs -> Calls]
    /\ token \in [Reqs -> Ids \cup {NoId}]
    /\ sent \in [Reqs -> Ids \cup {NoId}]
    /\ query \in [Reqs -> Reqs \cup {NoId}]
    /\ consent \in [Reqs -> Users \cup {NoUser}]
    /\ found \in [Reqs -> Users \cup {NoUser}]
    /\ user \in [Reqs -> Users \cup {NoUser}]
    /\ ret \in [Reqs -> {"none", "nil", "err"}]
    /\ resp \in [Reqs -> Codes]
    /\ met \in [Reqs -> SUBSET Users]

\* user_sessions:<id> lists every session of the user for as long as the
\* session lives, and none that was revoked: whatever expires, times out or is
\* revoked in between, all sessions of a user can be found from it.
IndexCoversSessions ==
    /\ \A t \in Ids : Open(t) => /\ t \in index[session[t].user]
                                 /\ life[session[t].user] >= session[t].left
    /\ \A u \in Users : \A t \in index[u] : session[t].user = u

\* A request is served, or signed in, as a user only if the account was active
\* at some time between its sending and its answer.
ServedWhileActive == \A q \in Reqs : user[q] # NoUser => user[q] \in met[q]

\* A sign-out that the session store answered ends the session for good, whatever
\* the requests that had already read it do.
SignedOutIsRevoked ==
    \A q \in Reqs : /\ call[q].op = "logout"
                    /\ resp[q] = "204"
                    /\ ret[q] = "nil"
                    /\ token[q] # NoId
                    => ~Open(token[q])
=============================================================================
