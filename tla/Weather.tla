------------------------------- MODULE Weather -------------------------------
(***************************************************************************)
(* service/weather.go: Bandung's current weather, asked for by concurrent  *)
(* searches on several instances of the server that share one Redis.       *)
(*                                                                         *)
(* A reading is abstracted to the time at which the provider took it.      *)
(* Time is counted in periods; Fresh and Last are the two time-to-live     *)
(* constants and Slow bounds how long a fetch takes (the client's timeout  *)
(* of 3 s and two Redis operations).  MaxNow bounds the clock.             *)
(***************************************************************************)
EXTENDS Naturals

CONSTANTS
    Callers,    \* the calls of Current
    Instances,  \* the server processes
    On,         \* the process each call runs in
    Fresh,      \* weatherFreshTTL
    Last,       \* weatherLastTTL
    Slow,       \* how long a fetch may take
    MaxNow,     \* bound of the clock
    None,       \* no caller
    Providers,  \* what WeatherAPI.com may be
    Outside     \* what else happens

ASSUME OnAssumption == On \in [Callers -> Instances]
ASSUME TimesAssumption == {Fresh, Last, Slow, MaxNow} \subseteq Nat /\ Fresh <= Last
ASSUME NoneAssumption == None \notin Callers
ASSUME ProvidersAssumption == Providers \subseteq {"off", "sound", "flaky"}
ASSUME OutsideAssumption == Outside \subseteq {"redis", "restarts", "cancels"}

VARIABLES
    now,        \* the clock
    provider,   \* off when WEATHERAPI_KEY is not set, or always or sometimes there
    up,         \* Redis can be reached
    fresh,      \* bdgcafe:weather:bandung, and what is left of its time to live
    last,       \* bdgcafe:weather:bandung:last
    memo,       \* each process's last reading and when it got it
    flight,     \* the caller that runs each process's shared fetch
    pc,         \* what each caller does next
    leader,     \* whose fetch it waits for
    began,      \* when it called the provider
    reading,    \* what the provider answered it
    cancelled,  \* its request was cancelled
    result      \* what Current returned: how old, and from where

cached == <<fresh, last>>
caller == <<leader, began, reading>>
vars == <<now, provider, up, cached, memo, flight, pc, caller, cancelled, result>>

Times == 0..MaxNow
Via == {"none", "fresh", "last", "nothing", "gone"}
Locations == {"start", "memo", "do", "call", "setfresh", "setlast", "wait",
              "last", "lastmemo", "done"}
Fetching == {"call", "setfresh", "setlast"}

Empty == [at |-> 0, left |-> 0]
NoMemo == [has |-> FALSE, at |-> 0, seen |-> 0]
NoResult == [via |-> "none", age |-> 0]

Init ==
    /\ now = 0
    /\ provider \in Providers
    /\ up \in BOOLEAN
    /\ fresh = Empty
    /\ last = Empty
    /\ memo = [i \in Instances |-> NoMemo]
    /\ flight = [i \in Instances |-> None]
    /\ pc = [c \in Callers |-> "start"]
    /\ leader = [c \in Callers |-> None]
    /\ began = [c \in Callers |-> 0]
    /\ reading = [c \in Callers |-> 0]
    /\ cancelled = [c \in Callers |-> FALSE]
    /\ result = [c \in Callers |-> NoResult]

Goto(c, l) == pc' = [pc EXCEPT ![c] = l]

Return(c, via, at) ==
    /\ Goto(c, "done")
    /\ result' = [result EXCEPT ![c] = [via |-> via, age |-> now - at]]

\* A Redis operation may get no answer, with or without an effect.
RedisErr == ~up \/ "redis" \in Outside

\* So may a read when the request is cancelled; fetch is detached from that.
ReadErr(c) == RedisErr \/ cancelled[c]

\* The reading a process has kept, if it got it at most maxAge ago
Keeps(i, maxAge) == memo[i].has /\ now - memo[i].seen <= maxAge

----------------------------------------------------------------------------
\* fromCache(weatherFreshKey)
FromFresh(c) ==
    /\ pc[c] = "start"
    /\ \/ up /\ fresh.left > 0 /\ Return(c, "fresh", fresh.at)
       \/ /\ fresh.left = 0 \/ ReadErr(c)
          /\ Goto(c, "memo")
          /\ UNCHANGED result
    /\ UNCHANGED <<now, provider, up, cached, memo, flight, caller, cancelled>>

\* memo(weatherFreshTTL)
FromMemo(c) ==
    /\ pc[c] = "memo"
    /\ \/ Keeps(On[c], Fresh) /\ Return(c, "fresh", memo[On[c]].at)
       \/ ~Keeps(On[c], Fresh) /\ Goto(c, "do") /\ UNCHANGED result
    /\ UNCHANGED <<now, provider, up, cached, memo, flight, caller, cancelled>>

\* Mutant: no singleflight.Group
AlwaysLead(c) == TRUE

\* Nobody runs the process's fetch.
Leads(c) == flight[On[c]] = None

\* group.Do: run the fetch, or wait for the one that runs
Do(c) ==
    /\ pc[c] = "do"
    /\ \/ /\ Leads(c)
          /\ flight' = [flight EXCEPT ![On[c]] = c]
          /\ began' = [began EXCEPT ![c] = now]
          /\ Goto(c, "call")
          /\ UNCHANGED leader
       \/ /\ ~Leads(c)
          /\ leader' = [leader EXCEPT ![c] = flight[On[c]]]
          /\ Goto(c, "wait")
          /\ UNCHANGED <<flight, began>>
    /\ UNCHANGED <<now, provider, up, cached, memo, reading, cancelled, result>>

\* Mutant: a fetch that fails leaves its waiters waiting
LeaderOnly(c) == {c}

\* Who gets the outcome of c's fetch
Sharers(c) == {c} \cup {d \in Callers : pc[d] = "wait" /\ leader[d] = c}

\* What the callers in ds knew of a fetch is gone.
Forget(ds) ==
    /\ leader' = [d \in Callers |-> IF d \in ds THEN None ELSE leader[d]]
    /\ began' = [d \in Callers |-> IF d \in ds THEN 0 ELSE began[d]]
    /\ reading' = [d \in Callers |-> IF d \in ds THEN 0 ELSE reading[d]]

\* The fetch of c ends and every caller that shares it goes on.
EndFetch(c, l) ==
    /\ flight' = [flight EXCEPT ![On[c]] = None]
    /\ pc' = [d \in Callers |-> IF d \in Sharers(c) THEN l ELSE pc[d]]
    /\ Forget(Sharers(c))

\* repo.Current answers, and fetch keeps the reading.
Fetched(c) ==
    /\ pc[c] = "call"
    /\ provider # "off"
    /\ \E t \in began[c]..now :
          /\ reading' = [reading EXCEPT ![c] = t]
          /\ memo' = [memo EXCEPT ![On[c]] = [has |-> TRUE, at |-> t, seen |-> now]]
    /\ Goto(c, "setfresh")
    /\ UNCHANGED <<now, provider, up, cached, flight, leader, began, cancelled, result>>

\* Mutant: the fetch runs in the context of the request that leads it
Attached(c) == provider = "flaky" \/ cancelled[c]

\* When a fetch may fail: context.WithoutCancel leaves the provider as a cause
MayFail(c) == provider = "flaky"

\* The provider fails: all who share the fetch fall back.
FetchFails(c) ==
    /\ pc[c] = "call"
    /\ provider # "off"
    /\ MayFail(c)
    /\ EndFetch(c, "last")
    /\ UNCHANGED <<now, provider, up, cached, memo, cancelled, result>>

\* ErrWeatherDisabled: there is no fallback.
Disabled(c) ==
    /\ pc[c] = "call"
    /\ provider = "off"
    /\ EndFetch(c, "done")
    /\ result' = [d \in Callers |-> IF d \in Sharers(c)
                                    THEN [via |-> "nothing", age |-> 0] ELSE result[d]]
    /\ UNCHANGED <<now, provider, up, cached, memo, cancelled>>

\* Mutant: a time to live one period too long
StoredTooLong(c, ttl) == [at |-> reading[c], left |-> ttl + 1]

\* What a SET of c's reading leaves under its key
Stored(c, ttl) == [at |-> reading[c], left |-> ttl]

\* The two SETs of fetch, and the values of all who share it
SetFresh(c) ==
    /\ pc[c] = "setfresh"
    /\ \/ up /\ fresh' = Stored(c, Fresh)
       \/ RedisErr /\ UNCHANGED fresh
    /\ Goto(c, "setlast")
    /\ UNCHANGED <<now, provider, up, last, memo, flight, caller, cancelled, result>>

SetLast(c) ==
    /\ pc[c] = "setlast"
    /\ \/ up /\ last' = Stored(c, Last)
       \/ RedisErr /\ UNCHANGED last
    /\ EndFetch(c, "done")
    /\ result' = [d \in Callers |-> IF d \in Sharers(c)
                                    THEN [via |-> "fresh", age |-> now - reading[c]]
                                    ELSE result[d]]
    /\ UNCHANGED <<now, provider, up, fresh, memo, cancelled>>

\* Mutant: the last known reading is cached again as a fresh one
CacheAgain(c) == fresh' = [at |-> last.at, left |-> Fresh] /\ UNCHANGED last

\* A fallback is served and not stored.
JustServe(c) == UNCHANGED cached

\* fromCache(weatherLastKey)
FromLast(c) ==
    /\ pc[c] = "last"
    /\ \/ up /\ last.left > 0 /\ Return(c, "last", last.at) /\ JustServe(c)
       \/ /\ last.left = 0 \/ ReadErr(c)
          /\ Goto(c, "lastmemo")
          /\ UNCHANGED <<cached, result>>
    /\ UNCHANGED <<now, provider, up, memo, flight, caller, cancelled>>

\* memo(weatherLastTTL)
FromLastMemo(c) ==
    /\ pc[c] = "lastmemo"
    /\ \/ Keeps(On[c], Last) /\ Return(c, "last", memo[On[c]].at)
       \/ ~Keeps(On[c], Last) /\ Return(c, "nothing", now)
    /\ UNCHANGED <<now, provider, up, cached, memo, flight, caller, cancelled>>

----------------------------------------------------------------------------
(* What happens besides *)

\* A period goes by; no fetch takes more than Slow of them.
Tick ==
    LET Less(n) == IF n = 0 THEN 0 ELSE n - 1 IN
    /\ now < MaxNow
    /\ \A c \in Callers : pc[c] \in Fetching => now - began[c] < Slow
    /\ now' = now + 1
    /\ fresh' = [fresh EXCEPT !.left = Less(@)]
    /\ last' = [last EXCEPT !.left = Less(@)]
    /\ UNCHANGED <<provider, up, memo, flight, pc, caller, cancelled, result>>

Outage ==
    /\ "redis" \in Outside
    /\ up' = ~up
    /\ UNCHANGED <<now, provider, cached, memo, flight, pc, caller, cancelled, result>>

\* The client of a request goes away.
Cancel(c) ==
    /\ "cancels" \in Outside
    /\ pc[c] # "done"
    /\ cancelled' = [cancelled EXCEPT ![c] = TRUE]
    /\ UNCHANGED <<now, provider, up, cached, memo, flight, pc, caller, result>>

\* A process restarts: its reading and its requests are gone.
Restart(i) ==
    LET hit == {c \in Callers : On[c] = i /\ pc[c] \notin {"start", "done"}} IN
    /\ "restarts" \in Outside
    /\ memo' = [memo EXCEPT ![i] = NoMemo]
    /\ flight' = [flight EXCEPT ![i] = None]
    /\ pc' = [c \in Callers |-> IF c \in hit THEN "done" ELSE pc[c]]
    /\ result' = [c \in Callers |-> IF c \in hit THEN [via |-> "gone", age |-> 0]
                                    ELSE result[c]]
    /\ Forget(hit)
    /\ UNCHANGED <<now, provider, up, cached, cancelled>>

----------------------------------------------------------------------------
Current(c) ==
    \/ FromFresh(c) \/ FromMemo(c) \/ Do(c)
    \/ Fetched(c) \/ FetchFails(c) \/ Disabled(c) \/ SetFresh(c) \/ SetLast(c)
    \/ FromLast(c) \/ FromLastMemo(c)

External == \/ Tick \/ Outage
            \/ \E c \in Callers : Cancel(c)
            \/ \E i \in Instances : Restart(i)

Next == (\E c \in Callers : Current(c)) \/ External

\* Every call runs in its request's goroutine, and nothing in it blocks but the
\* provider, Redis and the shared fetch, which all end.
Fairness == \A c \in Callers : WF_vars(Current(c))

Spec == Init /\ [][Next]_vars /\ Fairness

----------------------------------------------------------------------------
(* Properties *)

\* Every variable has its type.
TypeOK ==
    /\ now \in Times
    /\ provider \in Providers
    /\ up \in BOOLEAN
    /\ fresh \in [at: Times, left: 0..Fresh]
    /\ last \in [at: Times, left: 0..Last]
    /\ memo \in [Instances -> [has: BOOLEAN, at: Times, seen: Times]]
    /\ flight \in [Instances -> Callers \cup {None}]
    /\ pc \in [Callers -> Locations]
    /\ leader \in [Callers -> Callers \cup {None}]
    /\ began \in [Callers -> Times]
    /\ reading \in [Callers -> Times]
    /\ cancelled \in [Callers -> BOOLEAN]
    /\ result \in [Callers -> [via: Via, age: Times]]

\* The weather of a search is at most as old as the cache may hold it, or, when
\* the provider failed, as the last known reading may be kept: no cache is
\* filled from another cache, whichever process fetched and whatever failed.
ServedIsRecent ==
    \A c \in Callers : /\ result[c].via = "fresh" => result[c].age <= Fresh + Slow
                       /\ result[c].via = "last" => result[c].age <= Last + Slow

\* A process that keeps a reading never goes back to an older one: a late
\* answer of the provider cannot overtake another, as there is one fetch at a time.
MemoNeverOlder ==
    [][\A i \in Instances : memo[i].has /\ memo'[i].has => memo'[i].at >= memo[i].at]_vars

\* "one cancelled request can't fail the others waiting on it": while the
\* provider answers, every request that its process lives to end gets a fresh reading.
CancelHurtsNobody ==
    provider = "sound" =>
        \A c \in Callers : pc[c] = "done" =>
                               result[c].via \in {"fresh", "gone"}

\* Every call of Current returns, also those that wait for another's fetch.
EveryCallReturns == \A c \in Callers : pc[c] # "start" ~> pc[c] = "done"
=============================================================================
