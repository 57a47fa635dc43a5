---------------------------- MODULE WeatherProofs ----------------------------
(***************************************************************************)
(* Proofs about Weather: how old a reading may be where it is kept, and so *)
(* how old the weather of a search may be.                                 *)
(***************************************************************************)
EXTENDS Weather, TLAPS

\* A reading in Redis gets as old as its time to live and one fetch at most.
Aged(entry, ttl) ==
    entry.left > 0 => entry.at <= now /\ now + entry.left <= entry.at + ttl + Slow

\* A process got its reading at most one fetch after it was taken.
MemoAged(i) ==
    memo[i].has => /\ memo[i].at <= memo[i].seen
                   /\ memo[i].seen <= now
                   /\ memo[i].seen <= memo[i].at + Slow

\* A fetch is the only one of its process and takes at most Slow, and its
\* process has no reading from after its start until it keeps its own.
FetchAged(c) ==
    /\ pc[c] \in Fetching => /\ flight[On[c]] = c
                             /\ began[c] <= now
                             /\ now <= began[c] + Slow
    /\ pc[c] \in {"setfresh", "setlast"} => began[c] <= reading[c] /\ reading[c] <= now
    /\ pc[c] = "call" /\ memo[On[c]].has => memo[On[c]].at <= began[c]

IInv ==
    /\ TypeOK
    /\ Aged(fresh, Fresh)
    /\ Aged(last, Last)
    /\ \A i \in Instances : MemoAged(i)
    /\ \A c \in Callers : FetchAged(c)

Served(c) == /\ result[c].via = "fresh" => result[c].age <= Fresh + Slow
             /\ result[c].via = "last" => result[c].age <= Last + Slow

LEMMA Initially == Init => IInv /\ ServedIsRecent
<1> USE OnAssumption, TimesAssumption
<1> SUFFICES ASSUME Init PROVE IInv /\ ServedIsRecent  OBVIOUS
<1>1. TypeOK
  BY DEF Init, TypeOK, Times, Locations, Via, Empty, NoMemo, NoResult
<1>2. Aged(fresh, Fresh) /\ Aged(last, Last)  BY DEF Init, Aged, Empty
<1>3. \A i \in Instances : MemoAged(i)  BY DEF Init, MemoAged, NoMemo
<1>4. \A c \in Callers : FetchAged(c)  BY DEF Init, FetchAged, Fetching
<1>5. ServedIsRecent  BY DEF Init, ServedIsRecent, NoResult
<1> QED  BY <1>1, <1>2, <1>3, <1>4, <1>5 DEF IInv

\* What a Return, or the end of a fetch, leaves in result
LEMMA ReturnTypes ==
    ASSUME TypeOK, NEW c \in Callers, NEW via \in Via, NEW at \in Times, at <= now,
           Return(c, via, at)
    PROVE  /\ pc' \in [Callers -> Locations]
           /\ result' \in [Callers -> [via: Via, age: Times]]
           /\ pc'[c] = "done"
           /\ \A d \in Callers \ {c} : pc'[d] = pc[d] /\ result'[d] = result[d]
           /\ result'[c] = [via |-> via, age |-> now - at]
<1> USE DEF TypeOK
<1>1. now - at \in Times  BY TimesAssumption DEF Times
<1>2. [via |-> via, age |-> now - at] \in [via: Via, age: Times]  BY <1>1
<1>3. "done" \in Locations  BY DEF Locations
<1> QED  BY <1>2, <1>3 DEF Return, Goto

LEMMA EndTypes ==
    ASSUME TypeOK, NEW c \in Callers, NEW l \in Locations, EndFetch(c, l)
    PROVE  /\ flight' \in [Instances -> Callers \cup {None}]
           /\ pc' \in [Callers -> Locations]
           /\ leader' \in [Callers -> Callers \cup {None}]
           /\ began' \in [Callers -> Times]
           /\ reading' \in [Callers -> Times]
BY OnAssumption, TimesAssumption DEF TypeOK, EndFetch, Forget, Times

\* When a fetch ends, the fetches of the other processes go on as they were.
LEMMA EndKeepsFetches ==
    ASSUME IInv, NEW c \in Callers, NEW l \in Locations \ Fetching, EndFetch(c, l),
           pc[c] \in Fetching, UNCHANGED <<now, memo>>
    PROVE  \A d \in Callers : FetchAged(d)'
<1> TAKE d \in Callers
<1>1. CASE d \in Sharers(c)
  BY <1>1 DEF IInv, TypeOK, EndFetch, FetchAged, Fetching
<1>2. CASE d \notin Sharers(c)
  <2>1. d # c  BY <1>2 DEF Sharers
  <2>2. /\ pc'[d] = pc[d] /\ began'[d] = began[d] /\ reading'[d] = reading[d]
    BY <1>2 DEF IInv, TypeOK, EndFetch, Forget
  <2>3. FetchAged(d) /\ FetchAged(c)  BY DEF IInv
  <2>4. pc[d] \in Fetching => flight'[On[d]] = d
    BY <2>1, <2>3, OnAssumption DEF FetchAged, IInv, TypeOK, EndFetch
  <2> QED  BY <2>2, <2>3, <2>4 DEF FetchAged, Fetching
<1> QED  BY <1>1, <1>2

\* A caller's step outside of a fetch, when the caches stay as they are
LEMMA StepAside ==
    ASSUME IInv, NEW c \in Callers, pc[c] \notin Fetching, pc'[c] \notin Fetching,
           \A d \in Callers \ {c} : pc'[d] = pc[d],
           UNCHANGED <<now, cached, memo, flight, began, reading>>
    PROVE  /\ Aged(fresh, Fresh)' /\ Aged(last, Last)'
           /\ \A i \in Instances : MemoAged(i)'
           /\ \A d \in Callers : FetchAged(d)'
<1>1. Aged(fresh, Fresh)' /\ Aged(last, Last)'  BY DEF IInv, Aged, cached
<1>2. \A i \in Instances : MemoAged(i)'  BY DEF IInv, MemoAged
<1>3. \A d \in Callers : FetchAged(d)'  BY DEF IInv, FetchAged, Fetching
<1> QED  BY <1>1, <1>2, <1>3

\* A caller that returns serves nothing too old if what it read was not.
LEMMA ServedStep ==
    ASSUME ServedIsRecent, NEW c \in Callers, Served(c)',
           \A d \in Callers \ {c} : result'[d] = result[d]
    PROVE  ServedIsRecent'
BY DEF ServedIsRecent, Served

\* The four reads of Current, from Redis and from the process's memory
LEMMA ReadCache ==
    ASSUME IInv, ServedIsRecent, NEW c \in Callers, FromFresh(c) \/ FromLast(c)
    PROVE  IInv' /\ ServedIsRecent'
<1> USE DEF cached, caller
<1> DEFINE Read(entry, via, ttl) ==
             entry.left > 0 /\ Return(c, via, entry.at)
<1>1. CASE (pc[c] = "start" /\ Read(fresh, "fresh", Fresh)) \/ (pc[c] = "last" /\ Read(last, "last", Last))
  <2>1. \E via \in {"fresh", "last"}, at \in Times : 
           /\ Return(c, via, at) /\ at <= now
           /\ via = "fresh" => now - at <= Fresh + Slow
           /\ via = "last" => now - at <= Last + Slow
    BY <1>1, TimesAssumption DEF IInv, TypeOK, Aged, Times
  <2>2. PICK via \in {"fresh", "last"}, at \in Times : 
           /\ Return(c, via, at) /\ at <= now
           /\ via = "fresh" => now - at <= Fresh + Slow
           /\ via = "last" => now - at <= Last + Slow
    BY <2>1
  <2>3. via \in Via  BY DEF Via
  <2>4. /\ pc' \in [Callers -> Locations]
        /\ result' \in [Callers -> [via: Via, age: Times]]
        /\ pc'[c] = "done"
        /\ \A d \in Callers \ {c} : pc'[d] = pc[d] /\ result'[d] = result[d]
        /\ result'[c] = [via |-> via, age |-> now - at]
    BY <2>2, <2>3, ReturnTypes DEF IInv
  <2>5. UNCHANGED <<now, provider, up, cached, memo, flight, caller, cancelled>>
    BY <1>1 DEF FromFresh, FromLast, JustServe
  <2>6. TypeOK'  BY <2>4, <2>5 DEF IInv, TypeOK
  <2>7. Served(c)'  BY <2>2, <2>4 DEF Served
  <2>8. pc[c] \notin Fetching /\ pc'[c] \notin Fetching
    BY <1>1, <2>4 DEF Fetching
  <2>9. IInv'  BY <2>4, <2>5, <2>6, <2>8, StepAside DEF IInv
  <2> QED  BY <2>4, <2>7, <2>9, ServedStep
<1>2. CASE \E l \in {"memo", "lastmemo"} : Goto(c, l) /\ pc[c] \in {"start", "last"}
            /\ UNCHANGED <<cached, result>>
  <2>1. PICK l \in {"memo", "lastmemo"} : Goto(c, l) /\ pc[c] \in {"start", "last"}
            /\ UNCHANGED <<cached, result>>
    BY <1>2
  <2>2. UNCHANGED <<now, provider, up, memo, flight, caller, cancelled>>
    BY DEF FromFresh, FromLast
  <2>3. TypeOK'  BY <2>1, <2>2 DEF IInv, TypeOK, Goto, Locations
  <2>4. pc[c] \notin Fetching /\ pc'[c] \notin Fetching
        /\ \A d \in Callers \ {c} : pc'[d] = pc[d]
    BY <2>1 DEF Fetching, Goto, IInv, TypeOK
  <2>5. IInv'  BY <2>1, <2>2, <2>3, <2>4, StepAside DEF IInv
  <2>6. ServedIsRecent'  BY <2>1 DEF ServedIsRecent
  <2> QED  BY <2>5, <2>6
<1> QED  BY <1>1, <1>2 DEF FromFresh, FromLast, JustServe

LEMMA ReadMemo ==
    ASSUME IInv, ServedIsRecent, NEW c \in Callers, FromMemo(c) \/ FromLastMemo(c)
    PROVE  IInv' /\ ServedIsRecent'
<1> USE DEF cached, caller
<1>0. /\ UNCHANGED <<now, provider, up, cached, memo, flight, caller, cancelled>>
      /\ pc[c] \in {"memo", "lastmemo"}
  BY DEF FromMemo, FromLastMemo
<1>1. CASE \E via \in {"fresh", "last", "nothing"}, at \in Times :
           /\ Return(c, via, at) /\ at <= now
           /\ via = "fresh" => now - at <= Fresh + Slow
           /\ via = "last" => now - at <= Last + Slow
  <2>2. PICK via \in {"fresh", "last", "nothing"}, at \in Times :
           /\ Return(c, via, at) /\ at <= now
           /\ via = "fresh" => now - at <= Fresh + Slow
           /\ via = "last" => now - at <= Last + Slow
    BY <1>1
  <2>3. via \in Via  BY DEF Via
  <2>4. /\ pc' \in [Callers -> Locations]
        /\ result' \in [Callers -> [via: Via, age: Times]]
        /\ pc'[c] = "done"
        /\ \A d \in Callers \ {c} : pc'[d] = pc[d] /\ result'[d] = result[d]
        /\ result'[c] = [via |-> via, age |-> now - at]
    BY <2>2, <2>3, ReturnTypes DEF IInv
  <2>6. TypeOK'  BY <2>4, <1>0 DEF IInv, TypeOK
  <2>7. Served(c)'  BY <2>2, <2>4, <1>0 DEF Served
  <2>8. pc[c] \notin Fetching /\ pc'[c] \notin Fetching
    BY <1>0, <2>4 DEF Fetching
  <2>9. IInv'  BY <1>0, <2>4, <2>6, <2>8, StepAside DEF IInv
  <2> QED  BY <2>4, <2>7, <2>9, ServedStep
<1>2. CASE Goto(c, "do") /\ UNCHANGED result
  <2>3. TypeOK'  BY <1>0, <1>2 DEF IInv, TypeOK, Goto, Locations
  <2>4. pc[c] \notin Fetching /\ pc'[c] \notin Fetching
        /\ \A d \in Callers \ {c} : pc'[d] = pc[d]
    BY <1>0, <1>2 DEF Fetching, Goto, IInv, TypeOK
  <2>5. IInv'  BY <1>0, <2>3, <2>4, StepAside DEF IInv
  <2>6. ServedIsRecent'  BY <1>2 DEF ServedIsRecent
  <2> QED  BY <2>5, <2>6
<1>3. ASSUME Keeps(On[c], Fresh), Return(c, "fresh", memo[On[c]].at)  PROVE IInv' /\ ServedIsRecent'
  <2>1. memo[On[c]].at \in Times /\ memo[On[c]].at <= now /\ now - memo[On[c]].at <= Fresh + Slow
    BY <1>3, OnAssumption, TimesAssumption DEF IInv, TypeOK, MemoAged, Keeps, Times
  <2> QED  BY <1>1, <1>3, <2>1
<1>4. ASSUME Keeps(On[c], Last), Return(c, "last", memo[On[c]].at)  PROVE IInv' /\ ServedIsRecent'
  <2>1. memo[On[c]].at \in Times /\ memo[On[c]].at <= now /\ now - memo[On[c]].at <= Last + Slow
    BY <1>4, OnAssumption, TimesAssumption DEF IInv, TypeOK, MemoAged, Keeps, Times
  <2> QED  BY <1>1, <1>4, <2>1
<1>5. ASSUME Return(c, "nothing", now)  PROVE IInv' /\ ServedIsRecent'
  <2>1. now \in Times /\ now <= now  BY TimesAssumption DEF IInv, TypeOK, Times
  <2> QED  BY <1>1, <1>5, <2>1
<1> QED  BY <1>2, <1>3, <1>4, <1>5 DEF FromMemo, FromLastMemo

LEMMA StepDo ==
    ASSUME IInv, ServedIsRecent, NEW c \in Callers, Do(c)
    PROVE  IInv' /\ ServedIsRecent'
<1> USE DEF cached
<1>1. TypeOK'
  <2>1. /\ flight' \in [Instances -> Callers \cup {None}]
        /\ leader' \in [Callers -> Callers \cup {None}]
        /\ began' \in [Callers -> Times]
        /\ pc' \in [Callers -> Locations]
    <3>1. On[c] \in Instances  BY OnAssumption
    <3>2. flight[On[c]] \in Callers \cup {None} /\ now \in Times
      BY <3>1 DEF IInv, TypeOK
    <3>3. pc' \in [Callers -> Locations]
      BY DEF IInv, TypeOK, Do, Goto, Locations
    <3>4. flight' \in [Instances -> Callers \cup {None}]
      BY DEF IInv, TypeOK, Do
    <3>5. leader' \in [Callers -> Callers \cup {None}]
      BY <3>2 DEF IInv, TypeOK, Do
    <3>6. began' \in [Callers -> Times]
      BY <3>2 DEF IInv, TypeOK, Do
    <3> QED  BY <3>3, <3>4, <3>5, <3>6
  <2> QED  BY <2>1 DEF IInv, TypeOK, Do
<1>2. Aged(fresh, Fresh)' /\ Aged(last, Last)'  BY DEF IInv, Aged, Do
<1>3. \A i \in Instances : MemoAged(i)'  BY DEF IInv, MemoAged, Do
<1>4. ASSUME NEW d \in Callers  PROVE FetchAged(d)'
  <2>0. FetchAged(d) /\ FetchAged(c)  BY DEF IInv
  <2>1. CASE Leads(c) /\ d = c
    <3>1. pc'[c] = "call" /\ flight'[On[c]] = c /\ began'[c] = now /\ now' = now /\ memo' = memo
      BY <2>1, OnAssumption DEF IInv, TypeOK, Do, Goto, Leads
    <3>2. now <= now + Slow /\ (memo[On[c]].has => memo[On[c]].at <= now)
      BY TimesAssumption, OnAssumption DEF IInv, TypeOK, MemoAged, Times
    <3> QED  BY <2>1, <3>1, <3>2, TimesAssumption DEF FetchAged, Fetching, IInv, TypeOK, Times
  <2>2. CASE Leads(c) /\ d # c
    <3>1. pc'[d] = pc[d] /\ began'[d] = began[d] /\ UNCHANGED <<now, memo, reading>>
      BY <2>2 DEF IInv, TypeOK, Do, Goto, Leads
    <3>2. pc[d] \in Fetching => flight'[On[d]] = d
      <4> SUFFICES ASSUME pc[d] \in Fetching  PROVE flight'[On[d]] = d  OBVIOUS
      <4>1. flight[On[d]] = d  BY <2>0 DEF FetchAged
      <4>2. On[d] # On[c]  BY <2>2, <4>1, NoneAssumption DEF Leads
      <4> QED  BY <2>2, <4>1, <4>2, OnAssumption DEF Do, IInv, TypeOK, Leads
    <3> QED  BY <2>0, <3>1, <3>2 DEF FetchAged
  <2>3. CASE ~Leads(c)
    BY <2>0, <2>3 DEF FetchAged, Fetching, Do, Goto, IInv, TypeOK
  <2> QED  BY <2>1, <2>2, <2>3
<1>5. ServedIsRecent'  BY DEF ServedIsRecent, Do
<1> QED  BY <1>1, <1>2, <1>3, <1>4, <1>5 DEF IInv

\* No other fetch of c's process is under way.
LEMMA OneFetch ==
    ASSUME IInv, NEW c \in Callers, NEW d \in Callers \ {c},
           pc[c] \in Fetching, pc[d] \in Fetching
    PROVE  On[d] # On[c]
BY DEF IInv, FetchAged

LEMMA StepFetched ==
    ASSUME IInv, ServedIsRecent, NEW c \in Callers, Fetched(c)
    PROVE  IInv' /\ ServedIsRecent'
<1> USE DEF cached
<1>1. PICK t \in began[c]..now :
          /\ reading' = [reading EXCEPT ![c] = t]
          /\ memo' = [memo EXCEPT ![On[c]] = [has |-> TRUE, at |-> t, seen |-> now]]
  BY DEF Fetched
<1>2. /\ FetchAged(c) /\ t \in Times /\ now \in Times
      /\ began[c] <= t /\ t <= now /\ now <= t + Slow
  BY <1>1, TimesAssumption DEF IInv, TypeOK, FetchAged, Fetching, Fetched, Times
<1>3. [has |-> TRUE, at |-> t, seen |-> now] \in [has: BOOLEAN, at: Times, seen: Times]
  BY <1>2
<1>4. TypeOK'
  BY <1>1, <1>2, <1>3, OnAssumption DEF IInv, TypeOK, Fetched, Goto, Locations
<1>5. Aged(fresh, Fresh)' /\ Aged(last, Last)'  BY DEF IInv, Aged, Fetched
<1>6. ASSUME NEW i \in Instances  PROVE MemoAged(i)'
  <2>1. CASE i = On[c]
    <3>1. memo'[i] = [has |-> TRUE, at |-> t, seen |-> now]
      BY <1>1, <2>1, OnAssumption DEF IInv, TypeOK
    <3> QED  BY <1>2, <3>1 DEF MemoAged, Fetched, Times
  <2>2. CASE i # On[c]
    BY <1>1, <2>2 DEF IInv, TypeOK, MemoAged, Fetched
  <2> QED  BY <2>1, <2>2
<1>7. ASSUME NEW d \in Callers  PROVE FetchAged(d)'
  <2>1. CASE d = c
    <3>1. pc'[c] = "setfresh" /\ reading'[c] = t
      BY <1>1 DEF IInv, TypeOK, Fetched, Goto
    <3> QED  BY <1>2, <2>1, <3>1 DEF FetchAged, Fetching, Fetched
  <2>2. CASE d # c
    <3>1. pc'[d] = pc[d] /\ reading'[d] = reading[d] /\ UNCHANGED <<now, flight, began>>
      BY <1>1, <2>2 DEF IInv, TypeOK, Fetched, Goto
    <3>2. pc[d] \in Fetching => memo'[On[d]] = memo[On[d]]
      BY <1>1, <2>2, OneFetch, OnAssumption DEF IInv, TypeOK, Fetched, Fetching
    <3>3. FetchAged(d)  BY DEF IInv
    <3> QED  BY <3>1, <3>2, <3>3 DEF FetchAged, Fetching
  <2> QED  BY <2>1, <2>2
<1>8. ServedIsRecent'  BY DEF ServedIsRecent, Fetched
<1> QED  BY <1>4, <1>5, <1>6, <1>7, <1>8 DEF IInv

\* The two ways in which the provider does not answer
LEMMA StepFails ==
    ASSUME IInv, ServedIsRecent, NEW c \in Callers, FetchFails(c) \/ Disabled(c)
    PROVE  IInv' /\ ServedIsRecent'
<1> USE DEF cached
<1>1. PICK l \in {"last", "done"} : EndFetch(c, l)  BY DEF FetchFails, Disabled
<1>2. /\ l \in Locations \ Fetching /\ pc[c] \in Fetching
      /\ UNCHANGED <<now, provider, up, cached, memo, cancelled>>
  BY DEF Locations, Fetching, FetchFails, Disabled
<1>3. /\ result' \in [Callers -> [via: Via, age: Times]]
      /\ \A d \in Callers : result'[d] = result[d] \/ result'[d].via = "nothing"
  <2>1. [via |-> "nothing", age |-> 0] \in [via: Via, age: Times]
    BY TimesAssumption DEF Via, Times
  <2> QED  BY <2>1 DEF IInv, TypeOK, FetchFails, Disabled
<1>4. TypeOK'  BY <1>1, <1>2, <1>3, EndTypes DEF IInv, TypeOK
<1>5. Aged(fresh, Fresh)' /\ Aged(last, Last)'  BY <1>2 DEF IInv, Aged
<1>6. \A i \in Instances : MemoAged(i)'  BY <1>2 DEF IInv, MemoAged
<1>7. \A d \in Callers : FetchAged(d)'  BY <1>1, <1>2, EndKeepsFetches
<1>8. ServedIsRecent'  BY <1>3 DEF ServedIsRecent
<1> QED  BY <1>4, <1>5, <1>6, <1>7, <1>8 DEF IInv

LEMMA StepSetFresh ==
    ASSUME IInv, ServedIsRecent, NEW c \in Callers, SetFresh(c)
    PROVE  IInv' /\ ServedIsRecent'
<1> USE DEF caller
<1>1. /\ FetchAged(c) /\ reading[c] \in Times /\ now \in Times
      /\ reading[c] <= now /\ now <= reading[c] + Slow
  BY TimesAssumption DEF IInv, TypeOK, FetchAged, Fetching, SetFresh, Times
<1>2. fresh' = fresh \/ fresh' = [at |-> reading[c], left |-> Fresh]
  BY DEF SetFresh, Stored
<1>3. fresh' \in [at: Times, left: 0..Fresh]
  <2>1. [at |-> reading[c], left |-> Fresh] \in [at: Times, left: 0..Fresh]
    BY <1>1, TimesAssumption
  <2> QED  BY <1>2, <2>1 DEF IInv, TypeOK
<1>4. pc' \in [Callers -> Locations] /\ pc'[c] = "setlast"
      /\ \A d \in Callers \ {c} : pc'[d] = pc[d]
  BY DEF IInv, TypeOK, SetFresh, Goto, Locations
<1>5. TypeOK'  BY <1>3, <1>4 DEF IInv, TypeOK, SetFresh
<1>6. Aged(fresh, Fresh)'
  BY <1>1, <1>2, TimesAssumption DEF IInv, Aged, SetFresh, Times
<1>7. Aged(last, Last)'  BY DEF IInv, Aged, SetFresh
<1>8. \A i \in Instances : MemoAged(i)'  BY DEF IInv, MemoAged, SetFresh
<1>9. \A d \in Callers : FetchAged(d)'
  BY <1>4 DEF IInv, FetchAged, Fetching, SetFresh
<1>10. ServedIsRecent'  BY DEF ServedIsRecent, SetFresh
<1> QED  BY <1>5, <1>6, <1>7, <1>8, <1>9, <1>10 DEF IInv

LEMMA StepSetLast ==
    ASSUME IInv, ServedIsRecent, NEW c \in Callers, SetLast(c)
    PROVE  IInv' /\ ServedIsRecent'
<1>1. /\ FetchAged(c) /\ reading[c] \in Times /\ now \in Times
      /\ reading[c] <= now /\ now <= reading[c] + Slow
  BY TimesAssumption DEF IInv, TypeOK, FetchAged, Fetching, SetLast, Times
<1>2. last' = last \/ last' = [at |-> reading[c], left |-> Last]
  BY DEF SetLast, Stored
<1>3. last' \in [at: Times, left: 0..Last]
  <2>1. [at |-> reading[c], left |-> Last] \in [at: Times, left: 0..Last]
    BY <1>1, TimesAssumption
  <2> QED  BY <1>2, <2>1 DEF IInv, TypeOK
<1>4. now - reading[c] \in Times /\ now - reading[c] <= Fresh + Slow
  BY <1>1, TimesAssumption DEF Times
<1>5. /\ result' \in [Callers -> [via: Via, age: Times]]
      /\ \A d \in Callers : \/ result'[d] = result[d]
                            \/ result'[d] = [via |-> "fresh", age |-> now - reading[c]]
  <2>1. [via |-> "fresh", age |-> now - reading[c]] \in [via: Via, age: Times]
    BY <1>4 DEF Via
  <2> QED  BY <2>1 DEF IInv, TypeOK, SetLast
<1>6. /\ EndFetch(c, "done") /\ pc[c] \in Fetching /\ "done" \in Locations \ Fetching
      /\ UNCHANGED <<now, provider, up, fresh, memo, cancelled>>
  BY DEF SetLast, Fetching, Locations
<1>7. TypeOK'  BY <1>3, <1>5, <1>6, EndTypes DEF IInv, TypeOK
<1>8. Aged(fresh, Fresh)'  BY <1>6 DEF IInv, Aged
<1>9. Aged(last, Last)'
  BY <1>1, <1>2, <1>6, TimesAssumption DEF IInv, Aged, Times
<1>10. \A i \in Instances : MemoAged(i)'  BY <1>6 DEF IInv, MemoAged
<1>11. \A d \in Callers : FetchAged(d)'  BY <1>6, EndKeepsFetches
<1>12. ServedIsRecent'
  BY <1>4, <1>5 DEF ServedIsRecent
<1> QED  BY <1>7, <1>8, <1>9, <1>10, <1>11, <1>12 DEF IInv

LEMMA StepTick ==
    ASSUME IInv, ServedIsRecent, Tick
    PROVE  IInv' /\ ServedIsRecent'
<1> USE DEF caller
<1> DEFINE Less(n) == IF n = 0 THEN 0 ELSE n - 1
<1>1. /\ now' = now + 1 /\ now \in Times /\ now' \in Times
      /\ fresh' = [at |-> fresh.at, left |-> Less(fresh.left)]
      /\ last' = [at |-> last.at, left |-> Less(last.left)]
  BY TimesAssumption DEF IInv, TypeOK, Tick, Times
<1>2. TypeOK'
  <2>1. Less(fresh.left) \in 0..Fresh /\ Less(last.left) \in 0..Last
    <3>1. fresh.left \in 0..Fresh /\ last.left \in 0..Last  BY DEF IInv, TypeOK
    <3>2. Fresh \in Nat /\ Last \in Nat  BY TimesAssumption
    <3>3. ASSUME NEW m \in Nat, NEW n \in 0..m  PROVE Less(n) \in 0..m  OBVIOUS
    <3> HIDE DEF Less
    <3> QED  BY <3>1, <3>2, <3>3
  <2>2. fresh' \in [at: Times, left: 0..Fresh] /\ last' \in [at: Times, left: 0..Last]
    BY <1>1, <2>1 DEF IInv, TypeOK
  <2> QED  BY <1>1, <2>2 DEF IInv, TypeOK, Tick
<1>3. Aged(fresh, Fresh)' /\ Aged(last, Last)'
  BY <1>1, TimesAssumption DEF IInv, TypeOK, Aged, Times
<1>4. \A i \in Instances : MemoAged(i)'
  BY <1>1, TimesAssumption DEF IInv, TypeOK, MemoAged, Tick, Times
<1>5. ASSUME NEW c \in Callers  PROVE FetchAged(c)'
  <2>1. FetchAged(c) /\ began[c] \in Times /\ reading[c] \in Times  BY DEF IInv, TypeOK
  <2>2. pc[c] \in Fetching => now - began[c] < Slow  BY DEF Tick
  <2>3. UNCHANGED <<pc, flight, began, reading, memo>>  BY DEF Tick
  <2> QED  BY <1>1, <2>1, <2>2, <2>3, TimesAssumption DEF FetchAged, Times
<1>6. ServedIsRecent'  BY DEF ServedIsRecent, Tick
<1> QED  BY <1>2, <1>3, <1>4, <1>5, <1>6 DEF IInv

LEMMA StepOutside ==
    ASSUME IInv, ServedIsRecent, Outage \/ \E c \in Callers : Cancel(c)
    PROVE  IInv' /\ ServedIsRecent'
<1> USE DEF caller, cached
<1>1. UNCHANGED <<now, provider, cached, memo, flight, pc, caller, result>>
  BY DEF Outage, Cancel
<1>2. up' \in BOOLEAN /\ cancelled' \in [Callers -> BOOLEAN]
  BY DEF IInv, TypeOK, Outage, Cancel
<1>3. TypeOK'  BY <1>1, <1>2 DEF IInv, TypeOK
<1>4. IInv'  BY <1>1, <1>3 DEF IInv, Aged, MemoAged, FetchAged
<1>5. ServedIsRecent'  BY <1>1 DEF ServedIsRecent
<1> QED  BY <1>4, <1>5

LEMMA StepRestart ==
    ASSUME IInv, ServedIsRecent, NEW i \in Instances, Restart(i)
    PROVE  IInv' /\ ServedIsRecent'
<1> USE DEF cached
<1> DEFINE hit == {c \in Callers : On[c] = i /\ pc[c] \notin {"start", "done"}}
<1>0. /\ memo' = [memo EXCEPT ![i] = NoMemo] /\ flight' = [flight EXCEPT ![i] = None]
      /\ pc' = [c \in Callers |-> IF c \in hit THEN "done" ELSE pc[c]]
      /\ result' = [c \in Callers |-> IF c \in hit THEN [via |-> "gone", age |-> 0]
                                      ELSE result[c]]
      /\ Forget(hit) /\ UNCHANGED <<now, provider, up, cached, cancelled>>
  BY DEF Restart
<1> HIDE DEF hit
<1>1. NoMemo \in [has: BOOLEAN, at: Times, seen: Times]
      /\ [via |-> "gone", age |-> 0] \in [via: Via, age: Times]
  BY TimesAssumption DEF NoMemo, Via, Times
<1>2. /\ memo' \in [Instances -> [has: BOOLEAN, at: Times, seen: Times]]
      /\ result' \in [Callers -> [via: Via, age: Times]]
  BY <1>0, <1>1 DEF IInv, TypeOK
<1>3. /\ flight' \in [Instances -> Callers \cup {None}]
      /\ pc' \in [Callers -> Locations]
      /\ leader' \in [Callers -> Callers \cup {None}]
      /\ began' \in [Callers -> Times]
      /\ reading' \in [Callers -> Times]
  BY <1>0, TimesAssumption DEF IInv, TypeOK, Forget, Locations, Times
<1>4. TypeOK'  BY <1>0, <1>2, <1>3 DEF IInv, TypeOK
<1>5. Aged(fresh, Fresh)' /\ Aged(last, Last)'  BY <1>0 DEF IInv, Aged
<1>6. ASSUME NEW j \in Instances  PROVE MemoAged(j)'
  <2>1. memo'[j] = NoMemo \/ memo'[j] = memo[j]  BY <1>0 DEF IInv, TypeOK
  <2> QED  BY <1>0, <2>1 DEF IInv, MemoAged, NoMemo
<1>7. ASSUME NEW c \in Callers  PROVE FetchAged(c)'
  <2>1. CASE pc'[c] = "done"  BY <2>1 DEF FetchAged, Fetching
  <2>2. CASE pc'[c] # "done"
    <3>1. c \notin hit /\ pc'[c] = pc[c] /\ began'[c] = began[c] /\ reading'[c] = reading[c]
      BY <1>0, <2>2 DEF Forget
    <3>2. pc[c] \in Fetching => On[c] # i  BY <3>1 DEF hit, Fetching
    <3>3. pc[c] \in Fetching => memo'[On[c]] = memo[On[c]] /\ flight'[On[c]] = flight[On[c]]
      BY <1>0, <3>2, OnAssumption DEF IInv, TypeOK
    <3>4. FetchAged(c)  BY DEF IInv
    <3> QED  BY <1>0, <3>1, <3>3, <3>4 DEF FetchAged, Fetching
  <2> QED  BY <2>1, <2>2
<1>8. ServedIsRecent'
  <2>1. \A c \in Callers : result'[c] = result[c] \/ result'[c].via = "gone"
    BY <1>0
  <2> QED  BY <2>1 DEF ServedIsRecent
<1> QED  BY <1>4, <1>5, <1>6, <1>7, <1>8 DEF IInv

LEMMA Inductive == IInv /\ ServedIsRecent /\ [Next]_vars => IInv' /\ ServedIsRecent'
<1> SUFFICES ASSUME IInv, ServedIsRecent, [Next]_vars
             PROVE  IInv' /\ ServedIsRecent'
  OBVIOUS
<1>1. ASSUME NEW c \in Callers, Current(c)  PROVE IInv' /\ ServedIsRecent'
  BY <1>1, ReadCache, ReadMemo, StepDo, StepFetched, StepFails, StepSetFresh, StepSetLast
  DEF Current
<1>2. ASSUME External  PROVE IInv' /\ ServedIsRecent'
  BY <1>2, StepTick, StepOutside, StepRestart DEF External
<1>3. CASE UNCHANGED vars
  <2>1. IInv'
    BY <1>3 DEF vars, cached, caller, IInv, TypeOK, Aged, MemoAged, FetchAged
  <2>2. ServedIsRecent'  BY <1>3 DEF vars, ServedIsRecent
  <2> QED  BY <2>1, <2>2
<1> QED  BY <1>1, <1>2, <1>3 DEF Next

THEOREM AlwaysAged == Spec => [](IInv /\ ServedIsRecent)
<1>1. IInv /\ ServedIsRecent /\ [Next]_vars => (IInv /\ ServedIsRecent)'  BY Inductive
<1> QED  BY Initially, <1>1, PTL DEF Spec

----------------------------------------------------------------------------
\* Every variable of Weather has its type, in every behaviour.
THEOREM WeatherTypeCorrect == Spec => []TypeOK
<1>1. IInv /\ ServedIsRecent => TypeOK  BY DEF IInv
<1> QED  BY AlwaysAged, <1>1, PTL

\* For any number of calls and processes, and whatever fails, restarts or is
\* cancelled: the weather Current returns is no older than the time to live it
\* was read under, and one fetch.
THEOREM ServedIsRecentAlways == Spec => []ServedIsRecent
<1>1. IInv /\ ServedIsRecent => ServedIsRecent  OBVIOUS
<1> QED  BY AlwaysAged, <1>1, PTL

\* Only the fetch of a process writes its memory, with a reading from after
\* that fetch began, and it began after the reading kept before it was taken.
THEOREM MemoNeverOlderAlways == Spec => MemoNeverOlder
<1> DEFINE P == \A i \in Instances : memo[i].has /\ memo'[i].has => memo'[i].at >= memo[i].at
<1>1. ASSUME IInv, [Next]_vars  PROVE [P]_vars
  <2>1. ASSUME NEW i \in Instances, memo'[i] # memo[i], memo[i].has, memo'[i].has, Next
        PROVE  memo'[i].at >= memo[i].at
    <3>1. CASE \E c \in Callers : Fetched(c)
      <4>1. PICK c \in Callers : Fetched(c)  BY <3>1
      <4>2. PICK t \in began[c]..now :
               memo' = [memo EXCEPT ![On[c]] = [has |-> TRUE, at |-> t, seen |-> now]]
        BY <4>1 DEF Fetched
      <4>3. i = On[c]  BY <1>1, <2>1, <4>2 DEF IInv, TypeOK
      <4>4. memo'[i].at = t  BY <1>1, <2>1, <4>2, <4>3 DEF IInv, TypeOK
      <4>5. memo[i].at <= began[c]  BY <1>1, <2>1, <4>1, <4>3, OnAssumption DEF IInv, FetchAged, Fetched
      <4>6. memo[i].at \in Nat /\ began[c] \in Nat /\ t \in Nat
        BY <1>1, <2>1, TimesAssumption DEF IInv, TypeOK, Times
      <4> QED  BY <4>2, <4>4, <4>5, <4>6
    <3>2. CASE \E j \in Instances : Restart(j)
      BY <1>1, <2>1, <3>2 DEF Restart, NoMemo, IInv, TypeOK
    <3>3. CASE UNCHANGED memo  BY <2>1, <3>3
    <3> QED
      BY <2>1, <3>1, <3>2, <3>3 DEF Next, Current, External, FromFresh, FromMemo, Do,
         FetchFails, Disabled, SetFresh, SetLast, FromLast, FromLastMemo, Tick, Outage, Cancel
  <2>2. ASSUME NEW i \in Instances, memo'[i] = memo[i], memo[i].has
        PROVE  memo'[i].at >= memo[i].at
    BY <1>1, <2>2, TimesAssumption DEF IInv, TypeOK, Times
  <2> QED  BY <1>1, <2>1, <2>2
<1> QED  BY AlwaysAged, <1>1, PTL DEF Spec, MemoNeverOlder

----------------------------------------------------------------------------
\* While the provider answers, nobody falls back and nobody is left with nothing.
Kept(c) == /\ pc[c] \notin {"last", "lastmemo"}
           /\ pc[c] = "done" => result[c].via \in {"fresh", "gone"}

AllKept == provider = "sound" => \A c \in Callers : Kept(c)

LEMMA KeptByCurrent ==
    ASSUME TypeOK, AllKept, NEW c \in Callers, Current(c)
    PROVE  AllKept'
<1> SUFFICES ASSUME provider' = "sound", NEW d \in Callers  PROVE Kept(d)'
  BY DEF AllKept
<1>0. provider = "sound" /\ Kept(d) /\ Kept(c)
  BY DEF AllKept, Current, FromFresh, FromMemo, Do, Fetched, FetchFails, Disabled,
     SetFresh, SetLast, FromLast, FromLastMemo
<1>1. CASE FromFresh(c) \/ FromMemo(c)
  BY <1>0, <1>1 DEF TypeOK, FromFresh, FromMemo, Return, Goto, Kept
<1>2. CASE Do(c) \/ Fetched(c) \/ SetFresh(c)
  BY <1>0, <1>2 DEF TypeOK, Do, Fetched, SetFresh, Goto, Kept
<1>3. CASE FetchFails(c) \/ Disabled(c)
  BY <1>0, <1>3 DEF FetchFails, Disabled, MayFail
<1>4. CASE SetLast(c)
  <2>1. CASE d \in Sharers(c)
    <3>1. result'[d] = [via |-> "fresh", age |-> now - reading[c]]
      BY <1>4, <2>1 DEF SetLast
    <3>2. pc'[d] = "done"  BY <1>4, <2>1 DEF SetLast, EndFetch
    <3> QED  BY <3>1, <3>2 DEF Kept
  <2>2. CASE d \notin Sharers(c)
    BY <1>0, <1>4, <2>2 DEF SetLast, EndFetch, Kept
  <2> QED  BY <2>1, <2>2
<1>5. CASE FromLast(c) \/ FromLastMemo(c)
  BY <1>0, <1>5 DEF FromLast, FromLastMemo, Kept
<1> QED  BY <1>1, <1>2, <1>3, <1>4, <1>5 DEF Current

LEMMA KeptOutside ==
    ASSUME TypeOK, AllKept, External
    PROVE  AllKept'
<1> SUFFICES ASSUME provider' = "sound", NEW d \in Callers  PROVE Kept(d)'
  BY DEF AllKept
<1>0. provider = "sound" /\ Kept(d)
  BY DEF AllKept, External, Tick, Outage, Cancel, Restart
<1>1. CASE \E i \in Instances : Restart(i)
  BY <1>0, <1>1 DEF Restart, Kept
<1>2. CASE UNCHANGED <<pc, result>>  BY <1>0, <1>2 DEF Kept
<1> QED  BY <1>1, <1>2 DEF External, Tick, Outage, Cancel

\* For any number of calls, cancelled or not: while the provider answers, a
\* call that ends, other than by a restart, ends with a fresh reading.
THEOREM CancelHurtsNobodyAlways == Spec => []CancelHurtsNobody
<1>1. Init => AllKept  BY DEF Init, AllKept, Kept
<1>2. TypeOK /\ AllKept /\ [Next]_vars => AllKept'
  <2>1. ASSUME AllKept, UNCHANGED vars  PROVE AllKept'
    BY <2>1 DEF vars, AllKept, Kept
  <2> QED  BY <2>1, KeptByCurrent, KeptOutside DEF Next
<1>3. AllKept => CancelHurtsNobody  BY DEF AllKept, Kept, CancelHurtsNobody
<1> QED  BY WeatherTypeCorrect, <1>1, <1>2, <1>3, PTL DEF Spec
=============================================================================
