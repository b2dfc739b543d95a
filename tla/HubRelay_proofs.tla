-------------------------- MODULE HubRelay_proofs --------------------------
(***************************************************************************)
(* The connections of the PCStore and the promise of Deliver, for any      *)
(* number of orgs, callers and attempts, and with every fault.             *)
(***************************************************************************)
EXTENDS HubRelay, FiniteSetTheorems, TLAPS

Dialling == {"polling", "opening"}

\* A connection in a store belongs to that daemon and is no longer the
\* business of the call that dialled it.
Stored ==
    /\ \A o \in Orgs : store[o] # None => HomeOf(store[o]) = o
    /\ \A c \in Callers : pc[c] \in {"get"} \cup Dialling => \A o \in Orgs : store[o] # Mine(c)

\* Where the connection of every attempt stands.
Stages ==
    /\ \A c \in Callers : \A n \in 1..MaxAttempts : n > att[c] => off[<<c, n>>] = "none"
    /\ \A c \in Callers : pc[c] = "get" => off[Mine(c)] = "none"
    /\ \A k \in Sessions : off[k] \in {"offered", "answered"} => DialledBy(k[1], k)
    /\ \A c \in Callers : pc[c] \in {"send", "waiting"} => using[c] \in Sessions

\* The attempts that have got as far as sending.
Sent(c) == IF pc[c] \in {"waiting"} \cup Returned THEN att[c] ELSE att[c] - 1

\* The connections a message of c is still on its way on.
Undelivered(c) == {k \in Sessions : c \in reqs[k]}

\* Every message sent is delivered once, lost or still on its way.
Counted ==
    \A c \in Callers :
        /\ IsFiniteSet(Undelivered(c))
        /\ delivered[c] + Cardinality(Undelivered(c)) <= Sent(c)

\* A response is one to a message that was delivered.
Answered == \A k \in Sessions : \A c \in reps[k] : delivered[c] > 0

Conn == Stored /\ Stages /\ StoreSound /\ HealthyOwned

IInv == TypeOK /\ Conn /\ Counted /\ Answered

-----------------------------------------------------------------------------
\* The other org is an org; a session is not None and has a home.
LEMMA Basics ==
    /\ \A o \in Orgs : Peer(o) \in Orgs
    /\ None \notin Sessions
    /\ \A k \in Sessions : k[1] \in Callers /\ k[2] \in 1..MaxAttempts /\ k = <<k[1], k[2]>>
    /\ \A k \in Sessions : HomeOf(k) \in Orgs
    /\ \A k \in Sessions : Offer(k) \in Frames /\ Answer(k) \in Frames
<1>1. \A o \in Orgs : Peer(o) \in Orgs
    BY RelayAssumption DEF Peer
<1>2. None \notin Sessions
    BY RelayAssumption DEF Sessions
<1>3. \A k \in Sessions : k[1] \in Callers /\ k[2] \in 1..MaxAttempts /\ k = <<k[1], k[2]>>
    BY DEF Sessions
<1>4. \A k \in Sessions : HomeOf(k) \in Orgs
    BY <1>3, RelayAssumption DEF HomeOf
<1>5. \A k \in Sessions : Offer(k) \in Frames /\ Answer(k) \in Frames
    BY DEF Offer, Answer, Frames
<1> QED
    BY <1>1, <1>2, <1>3, <1>4, <1>5

\* The session an attempt dials.
LEMMA MineBasics ==
    ASSUME TypeOK, NEW c \in Callers
    PROVE  /\ Mine(c) \in Sessions /\ Mine(c)[1] = c /\ Mine(c)[2] = att[c]
           /\ HomeOf(Mine(c)) = Home[c] /\ Home[c] \in Orgs
           /\ \A d \in Callers : Mine(d) = Mine(c) => d = c
BY RelayAssumption DEF Mine, Sessions, TypeOK, HomeOf

\* Init
LEMMA InitIInv == Init => IInv
<1> SUFFICES ASSUME Init PROVE IInv
    OBVIOUS
<1> USE RelayAssumption DEF Init
<1>1. TypeOK
    BY DEF TypeOK
<1>2. Stored
    BY <1>1, Basics, MineBasics DEF Stored
<1>3. Stages
  <2>1. \A c \in Callers : \A n \in 1..MaxAttempts : off[<<c, n>>] = "none"
    BY DEF Sessions
  <2>2. \A c \in Callers : off[Mine(c)] = "none"
    BY <1>1, MineBasics
  <2> QED
    BY <2>1, <2>2 DEF Stages
<1>4. StoreSound /\ HealthyOwned /\ Answered
    BY DEF StoreSound, HealthyOwned, Answered
<1>5. \A c \in Callers : Undelivered(c) = {} /\ Sent(c) = 0 /\ delivered[c] = 0
    BY DEF Undelivered, Sent, Returned
<1>6. \A c \in Callers : IsFiniteSet(Undelivered(c)) /\ Cardinality(Undelivered(c)) = 0
    BY <1>5, FS_EmptySet
<1>7. Counted
    BY <1>5, <1>6 DEF Counted
<1> QED
    BY <1>1, <1>2, <1>3, <1>4, <1>7 DEF IInv, Conn

-----------------------------------------------------------------------------
\* What every operation does to the offerer's ends, said once: the ones in K
\* are closed, the others stay as they are.
LEMMA Closing ==
    ASSUME TypeOK, NEW K
    PROVE  /\ Close(K) \in [Sessions -> {"none", "offered", "answered", "open", "failed", "closed"}]
           /\ \A k \in Sessions : Close(K)[k] = IF k \in K THEN "closed" ELSE off[k]
           /\ Unread(K) \in [Sessions -> SUBSET Callers]
           /\ \A k \in Sessions : Unread(K)[k] \subseteq reps[k]
BY DEF Close, Unread, TypeOK


\* A transport failure keeps the types.
LEMMA FailType ==
    ASSUME TypeOK, NEW c \in Callers, NEW K, Fail(c, K),
           handler' \in [Sessions -> Callers \cup {None}], UNCHANGED reqs
    PROVE  TypeOK'
<1>1. off' \in [Sessions -> {"none", "offered", "answered", "open", "failed", "closed"}]
      /\ reps' \in [Sessions -> SUBSET Callers]
    BY Closing DEF Fail
<1>2. store' \in [Orgs -> Sessions \cup {None}] /\ using' \in [Callers -> Sessions \cup {None}]
    BY DEF Fail, TypeOK
<1>3. att' \in [Callers -> 1..MaxAttempts]
  <2>1. att \in [Callers -> 1..MaxAttempts] /\ att[c] \in 1..MaxAttempts
    BY DEF TypeOK
  <2>2. CASE att' = att
    BY <2>1, <2>2
  <2>3. CASE att[c] < MaxAttempts /\ att' = [att EXCEPT ![c] = @ + 1]
    <3>1. att[c] + 1 \in 1..MaxAttempts
      BY <2>1, <2>3, RelayAssumption
    <3> QED
      BY <2>1, <2>3, <3>1
  <2> QED
    BY <2>2, <2>3 DEF Fail
<1>4. pc' \in [Callers -> {"get", "polling", "opening", "send", "waiting"} \cup Returned]
    BY DEF Fail, TypeOK, Returned
<1> QED
    BY <1>1, <1>2, <1>3, <1>4 DEF Fail, TypeOK, mail

\* A message on its way has not been delivered as often as it was attempted.
LEMMA OnItsWay ==
    ASSUME TypeOK, Counted, NEW k \in Sessions, NEW c \in reqs[k]
    PROVE  c \in Callers /\ delivered[c] \in Nat /\ delivered[c] < att[c]
<1>1. c \in Callers
    BY DEF TypeOK
<1>2. att[c] \in 1..MaxAttempts /\ delivered[c] \in 0..MaxAttempts
    BY <1>1 DEF TypeOK
<1>3. k \in Undelivered(c) /\ IsFiniteSet(Undelivered(c))
    BY <1>1 DEF Undelivered, Counted
<1>4. Cardinality(Undelivered(c)) \in Nat /\ Cardinality(Undelivered(c)) # 0
    BY <1>3, FS_CardinalityType, FS_EmptySet
<1>5. delivered[c] + Cardinality(Undelivered(c)) <= Sent(c) /\ Sent(c) <= att[c] /\ Sent(c) \in Int
    BY <1>1, <1>2, RelayAssumption DEF Counted, Sent
<1> QED
    BY <1>1, <1>2, <1>4, <1>5, RelayAssumption

\* Every step keeps the types.
LEMMA TypeStep == IInv /\ [Next]_vars => TypeOK'
<1> SUFFICES ASSUME IInv, [Next]_vars PROVE TypeOK'
    OBVIOUS
<1>a. TypeOK /\ Stages /\ Counted
    BY DEF IInv, Conn
<1>1. ASSUME NEW c \in Callers, GetCached(c) PROVE TypeOK'
    BY <1>1, <1>a, RelayAssumption DEF GetCached, Healthy, TypeOK, mail, chanVars
<1>2. ASSUME NEW c \in Callers, GetStale(c) PROVE TypeOK'
  <2>1. Mine(c) \in Sessions /\ Home[c] \in Orgs /\ Peer(Home[c]) \in Orgs /\ Offer(Mine(c)) \in Frames
    BY <1>a, MineBasics, Basics
  <2>2. off' \in [Sessions -> {"none", "offered", "answered", "open", "failed", "closed"}]
    BY <1>2, <1>a, <2>1, Closing DEF GetStale
  <2>3. box' \in [Orgs -> SUBSET Frames]
    BY <1>2, <1>a, <2>1 DEF GetStale, TypeOK
  <2>4. store' \in [Orgs -> Sessions \cup {None}]
    BY <1>2, <1>a DEF GetStale, TypeOK
  <2> QED
    BY <1>2, <1>a, <2>2, <2>3, <2>4 DEF GetStale, TypeOK, chanVars
<1>3. ASSUME NEW c \in Callers, Poll(c) PROVE TypeOK'
  <2>1. Mine(c) \in Sessions
    BY <1>a, MineBasics
  <2>2. box' \in [Orgs -> SUBSET Frames]
    BY <1>3, <1>a DEF Poll, TypeOK
  <2>3. off' \in [Sessions -> {"none", "offered", "answered", "open", "failed", "closed"}]
        /\ pc' \in [Callers -> {"get", "polling", "opening", "send", "waiting"} \cup Returned]
    BY <1>3, <1>a, <2>1 DEF Poll, TypeOK
  <2> QED
    BY <1>3, <1>a, <2>2, <2>3 DEF Poll, TypeOK, chanVars
<1>4. ASSUME NEW c \in Callers, DialFails(c) PROVE TypeOK'
    BY <1>4, <1>a, FailType DEF DialFails, TypeOK
<1>5. ASSUME NEW c \in Callers, CacheNew(c) PROVE TypeOK'
    BY <1>5, <1>a, MineBasics DEF CacheNew, TypeOK, mail, chanVars
<1>6. ASSUME NEW c \in Callers, CacheLost(c) PROVE TypeOK'
  <2>1. off' \in [Sessions -> {"none", "offered", "answered", "open", "failed", "closed"}]
    BY <1>6, <1>a, Closing DEF CacheLost
  <2>2. using' \in [Callers -> Sessions \cup {None}]
        /\ pc' \in [Callers -> {"get", "polling", "opening", "send", "waiting"} \cup Returned]
    BY <1>6, <1>a, MineBasics DEF CacheLost, TypeOK
  <2> QED
    BY <1>6, <1>a, <2>1, <2>2 DEF CacheLost, TypeOK, mail, chanVars
<1>7. ASSUME NEW c \in Callers, Send(c) PROVE TypeOK'
  <2>1. handler' \in [Sessions -> Callers \cup {None}]
    BY <1>7, <1>a DEF Send, TypeOK
  <2>2. CASE off[using[c]] = "open"
    BY <1>7, <1>a, <2>1, <2>2 DEF Send, TypeOK, mail
  <2>3. CASE off[using[c]] # "open"
    BY <1>7, <1>a, <2>1, <2>3, FailType DEF Send
  <2> QED
    BY <2>2, <2>3
<1>8. ASSUME NEW c \in Callers, SendTimeout(c) PROVE TypeOK'
    BY <1>8, <1>a, FailType DEF SendTimeout, TypeOK
<1>9. ASSUME NEW o \in Orgs, AnswererPoll(o) PROVE TypeOK'
    BY <1>9, <1>a DEF AnswererPoll, TypeOK, chanVars
<1>10. ASSUME NEW o \in Orgs, NEW k \in Sessions, HandleOffer(o, k) \/ RefuseOffer(o, k) PROVE TypeOK'
  <2>1. HomeOf(k) \in Orgs /\ Answer(k) \in Frames
    BY Basics
  <2>2. box' \in [Orgs -> SUBSET Frames]
    BY <1>10, <1>a, <2>1 DEF HandleOffer, RefuseOffer, TypeOK
  <2> QED
    BY <1>10, <1>a, <2>2 DEF HandleOffer, RefuseOffer, TypeOK, chanVars
<1>11. ASSUME NEW o \in Orgs, NEW f \in Frames, LoseFrame(o, f) PROVE TypeOK'
    BY <1>11, <1>a DEF LoseFrame, TypeOK, chanVars
<1>12. ASSUME NEW k \in Sessions, Connect(k) \/ LinkFails(k) PROVE TypeOK'
  <2>1. CASE Connect(k)
    BY <2>1, <1>a DEF Connect, TypeOK, mail, chanVars
  <2>2. CASE LinkFails(k)
    BY <2>2, <1>a DEF LinkFails, TypeOK, mail, chanVars
  <2> QED
    BY <1>12, <2>1, <2>2
<1>13. ASSUME NEW k \in Sessions, NEW c \in Callers, Serve(k, c) PROVE TypeOK'
  <2>1. delivered[c] \in Nat /\ delivered[c] < att[c]
    BY <1>13, <1>a, OnItsWay DEF Serve
  <2>2. delivered' \in [Callers -> 0..MaxAttempts]
    BY <1>13, <1>a, <2>1, RelayAssumption DEF Serve, TypeOK
  <2> QED
    BY <1>13, <1>a, <2>2 DEF Serve, TypeOK, mail
<1>14. ASSUME NEW k \in Sessions, NEW c \in Callers, Receive(k, c) PROVE TypeOK'
    BY <1>14, <1>a DEF Receive, TypeOK, mail, Returned
<1>15. ASSUME UNCHANGED vars PROVE TypeOK'
    BY <1>15, <1>a DEF vars, mail, chanVars, TypeOK
<1> QED
    BY <1>1, <1>2, <1>3, <1>4, <1>5, <1>6, <1>7, <1>8, <1>9, <1>10, <1>11, <1>12, <1>13,
       <1>14, <1>15 DEF Next, CallerWork

-----------------------------------------------------------------------------
(* The connections                                                         *)

\* Nobody dials, gives up or changes the store: at most a message was sent or
\* answered.
Calm ==
    /\ UNCHANGED <<off, store, att, using>>
    /\ \A c \in Callers :
          \/ pc'[c] = pc[c]
          \/ pc[c] = "send" /\ pc'[c] = "waiting"
          \/ pc[c] = "waiting" /\ pc'[c] = "answered"

LEMMA CalmConn == ASSUME TypeOK, Conn, Calm PROVE Conn'
<1>1. \A c \in Callers : Mine(c)' = Mine(c)
    BY DEF Calm, Mine
<1>2. Stored'
    BY <1>1 DEF Conn, Stored, Calm, Dialling, HomeOf
<1>3. \A c \in Callers, k \in Sessions : DialledBy(c, k) => DialledBy(c, k)'
    BY <1>1 DEF DialledBy, Calm
<1>4. Stages'
    BY <1>1, <1>3, Basics DEF Conn, Stages, Calm
<1>5. StoreSound' /\ HealthyOwned'
    BY <1>3 DEF Conn, StoreSound, HealthyOwned, Calm, HomeOf
<1> QED
    BY <1>2, <1>4, <1>5 DEF Conn

\* The session of a caller that has not dialled or is dialling is not in a
\* store, and neither is one that was not dialled yet.
LEMMA NotStored ==
    ASSUME TypeOK, Conn, NEW o \in Orgs, store[o] # None
    PROVE  /\ store[o] \in Sessions /\ off[store[o]] \in {"open", "failed"}
           /\ HomeOf(store[o]) = o
           /\ \A c \in Callers : \A n \in 1..MaxAttempts : n > att[c] => store[o] # <<c, n>>
           /\ \A c \in Callers : pc[c] \in {"get"} \cup Dialling => store[o] # Mine(c)
<1>1. store[o] \in Sessions /\ off[store[o]] \in {"open", "failed"} /\ HomeOf(store[o]) = o
    BY DEF TypeOK, Conn, Stored, StoreSound
<1>2. \A c \in Callers : \A n \in 1..MaxAttempts : n > att[c] => store[o] # <<c, n>>
    BY <1>1 DEF Conn, Stages
<1> QED
    BY <1>1, <1>2 DEF Conn, Stored

\* A transport failure.  The failing call closes what it dials, if it dials.
LEMMA FailConn ==
    ASSUME TypeOK, TypeOK', Conn, NEW c \in Callers, NEW K, Fail(c, K),
           \/ pc[c] \in Dialling /\ K = {Mine(c)}
           \/ pc[c] \in {"send", "waiting"} /\ K = {}
    PROVE  Conn'
<1> DEFINE o == Home[c]
           Gone == K \cup {store[o]}
<1>0. o \in Orgs /\ Mine(c) \in Sessions /\ HomeOf(Mine(c)) = o
    BY MineBasics
<1>1. /\ \A k \in Sessions : off'[k] = IF k \in Gone THEN "closed" ELSE off[k]
      /\ store' = [store EXCEPT ![o] = None]
      /\ using' = [using EXCEPT ![c] = None]
    BY Closing DEF Fail
<1>2. \/ /\ att[c] < MaxAttempts /\ att' = [att EXCEPT ![c] = @ + 1]
         /\ pc' = [pc EXCEPT ![c] = "get"]
      \/ att' = att /\ pc' = [pc EXCEPT ![c] = "gaveUp"]
    BY DEF Fail
<1>3. \A d \in Callers : d # c => Mine(d)' = Mine(d) /\ pc'[d] = pc[d] /\ att'[d] = att[d]
    BY <1>2 DEF Mine, TypeOK
<1>4. pc'[c] \notin Dialling
    BY <1>2 DEF Dialling, TypeOK
<1>5. \A p \in Orgs : store'[p] # None => p # o /\ store'[p] = store[p]
    BY <1>1 DEF TypeOK
<1>6. pc'[c] = "get" => /\ Mine(c)' = <<c, att[c] + 1>> /\ att[c] + 1 \in 1..MaxAttempts
                        /\ att[c] + 1 > att[c]
    BY <1>2, RelayAssumption DEF Mine, TypeOK
<1>7. att'[c] >= att[c] /\ att[c] \in Nat
    BY <1>2, RelayAssumption DEF TypeOK
<1>8. \A k \in Sessions : off[k] = "none" /\ k # Mine(c) => k \notin Gone
    BY <1>0, NotStored, Basics
<1>9. Stored'
  <2>1. ASSUME NEW p \in Orgs, store'[p] # None PROVE HomeOf(store'[p]) = p
    BY <2>1, <1>5, NotStored
  <2>2. ASSUME NEW d \in Callers, pc'[d] \in {"get"} \cup Dialling, NEW p \in Orgs
        PROVE  store'[p] # Mine(d)'
    <3>1. CASE d = c
      BY <2>2, <3>1, <1>4, <1>5, <1>6, NotStored, Basics DEF Sessions
    <3>2. CASE d # c
      BY <2>2, <3>2, <1>3, <1>5, NotStored, Basics, MineBasics
    <3> QED
      BY <3>1, <3>2
  <2> QED
    BY <2>1, <2>2 DEF Stored, HomeOf, Dialling
<1>10. \A d \in Callers, k \in Sessions : DialledBy(d, k) /\ d # c => DialledBy(d, k)'
    BY <1>3 DEF DialledBy
<1>11. \A k \in Sessions : DialledBy(c, k) => k \in Gone
    BY DEF DialledBy
<1>12. Stages'
  <2>1. ASSUME NEW d \in Callers, NEW n \in 1..MaxAttempts, n > att'[d]
        PROVE  off'[<<d, n>>] = "none"
    <3>1. n > att[d] /\ <<d, n>> \in Sessions
      <4>1. att[d] \in 1..MaxAttempts /\ att'[d] \in 1..MaxAttempts
        BY DEF TypeOK
      <4>2. att'[d] >= att[d]
        BY <4>1, <1>3, <1>7, RelayAssumption
      <4> QED
        BY <2>1, <4>1, <4>2, RelayAssumption DEF Sessions
    <3>2. off[<<d, n>>] = "none" /\ <<d, n>> # Mine(c)
      BY <3>1 DEF Conn, Stages, Mine, TypeOK
    <3> QED
      BY <3>1, <3>2, <1>1, <1>8
  <2>2. ASSUME NEW d \in Callers, pc'[d] = "get" PROVE off'[Mine(d)'] = "none"
    <3>1. CASE d = c
      <4>1. Mine(c)' \in Sessions /\ off[Mine(c)'] = "none" /\ Mine(c)' # Mine(c)
        BY <2>2, <3>1, <1>6, <1>7 DEF Conn, Stages, Sessions, Mine
      <4> QED
        BY <3>1, <4>1, <1>1, <1>8
    <3>2. CASE d # c
      <4>1. Mine(d)' = Mine(d) /\ Mine(d) \in Sessions /\ off[Mine(d)] = "none" /\ Mine(d) # Mine(c)
        BY <2>2, <3>2, <1>3, MineBasics DEF Conn, Stages
      <4> QED
        BY <4>1, <1>1, <1>8
    <3> QED
      BY <3>1, <3>2
  <2>3. ASSUME NEW k \in Sessions, off'[k] \in {"offered", "answered"} PROVE DialledBy(k[1], k)'
    <3>1. k \notin Gone /\ DialledBy(k[1], k) /\ k[1] \in Callers
      BY <2>3, <1>1, Basics DEF Conn, Stages
    <3> QED
      BY <3>1, <1>10, <1>11
  <2>4. ASSUME NEW d \in Callers, pc'[d] \in {"send", "waiting"} PROVE using'[d] \in Sessions
    <3>1. d # c
      BY <2>4, <1>2 DEF TypeOK
    <3> QED
      BY <2>4, <3>1, <1>1, <1>3 DEF Conn, Stages, TypeOK
  <2> QED
    BY <2>1, <2>2, <2>3, <2>4 DEF Stages
<1>13. StoreSound'
  <2>1. ASSUME NEW p \in Orgs, store'[p] # None PROVE off'[store'[p]] \in {"open", "failed"}
    <3>1. p # o /\ store'[p] = store[p] /\ store[p] # None
      BY <2>1, <1>5
    <3>2. store[p] \in Sessions /\ HomeOf(store[p]) = p /\ off[store[p]] \in {"open", "failed"}
      BY <3>1, NotStored
    <3>3. store[p] # store[o] /\ store[p] \notin K
      BY <3>1, <3>2, <1>0, NotStored, Basics
    <3> QED
      BY <3>1, <3>2, <3>3, <1>1
  <2> QED
    BY <2>1 DEF StoreSound
<1>14. HealthyOwned'
  <2>1. ASSUME NEW k \in Sessions, off'[k] = "open"
        PROVE  store'[HomeOf(k)] = k \/ \E d \in Callers : DialledBy(d, k)'
    <3>1. k \notin Gone /\ off[k] = "open" /\ HomeOf(k) \in Orgs
      BY <2>1, <1>1, Basics
    <3>2. CASE store[HomeOf(k)] = k
      BY <3>1, <3>2, <1>1 DEF TypeOK
    <3>3. CASE \E d \in Callers : DialledBy(d, k)
      BY <3>1, <3>3, <1>10, <1>11
    <3> QED
      BY <3>1, <3>2, <3>3 DEF Conn, HealthyOwned
  <2> QED
    BY <2>1 DEF HealthyOwned, HomeOf
<1> QED
    BY <1>9, <1>12, <1>13, <1>14 DEF Conn

\* Every step keeps what is said of the connections.
LEMMA ConnStep == IInv /\ TypeOK' /\ [Next]_vars => Conn'
<1> SUFFICES ASSUME IInv, TypeOK', [Next]_vars PROVE Conn'
    OBVIOUS
<1>a. TypeOK /\ Conn
    BY DEF IInv
<1>1. ASSUME NEW c \in Callers, GetCached(c) PROVE Conn'
  <2>1. /\ UNCHANGED <<off, store, att>> /\ pc[c] = "get" /\ pc' = [pc EXCEPT ![c] = "send"]
        /\ using' = [using EXCEPT ![c] = store[Home[c]]] /\ store[Home[c]] # None
    BY <1>1 DEF GetCached, Healthy
  <2>2. store[Home[c]] \in Sessions
    BY <1>a, <2>1, MineBasics DEF TypeOK
  <2>3. \A d \in Callers : Mine(d)' = Mine(d)
    BY <2>1 DEF Mine
  <2>4. \A d \in Callers, k \in Sessions : DialledBy(d, k) <=> DialledBy(d, k)'
    BY <1>a, <2>1, <2>3 DEF DialledBy, TypeOK
  <2>5. Stored'
    BY <1>a, <2>1, <2>3 DEF Conn, Stored, HomeOf, Dialling, TypeOK
  <2>6. Stages'
    BY <1>a, <2>1, <2>2, <2>3, <2>4, Basics DEF Conn, Stages, TypeOK
  <2>7. StoreSound' /\ HealthyOwned'
    BY <1>a, <2>1, <2>4 DEF Conn, StoreSound, HealthyOwned, HomeOf
  <2> QED
    BY <2>5, <2>6, <2>7 DEF Conn
<1>2. ASSUME NEW c \in Callers, GetStale(c) PROVE Conn'
  <2> DEFINE o == Home[c]
             k0 == Mine(c)
  <2>1. o \in Orgs /\ k0 \in Sessions /\ HomeOf(k0) = o /\ pc[c] = "get" /\ k0[1] = c
    BY <1>a, <1>2, MineBasics DEF GetStale
  <2>2. /\ \A k \in Sessions : off'[k] = IF k = k0 THEN "offered"
                                         ELSE IF k = store[o] THEN "closed" ELSE off[k]
        /\ store' = [store EXCEPT ![o] = None] /\ pc' = [pc EXCEPT ![c] = "polling"]
        /\ UNCHANGED <<att, using>>
    BY <1>a, <1>2, <2>1, Closing DEF GetStale
  <2>3. \A d \in Callers : Mine(d)' = Mine(d) /\ (d # c => Mine(d) # k0)
    BY <1>a, <2>2, MineBasics DEF Mine
  <2>4. \A p \in Orgs : store'[p] # None => p # o /\ store'[p] = store[p]
    BY <1>a, <2>2 DEF TypeOK
  <2>5. \A d \in Callers, k \in Sessions : DialledBy(d, k) => d # c /\ DialledBy(d, k)'
    BY <1>a, <2>1, <2>2, <2>3 DEF DialledBy, TypeOK
  <2>6. \A k \in Sessions : k = k0 => DialledBy(c, k)'
    BY <1>a, <2>2, <2>3 DEF DialledBy, TypeOK
  <2>7. \A k \in Sessions : off[k] = "none" => k # store[o]
    BY <1>a, <2>1, NotStored, Basics
  <2>8. Stored'
    BY <1>a, <2>1, <2>2, <2>3, <2>4, MineBasics, Basics DEF Conn, Stored, HomeOf, Dialling, TypeOK
  <2>9. Stages'
    <3>1. ASSUME NEW d \in Callers, NEW n \in 1..MaxAttempts, n > att'[d] PROVE off'[<<d, n>>] = "none"
      <4>1. <<d, n>> \in Sessions /\ off[<<d, n>>] = "none"
        BY <1>a, <2>2, <3>1 DEF Conn, Stages, Sessions
      <4>2. <<d, n>> # k0
        BY <1>a, <2>2, <3>1, RelayAssumption DEF Mine, TypeOK
      <4> QED
        BY <4>1, <4>2, <2>2, <2>7
    <3>2. ASSUME NEW d \in Callers, pc'[d] = "get" PROVE off'[Mine(d)'] = "none"
      <4>1. d # c /\ pc[d] = "get" /\ Mine(d) \in Sessions /\ off[Mine(d)] = "none"
        BY <1>a, <2>1, <2>2, <3>2, MineBasics DEF Conn, Stages, TypeOK
      <4> QED
        BY <4>1, <2>2, <2>3, <2>7
    <3>3. ASSUME NEW k \in Sessions, off'[k] \in {"offered", "answered"} PROVE DialledBy(k[1], k)'
      <4>1. CASE k = k0
        BY <2>1, <2>6, <4>1
      <4>2. CASE k # k0
        BY <1>a, <4>2, <3>3, <2>2, <2>5, Basics DEF Conn, Stages
      <4> QED
        BY <4>1, <4>2
    <3>4. ASSUME NEW d \in Callers, pc'[d] \in {"send", "waiting"} PROVE using'[d] \in Sessions
      BY <1>a, <3>4, <2>2 DEF Conn, Stages, TypeOK
    <3> QED
      BY <3>1, <3>2, <3>3, <3>4 DEF Stages
  <2>10. StoreSound'
    <3>1. ASSUME NEW p \in Orgs, store'[p] # None PROVE off'[store'[p]] \in {"open", "failed"}
      <4>1. p # o /\ store'[p] = store[p] /\ store[p] \in Sessions /\ HomeOf(store[p]) = p
            /\ off[store[p]] \in {"open", "failed"} /\ store[p] # k0
        BY <1>a, <2>1, <2>4, <3>1, NotStored
      <4>2. store[p] # store[o]
        BY <1>a, <2>1, <4>1, NotStored, Basics
      <4> QED
        BY <4>1, <4>2, <2>2
    <3> QED
      BY <3>1 DEF StoreSound
  <2>11. HealthyOwned'
    <3>1. ASSUME NEW k \in Sessions, off'[k] = "open"
          PROVE  store'[HomeOf(k)] = k \/ \E d \in Callers : DialledBy(d, k)'
      <4>1. k # store[o] /\ off[k] = "open" /\ HomeOf(k) \in Orgs
        BY <3>1, <2>2, Basics
      <4>2. CASE store[HomeOf(k)] = k
        <5>1. HomeOf(k) # o
          BY <4>1, <4>2
        <5>2. store'[HomeOf(k)] = store[HomeOf(k)]
          BY <1>a, <4>1, <5>1, <2>2 DEF TypeOK
        <5> QED
          BY <4>2, <5>2
      <4>3. CASE \E d \in Callers : DialledBy(d, k)
        BY <4>3, <2>5
      <4> QED
        BY <1>a, <4>1, <4>2, <4>3 DEF Conn, HealthyOwned
    <3> QED
      BY <3>1 DEF HealthyOwned, HomeOf
  <2> QED
    BY <2>8, <2>9, <2>10, <2>11 DEF Conn
<1>3. ASSUME NEW c \in Callers, Poll(c) PROVE Conn'
  <2>1. CASE Answer(Mine(c)) \notin box[Home[c]]
    <3>1. Calm
      BY <1>3, <2>1 DEF Poll, Calm
    <3> QED
      BY <1>a, <3>1, CalmConn
  <2>2. CASE Answer(Mine(c)) \in box[Home[c]]
    <3>1. /\ pc[c] = "polling" /\ pc' = [pc EXCEPT ![c] = "opening"]
          /\ off' = [off EXCEPT ![Mine(c)] = "answered"] /\ UNCHANGED <<store, att, using>>
      BY <1>3, <2>2 DEF Poll
    <3>2. \A d \in Callers : /\ Mine(d)' = Mine(d) /\ Mine(d) \in Sessions
                             /\ d # c => Mine(d) # Mine(c)
      BY <1>a, <3>1, MineBasics DEF Mine
    <3>3. \A d \in Callers, k \in Sessions : DialledBy(d, k) => DialledBy(d, k)'
      BY <1>a, <3>1, <3>2 DEF DialledBy, TypeOK
    <3>4. Stored'
      BY <1>a, <3>1, <3>2 DEF Conn, Stored, HomeOf, Dialling, TypeOK
    <3>5. Stages'
      <4>1. ASSUME NEW d \in Callers, NEW n \in 1..MaxAttempts, n > att'[d] PROVE off'[<<d, n>>] = "none"
        <5>1. <<d, n>> # Mine(c)
          BY <1>a, <3>1, <4>1, RelayAssumption DEF Mine, TypeOK
        <5> QED
          BY <1>a, <3>1, <4>1, <5>1 DEF Conn, Stages, TypeOK, Sessions
      <4>2. ASSUME NEW d \in Callers, pc'[d] = "get" PROVE off'[Mine(d)'] = "none"
        BY <1>a, <3>1, <3>2, <4>2 DEF Conn, Stages, TypeOK
      <4>3. DialledBy(c, Mine(c)) /\ Mine(c)[1] = c
        BY <1>a, <3>1, MineBasics DEF DialledBy
      <4>4. ASSUME NEW k \in Sessions, off'[k] \in {"offered", "answered"} PROVE DialledBy(k[1], k)'
        BY <1>a, <3>1, <3>2, <3>3, <4>3, <4>4, Basics DEF Conn, Stages, TypeOK
      <4>5. ASSUME NEW d \in Callers, pc'[d] \in {"send", "waiting"} PROVE using'[d] \in Sessions
        BY <1>a, <3>1, <4>5 DEF Conn, Stages, TypeOK
      <4> QED
        BY <4>1, <4>2, <4>4, <4>5 DEF Stages
    <3>6. StoreSound'
      BY <1>a, <3>1, <3>2, NotStored DEF StoreSound, TypeOK, Dialling
    <3>7. HealthyOwned'
      BY <1>a, <3>1, <3>2, <3>3 DEF Conn, HealthyOwned, HomeOf, TypeOK
    <3> QED
      BY <3>4, <3>5, <3>6, <3>7 DEF Conn
  <2> QED
    BY <2>1, <2>2
<1>4. ASSUME NEW c \in Callers, DialFails(c) PROVE Conn'
    BY <1>a, <1>4, FailConn DEF DialFails, Dialling
<1>5. ASSUME NEW c \in Callers, CacheNew(c) PROVE Conn'
  <2> DEFINE o == Home[c]
             k0 == Mine(c)
  <2>1. /\ pc[c] = "opening" /\ off[k0] \in {"open", "failed"} /\ ~Healthy(store[o])
        /\ store' = [store EXCEPT ![o] = k0] /\ using' = [using EXCEPT ![c] = k0]
        /\ pc' = [pc EXCEPT ![c] = "send"] /\ UNCHANGED <<off, att>>
    BY <1>5 DEF CacheNew, HasOpened
  <2>2. o \in Orgs /\ k0 \in Sessions /\ HomeOf(k0) = o /\ k0 # None
    BY <1>a, MineBasics, Basics
  <2>3. \A d \in Callers : Mine(d)' = Mine(d) /\ (d # c => Mine(d) # k0)
    BY <1>a, <2>1, MineBasics DEF Mine
  <2>4. \A d \in Callers, k \in Sessions : DialledBy(d, k) => k = k0 \/ DialledBy(d, k)'
    BY <1>a, <2>1, <2>3 DEF DialledBy, TypeOK
  <2>5. Stored'
    BY <1>a, <2>1, <2>2, <2>3 DEF Conn, Stored, HomeOf, Dialling, TypeOK
  <2>6. Stages'
    BY <1>a, <2>1, <2>2, <2>3, <2>4, Basics DEF Conn, Stages, TypeOK
  <2>7. StoreSound'
    BY <1>a, <2>1, <2>2 DEF Conn, StoreSound, TypeOK
  <2>8. HealthyOwned'
    <3>1. ASSUME NEW k \in Sessions, off'[k] = "open", k # k0
          PROVE  store'[HomeOf(k)] = k \/ \E d \in Callers : DialledBy(d, k)'
      <4>1. CASE store[HomeOf(k)] = k
        <5>1. HomeOf(k) # o /\ HomeOf(k) \in Orgs
          BY <3>1, <4>1, <2>1, Basics DEF Healthy
        <5> QED
          BY <1>a, <4>1, <5>1, <2>1 DEF TypeOK
      <4>2. CASE \E d \in Callers : DialledBy(d, k)
        BY <4>2, <3>1, <2>4
      <4> QED
        BY <1>a, <3>1, <2>1, <4>1, <4>2 DEF Conn, HealthyOwned
    <3>2. store'[HomeOf(k0)] = k0
      BY <1>a, <2>1, <2>2 DEF TypeOK
    <3> QED
      BY <3>1, <3>2 DEF HealthyOwned, HomeOf
  <2> QED
    BY <2>5, <2>6, <2>7, <2>8 DEF Conn
<1>6. ASSUME NEW c \in Callers, CacheLost(c) PROVE Conn'
  <2> DEFINE o == Home[c]
             k0 == Mine(c)
  <2>1. /\ pc[c] = "opening" /\ store[o] # None
        /\ \A k \in Sessions : off'[k] = IF k = k0 THEN "closed" ELSE off[k]
        /\ using' = [using EXCEPT ![c] = store[o]]
        /\ pc' = [pc EXCEPT ![c] = "send"] /\ UNCHANGED <<store, att>>
    BY <1>a, <1>6, Closing DEF CacheLost, HasOpened, Healthy
  <2>2. o \in Orgs /\ k0 \in Sessions /\ store[o] \in Sessions
    BY <1>a, <2>1, MineBasics, NotStored
  <2>3. \A d \in Callers : /\ Mine(d)' = Mine(d) /\ Mine(d) \in Sessions
                           /\ d # c => Mine(d) # k0
    BY <1>a, <2>1, MineBasics DEF Mine
  <2>4. \A d \in Callers, k \in Sessions : DialledBy(d, k) => k = k0 \/ DialledBy(d, k)'
    BY <1>a, <2>1, <2>3 DEF DialledBy, TypeOK
  <2>5. Stored'
    BY <1>a, <2>1, <2>2, <2>3 DEF Conn, Stored, HomeOf, Dialling, TypeOK
  <2>6. Stages'
    <3>1. ASSUME NEW d \in Callers, NEW n \in 1..MaxAttempts, n > att'[d] PROVE off'[<<d, n>>] = "none"
      <4>1. <<d, n>> # k0 /\ <<d, n>> \in Sessions
        BY <1>a, <2>1, <3>1, RelayAssumption DEF Mine, TypeOK, Sessions
      <4> QED
        BY <1>a, <2>1, <3>1, <4>1 DEF Conn, Stages
    <3>2. ASSUME NEW d \in Callers, pc'[d] = "get" PROVE off'[Mine(d)'] = "none"
      BY <1>a, <2>1, <2>3, <3>2 DEF Conn, Stages, TypeOK
    <3>3. ASSUME NEW k \in Sessions, off'[k] \in {"offered", "answered"} PROVE DialledBy(k[1], k)'
      BY <1>a, <2>1, <2>4, <3>3, Basics DEF Conn, Stages
    <3>4. ASSUME NEW d \in Callers, pc'[d] \in {"send", "waiting"} PROVE using'[d] \in Sessions
      BY <1>a, <2>1, <2>2, <3>4 DEF Conn, Stages, TypeOK
    <3> QED
      BY <3>1, <3>2, <3>3, <3>4 DEF Stages
  <2>7. StoreSound'
    BY <1>a, <2>1, <2>2, NotStored DEF StoreSound, Dialling
  <2>8. HealthyOwned'
    BY <1>a, <2>1, <2>4 DEF Conn, HealthyOwned, HomeOf
  <2> QED
    BY <2>5, <2>6, <2>7, <2>8 DEF Conn
<1>7. ASSUME NEW c \in Callers, Send(c) PROVE Conn'
  <2>1. CASE off[using[c]] = "open"
    <3>1. Calm
      BY <1>a, <1>7, <2>1 DEF Send, Calm, TypeOK
    <3> QED
      BY <1>a, <3>1, CalmConn
  <2>2. CASE off[using[c]] # "open"
    BY <1>a, <1>7, <2>2, FailConn DEF Send
  <2> QED
    BY <2>1, <2>2
<1>8. ASSUME NEW c \in Callers, SendTimeout(c) PROVE Conn'
    BY <1>a, <1>8, FailConn DEF SendTimeout
<1>10. ASSUME NEW k \in Sessions, Connect(k) \/ LinkFails(k) PROVE Conn'
  <2>1. /\ UNCHANGED <<store, pc, att, using>>
        /\ \/ off[k] = "answered" /\ off' = [off EXCEPT ![k] = "open"]
           \/ off[k] = "open" /\ off' = [off EXCEPT ![k] = "failed"]
    BY <1>10 DEF Connect, LinkFails
  <2>2. \A d \in Callers : Mine(d)' = Mine(d) /\ Mine(d) \in Sessions
    BY <1>a, <2>1, MineBasics DEF Mine
  <2>3. \A d \in Callers, j \in Sessions : DialledBy(d, j) => DialledBy(d, j)'
    BY <2>1, <2>2 DEF DialledBy
  <2>4. Stored'
    BY <1>a, <2>1, <2>2 DEF Conn, Stored, HomeOf
  <2>5. Stages'
    <3>1. \A j \in Sessions : off[j] = "none" => off'[j] = "none"
      BY <1>a, <2>1 DEF TypeOK
    <3>2. \A j \in Sessions : off'[j] \in {"offered", "answered"} => off'[j] = off[j]
      BY <1>a, <2>1 DEF TypeOK
    <3>3. \A d \in Callers : \A n \in 1..MaxAttempts : <<d, n>> \in Sessions
      BY DEF Sessions
    <3> QED
      BY <1>a, <2>1, <2>2, <2>3, <3>1, <3>2, <3>3, Basics DEF Conn, Stages
  <2>6. StoreSound'
    BY <1>a, <2>1 DEF Conn, StoreSound, TypeOK
  <2>7. HealthyOwned'
    <3>1. \A j \in Sessions : off'[j] = "open" => off[j] = "open" \/ DialledBy(j[1], j)
      BY <1>a, <2>1 DEF Conn, Stages, TypeOK
    <3> QED
      BY <1>a, <2>1, <2>3, <3>1, Basics DEF Conn, HealthyOwned, HomeOf
  <2> QED
    BY <2>4, <2>5, <2>6, <2>7 DEF Conn
<1>11. ASSUME NEW k \in Sessions, NEW c \in Callers, Serve(k, c) \/ Receive(k, c) PROVE Conn'
  <2>1. Calm
    BY <1>a, <1>11 DEF Serve, Receive, Calm, TypeOK
  <2> QED
    BY <1>a, <2>1, CalmConn
<1>12. ASSUME UNCHANGED vars PROVE Conn'
  <2>1. Calm
    BY <1>12 DEF vars, Calm
  <2> QED
    BY <1>a, <2>1, CalmConn
<1>13. ASSUME NEW o \in Orgs, AnswererPoll(o) PROVE Conn'
  <2>1. Calm
    BY <1>13 DEF AnswererPoll, Calm
  <2> QED
    BY <1>a, <2>1, CalmConn
<1>14. ASSUME NEW o \in Orgs, NEW k \in Sessions, HandleOffer(o, k) \/ RefuseOffer(o, k) PROVE Conn'
  <2>1. Calm
    BY <1>14 DEF HandleOffer, RefuseOffer, Calm
  <2> QED
    BY <1>a, <2>1, CalmConn
<1>15. ASSUME NEW o \in Orgs, NEW f \in Frames, LoseFrame(o, f) PROVE Conn'
  <2>1. Calm
    BY <1>15 DEF LoseFrame, Calm
  <2> QED
    BY <1>a, <2>1, CalmConn
<1> QED
    BY <1>1, <1>2, <1>3, <1>4, <1>5, <1>6, <1>7, <1>8, <1>10, <1>11, <1>12, <1>13, <1>14, <1>15
    DEF Next, CallerWork

-----------------------------------------------------------------------------
(* The messages                                                            *)

\* The attempts sent never shrink when a call moves on this way.
Onward ==
    \A c \in Callers :
        \/ att'[c] = att[c] /\ (pc[c] \in {"waiting"} \cup Returned => pc'[c] \in {"waiting"} \cup Returned)
        \/ att'[c] = att[c] + 1

LEMMA SentGrows ==
    ASSUME TypeOK, TypeOK', Onward, NEW c \in Callers
    PROVE  Sent(c) \in Int /\ Sent(c)' \in Int /\ Sent(c) <= Sent(c)'
<1>1. att[c] \in Int /\ att'[c] \in Int
    BY RelayAssumption DEF TypeOK
<1>2. CASE att'[c] = att[c] /\ (pc[c] \in {"waiting"} \cup Returned => pc'[c] \in {"waiting"} \cup Returned)
    BY <1>1, <1>2 DEF Sent
<1>3. CASE att'[c] = att[c] + 1
    BY <1>1, <1>3 DEF Sent
<1> QED
    BY <1>2, <1>3 DEF Onward

\* No message is sent or delivered, though some may be lost.
LEMMA LostCounted ==
    ASSUME TypeOK, TypeOK', Counted, Onward, UNCHANGED delivered,
           \A k \in Sessions : reqs'[k] \subseteq reqs[k]
    PROVE  Counted'
<1> SUFFICES ASSUME NEW c \in Callers
             PROVE  /\ IsFiniteSet(Undelivered(c)')
                    /\ delivered'[c] + Cardinality(Undelivered(c)') <= Sent(c)'
    BY DEF Counted
<1>1. Undelivered(c)' \subseteq Undelivered(c)
    BY DEF Undelivered
<1>2. IsFiniteSet(Undelivered(c)) /\ delivered[c] + Cardinality(Undelivered(c)) <= Sent(c)
    BY DEF Counted
<1>3. IsFiniteSet(Undelivered(c)') /\ Cardinality(Undelivered(c)') <= Cardinality(Undelivered(c))
    BY <1>1, <1>2, FS_Subset
<1>4. Cardinality(Undelivered(c)) \in Nat /\ Cardinality(Undelivered(c)') \in Nat /\ delivered[c] \in Nat
    BY <1>2, <1>3, FS_CardinalityType DEF TypeOK
<1> QED
    BY <1>2, <1>3, <1>4, SentGrows

\* Messages are sent once per attempt and delivered once each.
LEMMA CountedStep == IInv /\ TypeOK' /\ [Next]_vars => Counted'
<1> SUFFICES ASSUME IInv, TypeOK', [Next]_vars PROVE Counted'
    OBVIOUS
<1>a. TypeOK /\ Counted /\ Stages
    BY DEF IInv, Conn
<1>b. ASSUME NEW c \in Callers, NEW K, Fail(c, K), pc[c] \notin Returned PROVE Onward
  <2>1. ASSUME NEW d \in Callers, d # c PROVE att'[d] = att[d] /\ pc'[d] = pc[d]
    BY <1>a, <1>b, <2>1 DEF Fail, TypeOK
  <2>2. att'[c] = att[c] + 1 \/ (att'[c] = att[c] /\ pc'[c] \in Returned)
    BY <1>a, <1>b DEF Fail, TypeOK, Returned
  <2> QED
    BY <2>1, <2>2 DEF Onward
<1>1. ASSUME NEW c \in Callers, GetCached(c) \/ GetStale(c) \/ Poll(c) \/ CacheNew(c) \/ CacheLost(c)
      PROVE  Counted'
  <2>1. UNCHANGED <<att, delivered, reqs>>
    BY <1>1 DEF GetCached, GetStale, Poll, CacheNew, CacheLost, chanVars
  <2>2. \A d \in Callers : pc'[d] = pc[d] \/ pc[d] \notin {"waiting"} \cup Returned
    BY <1>a, <1>1 DEF GetCached, GetStale, Poll, CacheNew, CacheLost, HasOpened, TypeOK, Returned
  <2>3. Onward
    BY <2>1, <2>2 DEF Onward
  <2> QED
    BY <1>a, <2>1, <2>3, LostCounted
<1>2. ASSUME NEW c \in Callers, DialFails(c) \/ SendTimeout(c) PROVE Counted'
  <2>1. Onward
    BY <1>b, <1>2 DEF DialFails, SendTimeout, Returned
  <2>2. UNCHANGED <<delivered, reqs>>
    BY <1>2 DEF DialFails, SendTimeout, Fail
  <2> QED
    BY <1>a, <2>1, <2>2, LostCounted
<1>3. ASSUME NEW c \in Callers, Send(c) PROVE Counted'
  <2>1. CASE off[using[c]] # "open"
    <3>1. Onward
      BY <1>b, <1>3, <2>1 DEF Send, Returned
    <3>2. UNCHANGED <<delivered, reqs>>
      BY <1>3, <2>1 DEF Send, Fail
    <3> QED
      BY <1>a, <3>1, <3>2, LostCounted
  <2>2. CASE off[using[c]] = "open"
    <3>1. /\ pc[c] = "send" /\ pc' = [pc EXCEPT ![c] = "waiting"] /\ UNCHANGED <<att, delivered>>
          /\ reqs' = [reqs EXCEPT ![using[c]] = @ \cup {c}] /\ using[c] \in Sessions
      BY <1>a, <1>3, <2>2 DEF Send, Stages
    <3>2. SUFFICES ASSUME NEW d \in Callers
                   PROVE  /\ IsFiniteSet(Undelivered(d)')
                          /\ delivered'[d] + Cardinality(Undelivered(d)') <= Sent(d)'
      BY DEF Counted
    <3>3. /\ IsFiniteSet(Undelivered(d)) /\ delivered[d] + Cardinality(Undelivered(d)) <= Sent(d)
          /\ delivered[d] \in Nat /\ att[d] \in Int
      BY <1>a, RelayAssumption DEF Counted, TypeOK
    <3>4. CASE d = c
      <4>1. Undelivered(d)' = Undelivered(d) \cup {using[c]}
        BY <1>a, <3>1, <3>4 DEF Undelivered, TypeOK
      <4>2. /\ IsFiniteSet(Undelivered(d)')
            /\ \/ Cardinality(Undelivered(d)') = Cardinality(Undelivered(d))
               \/ Cardinality(Undelivered(d)') = Cardinality(Undelivered(d)) + 1
        BY <3>3, <4>1, FS_AddElement
      <4>3. Cardinality(Undelivered(d)) \in Nat
        BY <3>3, FS_CardinalityType
      <4>4. Sent(d) = att[d] - 1 /\ Sent(d)' = att[d]
        BY <1>a, <3>1, <3>4 DEF Sent, Returned, TypeOK
      <4> QED
        BY <3>1, <3>3, <4>2, <4>3, <4>4
    <3>5. CASE d # c
      <4>1. Undelivered(d)' = Undelivered(d)
        BY <1>a, <3>1, <3>5 DEF Undelivered, TypeOK
      <4>2. Sent(d)' = Sent(d)
        BY <1>a, <3>1, <3>5 DEF Sent, TypeOK
      <4> QED
        BY <3>1, <3>3, <4>1, <4>2
    <3> QED
      BY <3>4, <3>5
  <2> QED
    BY <2>1, <2>2
<1>4. ASSUME NEW o \in Orgs, AnswererPoll(o) PROVE Counted'
  <2>1. UNCHANGED <<att, pc, delivered, reqs>>
    BY <1>4 DEF AnswererPoll, chanVars
  <2> QED
    BY <1>a, <2>1, LostCounted DEF Onward
<1>5. ASSUME NEW o \in Orgs, NEW k \in Sessions, HandleOffer(o, k) \/ RefuseOffer(o, k) PROVE Counted'
  <2>1. UNCHANGED <<att, pc, delivered, reqs>>
    BY <1>5 DEF HandleOffer, RefuseOffer, chanVars
  <2> QED
    BY <1>a, <2>1, LostCounted DEF Onward
<1>6. ASSUME NEW o \in Orgs, NEW f \in Frames, LoseFrame(o, f) PROVE Counted'
  <2>1. UNCHANGED <<att, pc, delivered, reqs>>
    BY <1>6 DEF LoseFrame, chanVars
  <2> QED
    BY <1>a, <2>1, LostCounted DEF Onward
<1>7. ASSUME NEW k \in Sessions, Connect(k) \/ LinkFails(k) PROVE Counted'
  <2>1. UNCHANGED <<att, pc, delivered>> /\ \A j \in Sessions : reqs'[j] \subseteq reqs[j]
    BY <1>a, <1>7 DEF Connect, LinkFails, chanVars, TypeOK
  <2> QED
    BY <1>a, <2>1, LostCounted DEF Onward
<1>8. ASSUME NEW k \in Sessions, NEW c \in Callers, Receive(k, c) PROVE Counted'
  <2>1. /\ UNCHANGED <<att, delivered, reqs>>
        /\ \A d \in Callers : pc'[d] = pc[d] \/ pc'[d] = "answered"
    BY <1>a, <1>8 DEF Receive, TypeOK
  <2> QED
    BY <1>a, <2>1, LostCounted DEF Onward, Returned
<1>9. ASSUME NEW k \in Sessions, NEW c \in Callers, Serve(k, c) PROVE Counted'
  <2>1. /\ c \in reqs[k] /\ reqs' = [reqs EXCEPT ![k] = @ \ {c}]
        /\ delivered' = [delivered EXCEPT ![c] = @ + 1] /\ UNCHANGED <<pc, att>>
    BY <1>9 DEF Serve
  <2>2. SUFFICES ASSUME NEW d \in Callers
                 PROVE  /\ IsFiniteSet(Undelivered(d)')
                        /\ delivered'[d] + Cardinality(Undelivered(d)') <= Sent(d)'
    BY DEF Counted
  <2>3. /\ IsFiniteSet(Undelivered(d)) /\ delivered[d] + Cardinality(Undelivered(d)) <= Sent(d)
        /\ delivered[d] \in Nat /\ Sent(d)' = Sent(d) /\ Sent(d) \in Int
    BY <1>a, <2>1, RelayAssumption DEF Counted, TypeOK, Sent
  <2>4. CASE d = c
    <3>1. k \in Undelivered(d) /\ Undelivered(d)' = Undelivered(d) \ {k}
      BY <1>a, <2>1, <2>4 DEF Undelivered, TypeOK
    <3>2. IsFiniteSet(Undelivered(d)') /\ Cardinality(Undelivered(d)') = Cardinality(Undelivered(d)) - 1
      BY <2>3, <3>1, FS_RemoveElement
    <3>3. Cardinality(Undelivered(d)) \in Nat /\ delivered'[d] = delivered[d] + 1
      BY <1>a, <2>1, <2>3, <2>4, FS_CardinalityType DEF TypeOK
    <3> QED
      BY <2>3, <3>2, <3>3
  <2>5. CASE d # c
    <3>1. Undelivered(d)' = Undelivered(d) /\ delivered'[d] = delivered[d]
      BY <1>a, <2>1, <2>5 DEF Undelivered, TypeOK
    <3> QED
      BY <2>3, <3>1
  <2> QED
    BY <2>4, <2>5
<1>10. ASSUME UNCHANGED vars PROVE Counted'
    BY <1>a, <1>10, LostCounted DEF Onward, vars, chanVars
<1> QED
    BY <1>1, <1>2, <1>3, <1>4, <1>5, <1>6, <1>7, <1>8, <1>9, <1>10 DEF Next, CallerWork

\* A response is only made by serving a message, and a count never falls.
LEMMA AnsweredStep == IInv /\ TypeOK' /\ [Next]_vars => Answered'
<1> SUFFICES ASSUME IInv, TypeOK', [Next]_vars PROVE Answered'
    OBVIOUS
<1>a. TypeOK /\ Answered
    BY DEF IInv
<1>b. ASSUME UNCHANGED delivered, \A k \in Sessions : reps'[k] \subseteq reps[k] PROVE Answered'
    BY <1>a, <1>b DEF Answered
<1>c. ASSUME NEW c \in Callers, NEW K, Fail(c, K) PROVE Answered'
    BY <1>a, <1>b, <1>c, Closing DEF Fail
<1>1. ASSUME NEW c \in Callers, GetCached(c) \/ GetStale(c) \/ Poll(c) \/ CacheNew(c) \/ CacheLost(c)
      PROVE  Answered'
    BY <1>b, <1>1 DEF GetCached, GetStale, Poll, CacheNew, CacheLost, chanVars
<1>2. ASSUME NEW c \in Callers, DialFails(c) \/ SendTimeout(c) PROVE Answered'
    BY <1>c, <1>2 DEF DialFails, SendTimeout
<1>3. ASSUME NEW c \in Callers, Send(c) PROVE Answered'
  <2>1. CASE off[using[c]] # "open"
    BY <1>c, <1>3, <2>1 DEF Send
  <2>2. CASE off[using[c]] = "open"
    BY <1>b, <1>3, <2>2 DEF Send
  <2> QED
    BY <2>1, <2>2
<1>4. ASSUME NEW o \in Orgs, AnswererPoll(o) PROVE Answered'
    BY <1>b, <1>4 DEF AnswererPoll, chanVars
<1>5. ASSUME NEW o \in Orgs, NEW k \in Sessions, HandleOffer(o, k) \/ RefuseOffer(o, k) PROVE Answered'
    BY <1>b, <1>5 DEF HandleOffer, RefuseOffer, chanVars
<1>6. ASSUME NEW o \in Orgs, NEW f \in Frames, LoseFrame(o, f) PROVE Answered'
    BY <1>b, <1>6 DEF LoseFrame, chanVars
<1>7. ASSUME NEW k \in Sessions, Connect(k) \/ LinkFails(k) PROVE Answered'
    BY <1>a, <1>b, <1>7 DEF Connect, LinkFails, chanVars, TypeOK
<1>8. ASSUME NEW k \in Sessions, NEW c \in Callers, Receive(k, c) PROVE Answered'
    BY <1>a, <1>b, <1>8 DEF Receive, TypeOK
<1>9. ASSUME NEW k \in Sessions, NEW c \in Callers, Serve(k, c) PROVE Answered'
  <2>1. \A d \in Callers : delivered[d] \in Nat /\ delivered'[d] = IF d = c THEN delivered[d] + 1 ELSE delivered[d]
    BY <1>a, <1>9 DEF Serve, TypeOK
  <2>2. \A j \in Sessions : \A d \in reps'[j] : d \in Callers /\ (d = c \/ d \in reps[j])
    BY <1>a, <1>9 DEF Serve, TypeOK
  <2>3. \A j \in Sessions : \A d \in reps'[j] : delivered'[d] > 0
    BY <1>a, <2>1, <2>2 DEF Answered
  <2> QED
    BY <2>3 DEF Answered
<1>10. ASSUME UNCHANGED vars PROVE Answered'
    BY <1>b, <1>10 DEF vars, chanVars
<1> QED
    BY <1>1, <1>2, <1>3, <1>4, <1>5, <1>6, <1>7, <1>8, <1>9, <1>10 DEF Next, CallerWork

LEMMA IInvHolds == Spec => []IInv
<1>1. IInv /\ [Next]_vars => IInv'
    BY TypeStep, ConnStep, CountedStep, AnsweredStep DEF IInv
<1> QED
    BY InitIInv, <1>1, PTL DEF Spec

-----------------------------------------------------------------------------
(* The results                                                             *)

\* The variables keep their types; in particular the peer's Deliverer never
\* gets a message more than hubDialMaxAttempts times.
THEOREM TypesKept == Spec => []TypeOK
<1>1. IInv => TypeOK
    BY DEF IInv
<1> QED
    BY IInvHolds, <1>1, PTL

\* GetOrDial never hands out a closed connection from the PCStore, however
\* calls of both daemons dial, fail and retry together.
THEOREM StoreIsSound == Spec => []StoreSound
<1>1. IInv => StoreSound
    BY DEF IInv, Conn
<1> QED
    BY IInvHolds, <1>1, PTL

\* No working connection is left without an owner: it is the one in its
\* daemon's PCStore or a call is still dialling it.
THEOREM HealthyIsOwned == Spec => []HealthyOwned
<1>1. IInv => HealthyOwned
    BY DEF IInv, Conn
<1> QED
    BY IInvHolds, <1>1, PTL

\* What the states of a call mean to its caller.
LEMMA Outcomes ==
    /\ Outcome("answered") = "ok" /\ Outcome("gaveUp") = "error"
    /\ \A s \in {"get", "polling", "opening", "send", "waiting"} : Outcome(s) = "pending"
BY DEF Outcome

\* Every step of the relay is a step of RemoteCall or leaves it alone.
LEMMA CallStep == IInv /\ TypeOK' /\ [Next]_vars => [Call!Next]_Call!vars
<1> SUFFICES ASSUME IInv, TypeOK', [Next]_vars PROVE [Call!Next]_<<CallResult, att, delivered>>
    BY DEF Call!vars
<1>a. TypeOK /\ Counted /\ Answered
    BY DEF IInv
<1>b. ASSUME UNCHANGED <<att, delivered>>, \A c \in Callers : Outcome(pc'[c]) = Outcome(pc[c])
      PROVE  UNCHANGED <<CallResult, att, delivered>>
    BY <1>b DEF CallResult
<1>c. ASSUME NEW c \in Callers, NEW K, Fail(c, K), pc[c] \notin Returned PROVE Call!Next
  <2>1. CallResult[c] = "pending" /\ UNCHANGED delivered
    BY <1>a, <1>c, Outcomes DEF CallResult, TypeOK, Fail
  <2>2. CASE att[c] < MaxAttempts /\ att' = [att EXCEPT ![c] = @ + 1] /\ pc' = [pc EXCEPT ![c] = "get"]
    <3>1. \A d \in Callers : Outcome(pc'[d]) = Outcome(pc[d])
      <4>1. pc[c] \in {"get", "polling", "opening", "send", "waiting"} /\ pc'[c] = "get"
        BY <1>a, <1>c, <2>2 DEF TypeOK
      <4>2. \A d \in Callers : d # c => pc'[d] = pc[d]
        BY <1>a, <2>2 DEF TypeOK
      <4>3. Outcome(pc'[c]) = "pending" /\ Outcome(pc[c]) = "pending"
        BY <4>1, Outcomes
      <4> QED
        BY <4>2, <4>3
    <3>2. CallResult' = CallResult
      BY <3>1 DEF CallResult
    <3> QED
      BY <2>1, <2>2, <3>2 DEF Call!Next, Call!Retry
  <2>3. CASE pc' = [pc EXCEPT ![c] = "gaveUp"] /\ UNCHANGED att
    <3>1. \A d \in Callers : Outcome(pc'[d]) = IF d = c THEN "error" ELSE Outcome(pc[d])
      BY <1>a, <2>3, Outcomes DEF TypeOK
    <3>2. CallResult' = [CallResult EXCEPT ![c] = "error"]
      BY <3>1 DEF CallResult
    <3> QED
      BY <2>1, <2>3, <3>2 DEF Call!Next, Call!GiveUp
  <2> QED
    BY <1>c, <2>2, <2>3 DEF Fail
<1>1. ASSUME NEW c \in Callers, GetCached(c) \/ GetStale(c) \/ Poll(c) \/ CacheNew(c) \/ CacheLost(c)
      PROVE  UNCHANGED <<CallResult, att, delivered>>
  <2>1. \A d \in Callers : \/ pc'[d] = pc[d]
                           \/ /\ pc[d] \in {"get", "polling", "opening"}
                              /\ pc'[d] \in {"polling", "opening", "send"}
    BY <1>a, <1>1 DEF GetCached, GetStale, Poll, CacheNew, CacheLost, HasOpened, TypeOK
  <2>2. \A d \in Callers : Outcome(pc'[d]) = Outcome(pc[d])
    BY <2>1, Outcomes
  <2> QED
    BY <1>b, <1>1, <2>2 DEF GetCached, GetStale, Poll, CacheNew, CacheLost
<1>2. ASSUME NEW c \in Callers, DialFails(c) \/ SendTimeout(c) PROVE Call!Next
    BY <1>c, <1>2 DEF DialFails, SendTimeout, Returned
<1>3. ASSUME NEW c \in Callers, Send(c) PROVE [Call!Next]_<<CallResult, att, delivered>>
  <2>1. CASE off[using[c]] # "open"
    BY <1>c, <1>3, <2>1 DEF Send, Returned
  <2>2. CASE off[using[c]] = "open"
    <3>1. \A d \in Callers : pc'[d] = pc[d] \/ (pc[d] = "send" /\ pc'[d] = "waiting")
      BY <1>a, <1>3, <2>2 DEF Send, TypeOK
    <3>2. \A d \in Callers : Outcome(pc'[d]) = Outcome(pc[d])
      BY <3>1, Outcomes
    <3> QED
      BY <1>b, <1>3, <2>2, <3>2 DEF Send
  <2> QED
    BY <2>1, <2>2
<1>4. ASSUME NEW o \in Orgs, AnswererPoll(o) PROVE UNCHANGED <<CallResult, att, delivered>>
    BY <1>4 DEF AnswererPoll, CallResult
<1>5. ASSUME NEW o \in Orgs, NEW k \in Sessions, HandleOffer(o, k) \/ RefuseOffer(o, k)
      PROVE  UNCHANGED <<CallResult, att, delivered>>
    BY <1>5 DEF HandleOffer, RefuseOffer, CallResult
<1>6. ASSUME NEW o \in Orgs, NEW f \in Frames, LoseFrame(o, f)
      PROVE  UNCHANGED <<CallResult, att, delivered>>
    BY <1>6 DEF LoseFrame, CallResult
<1>7. ASSUME NEW k \in Sessions, Connect(k) \/ LinkFails(k)
      PROVE  UNCHANGED <<CallResult, att, delivered>>
    BY <1>7 DEF Connect, LinkFails, CallResult
<1>8. ASSUME NEW k \in Sessions, NEW c \in Callers, Receive(k, c)
      PROVE  [Call!Next]_<<CallResult, att, delivered>>
  <2>1. CASE handler[k] = c /\ pc[c] = "waiting" /\ using[c] = k
    <3>1. CallResult[c] = "pending" /\ delivered[c] > 0
      BY <1>a, <1>8, <2>1, Outcomes DEF Receive, CallResult, Answered
    <3>2. \A d \in Callers : Outcome(pc'[d]) = IF d = c THEN "ok" ELSE Outcome(pc[d])
      BY <1>a, <1>8, <2>1, Outcomes DEF Receive, TypeOK
    <3>3. CallResult' = [CallResult EXCEPT ![c] = "ok"]
      BY <3>2 DEF CallResult
    <3> QED
      BY <1>8, <3>1, <3>3 DEF Receive, Call!Next, Call!Return
  <2>2. CASE ~(handler[k] = c /\ pc[c] = "waiting" /\ using[c] = k)
    BY <1>8, <2>2 DEF Receive, CallResult
  <2> QED
    BY <2>1, <2>2
<1>9. ASSUME NEW k \in Sessions, NEW c \in Callers, Serve(k, c) PROVE Call!Next
  <2>1. delivered[c] < att[c]
    BY <1>a, <1>9, OnItsWay DEF Serve
  <2>2. CallResult' = CallResult
    BY <1>9 DEF Serve, CallResult
  <2> QED
    BY <1>9, <2>1, <2>2 DEF Serve, Call!Next, Call!Run
<1>10. ASSUME UNCHANGED vars PROVE UNCHANGED <<CallResult, att, delivered>>
    BY <1>10 DEF vars, CallResult
<1> QED
    BY <1>1, <1>2, <1>3, <1>4, <1>5, <1>6, <1>7, <1>8, <1>9, <1>10 DEF Next, CallerWork

(***************************************************************************)
(* HubDeliverer.Deliver keeps the safety part of RemoteCall's promise with *)
(* bounded retries: the peer gets the message at most once per attempt,    *)
(* and its result is reported only if the peer has got this message.       *)
(***************************************************************************)
THEOREM RelayRefinesCall == Spec => Call!Spec
<1>1. Init => Call!Init
  <2> SUFFICES ASSUME Init PROVE Call!Init
    OBVIOUS
  <2>1. CallResult = [c \in Callers |-> "pending"]
    BY Outcomes DEF Init, CallResult
  <2> QED
    BY <2>1 DEF Init, Call!Init
<1>2. IInv /\ IInv' /\ [Next]_vars => [Call!Next]_Call!vars
    BY CallStep DEF IInv
<1> QED
    BY IInvHolds, <1>1, <1>2, PTL DEF Spec, Call!Spec
=============================================================================
