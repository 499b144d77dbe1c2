------------------------ MODULE MqttPublisherProofs ------------------------
(***************************************************************************)
(* What MqttPublisher promises, for every number of reader threads and of  *)
(* changes of the broker.                                                  *)
(***************************************************************************)
EXTENDS MqttPublisher, TLAPS

\* While the web thread disconnects a publisher, that publisher has a client.
TypeInv ==
    /\ MqttTypeOK
    /\ owner \in Seq(Publishers)
    /\ pc \in [Threads -> ReaderPhases \cup WebPhases]
    /\ pc[Web] \in {"retire", "stop", "drop", "clear", "swap"} => current < MaxPublishers
    /\ pc[Web] \in {"stop", "drop", "clear"} => client[at[Web]] # None

LEMMA MqttTypes ==
    ASSUME TypeInv, [Next]_vars
    PROVE  TypeInv'
<1>a. Web \notin Readers /\ None \notin Nat /\ Web \in Threads /\ \A r \in Readers : r \in Threads
  BY PublisherAssumption DEF PublisherAssumption, Threads
<1>b. Clients = 1..Len(owner) /\ Len(owner) \in Nat /\ None \notin Clients
  BY <1>a DEF TypeInv, Clients
<1>c. owner' = owner => Clients' = Clients
  BY DEF Clients
<1>e. \A t \in Threads : t = Web \/ t \in Readers
  BY DEF Threads
<1> SUFFICES ASSUME Step, disturbed' = disturbed \cup Met' PROVE TypeInv'
  BY DEF Next, vars, TypeInv, MqttTypeOK, Clients
<1> USE <1>a, <1>b, <1>c, <1>e DEF TypeInv, MqttTypeOK, ReaderPhases, WebPhases, Go, Mine, AfterError, AfterConnect
<1>d. at' \in [Threads -> Publishers] => disturbed' \subseteq Publishers
  <2> SUFFICES ASSUME at' \in [Threads -> Publishers], NEW p \in Met' PROVE p \in Publishers
    OBVIOUS
  <2> QED
    BY DEF Met
<1> USE <1>d DEF historyVars
<1>1. ASSUME NEW r \in Readers, Enter(r) PROVE TypeInv'
  BY <1>1 DEF Enter
<1>2. ASSUME NEW r \in Readers, Test(r) PROVE TypeInv'
  BY <1>2 DEF Test
<1>3. ASSUME NEW r \in Readers, SendMessage(r) PROVE TypeInv'
  BY <1>3 DEF SendMessage
<1>4. ASSUME NEW t \in Threads, Check(t) PROVE TypeInv'
  BY <1>4 DEF Check
<1>5. ASSUME NEW t \in Threads, BuildClient(t) PROVE TypeInv'
  <2>1. owner' = Append(owner, at[t]) /\ Len(owner') = Len(owner) + 1 /\ at[t] \in Publishers
    BY <1>5 DEF BuildClient
  <2>2. owner' \in Seq(Publishers) /\ DOMAIN owner' = 1..Len(owner')
    BY <2>1
  <2>3. Clients' = 1..Len(owner') /\ Clients \subseteq Clients' /\ Len(owner') \in Clients' /\ None \notin Clients'
    <3>1. Clients' = 1..Len(owner')
      BY <2>2 DEF Clients
    <3>2. Clients' = 1..(Len(owner) + 1)
      BY <3>1, <2>1
    <3> QED
      BY <3>1, <3>2, <2>1, SMTT(30)
  <2>4. \A c \in Clients' : owner'[c] \in Publishers
    BY <2>2, <2>3
  <2>5. client' \in [Publishers -> Clients' \cup {None}] /\ running' \subseteq Clients' /\ closed' \subseteq Clients'
    BY <1>5, <2>3 DEF BuildClient
  <2>6. pc'[Web] \in {"stop", "drop", "clear"} => client'[at'[Web]] # None
    BY <1>5, <2>3 DEF BuildClient
  <2>7. /\ pc' \in [Threads -> ReaderPhases \cup WebPhases]
        /\ pc'[Web] \in WebPhases /\ \A r \in Readers : pc'[r] \in ReaderPhases
        /\ pc'[Web] \in {"retire", "stop", "drop", "clear", "swap"} => current' < MaxPublishers
    BY <1>5 DEF BuildClient
  <2>8. /\ current' \in Publishers /\ at' \in [Threads -> Publishers] /\ disturbed' \subseteq Publishers
        /\ unbuilt' \in BOOLEAN /\ refused' \in BOOLEAN
    BY <1>5 DEF BuildClient
  <2>9. MqttTypeOK'
    BY ONLY <2>4, <2>5, <2>7, <2>8 DEF MqttTypeOK
  <2> QED
    BY ONLY <2>2, <2>6, <2>7, <2>9 DEF TypeInv
<1>51. ASSUME NEW t \in Threads, BuildRaises(t) PROVE TypeInv'
  BY <1>51 DEF BuildRaises
<1>6. ASSUME NEW t \in Threads, ConnectAsync(t) PROVE TypeInv'
  BY <1>6 DEF ConnectAsync
<1>61. ASSUME NEW t \in Threads, ConnectRaises(t) PROVE TypeInv'
  BY <1>61 DEF ConnectRaises
<1>7. ASSUME NEW t \in Threads, LoopStart(t) PROVE TypeInv'
  <2>1. Mine(t) \in Clients \cup {None}
    OBVIOUS
  <2> HIDE DEF Mine
  <2>2. running' \subseteq Clients
    BY <1>7, <2>1 DEF LoopStart
  <2> QED
    BY <1>7, <2>2 DEF LoopStart, AfterConnect
<1>8. CASE Reconfigure
  BY <1>8 DEF Reconfigure
<1>9. CASE Retire
  BY <1>9 DEF Retire
<1>10. CASE LoopStop
  BY <1>10 DEF LoopStop
<1>11. CASE Disconnect
  BY <1>11 DEF Disconnect
<1>12. CASE Clear
  BY <1>12 DEF Clear
<1>13. CASE Swap
  <2>1. current' \in Publishers
    BY <1>13, PublisherAssumption DEF Swap, Publishers, PublisherAssumption
  <2> QED
    BY <1>13, <2>1 DEF Swap
<1> QED
  BY <1>1, <1>2, <1>3, <1>4, <1>5, <1>51, <1>6, <1>61, <1>7, <1>8, <1>9, <1>10, <1>11, <1>12, <1>13 DEF Step, Connect, ReconfigureStep

-----------------------------------------------------------------------------
(* The current publisher.                                                  *)

\* Its client runs, or is about to be made or started, or was tried and failed;
\* while the web thread retires it, nothing is said.
Settled ==
    pc[Web] \notin {"stop", "drop", "clear", "swap"} =>
        \/ client[current] \in running
        \/ client[current] = None /\ (unbuilt \/ pc[Web] \in {"check", "build"})
        \/ client[current] # None /\ (refused \/ \E t \in Threads : at[t] = current /\ pc[t] \in {"async", "loop"})

\* No thread is ahead of the current publisher, publishers to come have no
\* client, and a client that was told to disconnect belongs to one that was
\* replaced or is about to be.
LinkInv ==
    /\ \A t \in Threads : at[t] <= current
    /\ pc[Web] # "idle" => at[Web] = current
    /\ \A p \in Publishers : p > current => client[p] = None
    /\ \A p \in Publishers : client[p] # None => owner[client[p]] = p
    /\ \A c \in closed : owner[c] < current \/ (owner[c] = current /\ pc[Web] \in {"clear", "swap"})
    /\ Settled

\* A new client is none of those there were.
LEMMA BuildEffect ==
    ASSUME TypeInv, NEW t \in Threads, BuildClient(t)
    PROVE  /\ Len(owner') \notin Clients /\ Len(owner') # None
           /\ Clients' = Clients \cup {Len(owner')}
           /\ owner'[Len(owner')] = at[t]
           /\ \A c \in Clients : owner'[c] = owner[c]
<1>1. owner' = Append(owner, at[t]) /\ owner \in Seq(Publishers) /\ at[t] \in Publishers
  BY DEF BuildClient, TypeInv, MqttTypeOK
<1>2. Len(owner') = Len(owner) + 1 /\ Len(owner) \in Nat
  BY <1>1
<1>3. Clients = 1..Len(owner)
  BY <1>1 DEF Clients
<1>4. Clients' = 1..Len(owner')
  BY <1>1, <1>2 DEF Clients
<1>5. \A c \in 1..Len(owner) : owner'[c] = owner[c]
  BY <1>1
<1>6. owner'[Len(owner) + 1] = at[t]
  BY <1>1
<1>7. Clients' = Clients \cup {Len(owner')}
  BY <1>2, <1>3, <1>4
<1> QED
  BY <1>2, <1>3, <1>5, <1>6, <1>7, PublisherAssumption DEF PublisherAssumption

LEMMA LinkStep ==
    ASSUME TypeInv, LinkInv, [Next]_vars
    PROVE  LinkInv'
<1>a. Web \notin Readers /\ None \notin Nat /\ Web \in Threads /\ \A r \in Readers : r \in Threads
  BY PublisherAssumption DEF PublisherAssumption, Threads
<1>b. None \notin Clients /\ running \subseteq Clients /\ closed \subseteq Clients
  BY <1>a DEF TypeInv, MqttTypeOK, Clients
<1>c. /\ current \in Nat /\ \A p \in Publishers : p \in Nat /\ p >= 1
      /\ at \in [Threads -> Publishers] /\ client \in [Publishers -> Clients \cup {None}]
      /\ \A c \in Clients : owner[c] \in Nat
      /\ current \in Publishers
      /\ pc \in [Threads -> ReaderPhases \cup WebPhases]
  BY DEF TypeInv, MqttTypeOK, Publishers
<1>d. \A r \in Readers : pc[r] \in ReaderPhases
  BY DEF TypeInv, MqttTypeOK
<1>e. pc[Web] \in {"stop", "drop", "clear"} => client[at[Web]] # None
  BY DEF TypeInv
<1>f. \A t \in Threads : t = Web \/ t \in Readers
  BY DEF Threads
<1>g. pc[Web] = "swap" => current + 1 \in Publishers
  BY PublisherAssumption DEF PublisherAssumption, TypeInv, MqttTypeOK, Publishers
<1> SUFFICES ASSUME Step PROVE LinkInv'
  BY DEF Next, vars, LinkInv, Settled
<1> USE <1>a, <1>b, <1>c, <1>d, <1>e, <1>f, <1>g DEF historyVars, LinkInv, Settled, ReaderPhases, WebPhases, Go, Mine, AfterError, AfterConnect
<1>1. ASSUME NEW r \in Readers, Enter(r) PROVE LinkInv'
  BY <1>1 DEF Enter
<1>2. ASSUME NEW r \in Readers, Test(r) PROVE LinkInv'
  BY <1>2 DEF Test
<1>3. ASSUME NEW r \in Readers, SendMessage(r) PROVE LinkInv'
  BY <1>3 DEF SendMessage
<1>4. ASSUME NEW t \in Threads, Check(t) PROVE LinkInv'
  BY <1>4 DEF Check
<1>5. ASSUME NEW t \in Threads, BuildClient(t) PROVE LinkInv'
  <2>1. /\ Len(owner') \notin Clients /\ Len(owner') # None
        /\ owner'[Len(owner')] = at[t] /\ \A c \in Clients : owner'[c] = owner[c]
    BY <1>5, BuildEffect
  <2>2. \A p \in Publishers : client'[p] = IF p = at[t] THEN Len(owner') ELSE client[p]
    BY <1>5 DEF BuildClient
  <2> HIDE DEF Clients
  <2>3. ASSUME NEW p \in Publishers, client'[p] # None PROVE owner'[client'[p]] = p
    <3>1. CASE p = at[t]
      BY <2>1, <2>2, <3>1
    <3>2. CASE p # at[t]
      <4>1. client'[p] = client[p] /\ client[p] \in Clients
        BY <2>2, <2>3, <3>2
      <4> QED
        BY <2>1, <4>1
    <3> QED
      BY <3>1, <3>2
  <2>4. \A c \in closed' : owner'[c] = owner[c] /\ c \in closed
    BY <1>5, <2>1 DEF BuildClient
  <2>5. \A p \in Publishers : p > current' => client'[p] = None
    BY <1>5, <2>2 DEF BuildClient
  <2>6. Settled'
    BY <1>5, <2>1, <2>2 DEF BuildClient
  <2> QED
    BY <1>5, <2>3, <2>4, <2>5, <2>6, ZenonT(60) DEF BuildClient
<1>51. ASSUME NEW t \in Threads, BuildRaises(t) PROVE LinkInv'
  BY <1>51 DEF BuildRaises
<1>6. ASSUME NEW t \in Threads, ConnectAsync(t) PROVE LinkInv'
  BY <1>6 DEF ConnectAsync
<1>61. ASSUME NEW t \in Threads, ConnectRaises(t) PROVE LinkInv'
  BY <1>61 DEF ConnectRaises
<1>7. ASSUME NEW t \in Threads, LoopStart(t) PROVE LinkInv'
  BY <1>7 DEF LoopStart
<1>8. CASE Reconfigure
  BY <1>8 DEF Reconfigure
<1>9. CASE Retire
  BY <1>9 DEF Retire
<1>10. CASE LoopStop
  BY <1>10 DEF LoopStop
<1>11. CASE Disconnect
  BY <1>11 DEF Disconnect
<1>12. CASE Clear
  BY <1>12 DEF Clear
<1>13. CASE Swap
  <2>1. /\ current' = current + 1 /\ at' = [at EXCEPT ![Web] = current + 1] /\ pc'[Web] = "check"
        /\ owner' = owner /\ client' = client /\ closed' = closed /\ pc[Web] = "swap"
    BY <1>13 DEF Swap
  <2>2. client[current + 1] = None
    BY <2>1
  <2>3. \A u \in Threads : at'[u] <= current'
    <3>1. \A u \in Threads : at[u] \in Nat /\ at[u] <= current
      OBVIOUS
    <3> QED
      BY ONLY <1>c, <2>1, <3>1
  <2>4. \A c \in closed' : owner'[c] < current'
    BY <2>1
  <2>5. \A p \in Publishers : p > current' => client'[p] = None
    BY <2>1
  <2>6. Settled'
    BY <2>1, <2>2
  <2>7. /\ at'[Web] = current'
        /\ \A p \in Publishers : client'[p] # None => owner'[client'[p]] = p
    BY <2>1
  <2> QED
    BY ONLY <2>3, <2>4, <2>5, <2>6, <2>7 DEF LinkInv
<1> QED
  BY <1>1, <1>2, <1>3, <1>4, <1>5, <1>51, <1>6, <1>61, <1>7, <1>8, <1>9, <1>10, <1>11, <1>12, <1>13 DEF Step, Connect, ReconfigureStep

-----------------------------------------------------------------------------
(* Clients of brokers that are no longer set.                              *)

\* A publisher that was never changed while in use is as one thread after the
\* other left it: no reader stays in it after it was replaced, a thread that makes
\* its client finds none there, and only its one client may run.
StrayInv ==
    /\ \A r \in Readers : Inside(r) => at[r] = current \/ at[r] \in disturbed
    /\ \A t \in Threads : \A u \in Threads \ {t} :
          Changes(t) /\ Inside(u) /\ at[u] = at[t] => at[t] \in disturbed
    /\ \A t \in Threads : pc[t] = "build" => client[at[t]] = None \/ at[t] \in disturbed
    /\ \A c \in Clients : owner[c] \notin disturbed /\ c \in running => c = client[owner[c]]
    /\ \A p \in Publishers : p < current /\ p \notin disturbed => client[p] = None
    /\ current \notin disturbed =>
          /\ pc[Web] = "clear" => client[current] \notin running
          /\ pc[Web] = "swap" => client[current] = None

LEMMA StrayStep ==
    ASSUME TypeInv, LinkInv, StrayInv, [Next]_vars
    PROVE  StrayInv'
<1>a. Web \notin Readers /\ None \notin Nat /\ Web \in Threads /\ \A r \in Readers : r \in Threads
  BY PublisherAssumption DEF PublisherAssumption, Threads
<1>b. None \notin Clients /\ running \subseteq Clients /\ closed \subseteq Clients
  BY <1>a DEF TypeInv, MqttTypeOK, Clients
<1>c. /\ current \in Nat /\ \A p \in Publishers : p \in Nat
      /\ at \in [Threads -> Publishers] /\ client \in [Publishers -> Clients \cup {None}]
      /\ \A c \in Clients : owner[c] \in Publishers
      /\ current \in Publishers
      /\ pc \in [Threads -> ReaderPhases \cup WebPhases]
  BY DEF TypeInv, MqttTypeOK, Publishers
<1>d. pc[Web] \in WebPhases /\ \A r \in Readers : pc[r] \in ReaderPhases
  BY DEF TypeInv, MqttTypeOK
<1>f. \A t \in Threads : t = Web \/ t \in Readers
  BY DEF Threads
<1>g. owner' = owner => Clients' = Clients
  BY DEF Clients
<1>h. /\ pc[Web] # "idle" => at[Web] = current
      /\ \A p \in Publishers : client[p] # None => owner[client[p]] = p
      /\ \A t \in Threads : at[t] <= current
  BY DEF LinkInv
<1> SUFFICES ASSUME Step, disturbed' = disturbed \cup Met' PROVE StrayInv'
  BY DEF Next, vars, StrayInv, Clients, Inside, Changes
<1>m. /\ disturbed \subseteq disturbed'
      /\ \A t \in Threads : \A u \in Threads \ {t} :
            Changes(t)' /\ Inside(u)' /\ at'[u] = at'[t] => at'[t] \in disturbed'
  BY DEF Met
<1> HIDE DEF Met
<1> USE <1>a, <1>b, <1>c, <1>d, <1>f, <1>g, <1>h, <1>m DEF historyVars, Inside, Changes, StrayInv, ReaderPhases, WebPhases, Go, Mine, AfterError, AfterConnect
<1>1. ASSUME NEW r \in Readers, Enter(r) PROVE StrayInv'
  BY <1>1 DEF Enter
<1>2. ASSUME NEW r \in Readers, Test(r) PROVE StrayInv'
  BY <1>2 DEF Test
<1>3. ASSUME NEW r \in Readers, SendMessage(r) PROVE StrayInv'
  BY <1>3 DEF SendMessage
<1>4. ASSUME NEW t \in Threads, Check(t) PROVE StrayInv'
  BY <1>4 DEF Check
<1>5. ASSUME NEW t \in Threads, BuildClient(t) PROVE StrayInv'
  <2>1. /\ Len(owner') \notin Clients /\ Len(owner') # None
        /\ Clients' = Clients \cup {Len(owner')}
        /\ owner'[Len(owner')] = at[t] /\ \A c \in Clients : owner'[c] = owner[c]
    BY <1>5, BuildEffect
  <2>2. \A p \in Publishers : client'[p] = IF p = at[t] THEN Len(owner') ELSE client[p]
    BY <1>5 DEF BuildClient
  <2>3. pc[t] = "build" /\ pc' = [pc EXCEPT ![t] = "async"] /\ UNCHANGED <<current, running, closed, at>>
    BY <1>5 DEF BuildClient
  <2>4. at[t] \in disturbed \/ (at[t] = current /\ client[current] = None)
    BY <2>3
  <2> HIDE DEF Clients
  <2>5. ASSUME NEW c \in Clients', owner'[c] \notin disturbed', c \in running' PROVE c = client'[owner'[c]]
    <3>1. c \in Clients /\ c \in running /\ owner'[c] = owner[c] /\ c = client[owner[c]]
      BY <2>1, <2>3, <2>5
    <3>2. owner[c] # at[t]
      BY <2>4, <2>5, <3>1
    <3> QED
      BY <2>2, <3>1, <3>2
  <2>6. \A p \in Publishers : p < current' /\ p \notin disturbed' => client'[p] = None
    BY <2>2, <2>3, <2>4
  <2> QED
    BY <2>2, <2>3, <2>4, <2>5, <2>6
<1>51. ASSUME NEW t \in Threads, BuildRaises(t) PROVE StrayInv'
  BY <1>51 DEF BuildRaises
<1>6. ASSUME NEW t \in Threads, ConnectAsync(t) PROVE StrayInv'
  BY <1>6 DEF ConnectAsync
<1>61. ASSUME NEW t \in Threads, ConnectRaises(t) PROVE StrayInv'
  BY <1>61 DEF ConnectRaises
<1>7. ASSUME NEW t \in Threads, LoopStart(t) PROVE StrayInv'
  BY <1>7, ZenonT(60) DEF LoopStart
<1>8. CASE Reconfigure
  BY <1>8 DEF Reconfigure
<1>9. CASE Retire
  BY <1>9 DEF Retire
<1>10. CASE LoopStop
  BY <1>10 DEF LoopStop
<1>11. CASE Disconnect
  BY <1>11 DEF Disconnect
<1>12. CASE Clear
  BY <1>12 DEF Clear
<1>13. CASE Swap
  BY <1>13 DEF Swap
<1> QED
  BY <1>1, <1>2, <1>3, <1>4, <1>5, <1>51, <1>6, <1>61, <1>7, <1>8, <1>9, <1>10, <1>11, <1>12, <1>13 DEF Step, Connect, ReconfigureStep

-----------------------------------------------------------------------------
MqttInv == TypeInv /\ LinkInv /\ StrayInv

LEMMA MqttInit == Init => MqttInv
<1> SUFFICES ASSUME Init PROVE MqttInv
  OBVIOUS
<1>1. /\ Web \notin Readers /\ 1 \in Publishers /\ None \notin Nat /\ \A p \in Publishers : p \in Nat /\ p >= 1
      /\ Web \in Threads
  BY PublisherAssumption DEF PublisherAssumption, Publishers, Threads
<1>2. CASE owner = <<1>> /\ client = [p \in Publishers |-> IF p = 1 THEN 1 ELSE None]
  <2>1. Clients = {1} /\ owner[1] = 1 /\ owner \in Seq(Publishers)
    BY <1>1, <1>2 DEF Clients
  <2>2. running \subseteq {1} /\ unbuilt \in BOOLEAN /\ refused \in BOOLEAN /\ (1 \in running \/ refused)
    BY <1>1, <1>2 DEF Init
  <2>3. TypeInv
    BY <1>1, <1>2, <2>1, <2>2 DEF Init, TypeInv, MqttTypeOK, ReaderPhases, WebPhases, Threads
  <2>4. LinkInv
    BY <1>1, <1>2, <2>1, <2>2 DEF Init, LinkInv, Settled
  <2>5. StrayInv
    BY <1>1, <1>2, <2>1, <2>2 DEF Init, StrayInv, Threads, Inside, Changes
  <2> QED
    BY <2>3, <2>4, <2>5 DEF MqttInv
<1>3. CASE owner = <<>> /\ client = [p \in Publishers |-> None]
  <2>1. Clients = {} /\ owner \in Seq(Publishers)
    BY <1>1, <1>3 DEF Clients
  <2>2. running = {} /\ unbuilt /\ unbuilt \in BOOLEAN /\ refused \in BOOLEAN
    BY <1>1, <1>3 DEF Init
  <2>3. TypeInv
    BY <1>1, <1>3, <2>1, <2>2 DEF Init, TypeInv, MqttTypeOK, ReaderPhases, WebPhases, Threads
  <2>4. LinkInv
    BY <1>1, <1>3, <2>1, <2>2 DEF Init, LinkInv, Settled
  <2>5. StrayInv
    BY <1>1, <1>3, <2>1, <2>2 DEF Init, StrayInv, Threads, Inside, Changes
  <2> QED
    BY <2>3, <2>4, <2>5 DEF MqttInv
<1> QED
  BY <1>1, <1>2, <1>3 DEF Init

LEMMA MqttInductive == Spec => []MqttInv
<1>1. MqttInv /\ [Next]_vars => MqttInv'
  BY MqttTypes, LinkStep, StrayStep DEF MqttInv
<1> QED
  BY <1>1, MqttInit, PTL DEF Spec

\* Every variable keeps its type.
THEOREM MqttTyping == Spec => []MqttTypeOK
<1>1. MqttInv => MqttTypeOK
  BY DEF MqttInv, TypeInv
<1> QED
  BY <1>1, MqttInductive, PTL

\* Whenever no thread is inside a publisher, the client of the current one runs,
\* however readers and changes of the broker met, unless a client of this one
\* could not be built or has refused the broker (manager.py:189-206,
\* publisher.py:103-130).
THEOREM Connected == Spec => []CurrentConnected
<1>1. MqttInv => CurrentConnected
  <2> SUFFICES ASSUME MqttInv, \A t \in Threads : ~Inside(t)
               PROVE  \/ client[current] \in running
                      \/ client[current] = None /\ unbuilt
                      \/ client[current] # None /\ refused
    BY DEF CurrentConnected
  <2>1. pc[Web] = "idle" /\ \A t \in Threads : pc[t] = "idle"
    BY DEF Threads, Inside
  <2> QED
    BY <2>1 DEF MqttInv, LinkInv, Settled
<1> QED
  BY <1>1, MqttInductive, PTL

\* A client left behind belongs to a publisher that one thread connected or
\* retired while another was in it (manager.py:197-204, publisher.py:125-126).
THEOREM StraysMet == Spec => []StraysNeedOverlap
<1>1. MqttInv => StraysNeedOverlap
  <2> SUFFICES ASSUME MqttInv, NEW c \in Strays, owner[c] \notin disturbed PROVE FALSE
    BY DEF StraysNeedOverlap
  <2>1. c \in Clients /\ c \in running /\ c # client[current] /\ c # None
    BY PublisherAssumption DEF PublisherAssumption, MqttInv, TypeInv, MqttTypeOK, Strays, Clients
  <2>2. owner[c] \in Publishers /\ owner[c] \in Nat /\ current \in Nat
    BY <2>1 DEF MqttInv, TypeInv, MqttTypeOK, Publishers
  <2>3. c = client[owner[c]]
    BY <2>1 DEF MqttInv, StrayInv
  <2>4. owner[c] = current
    BY <2>1, <2>2, <2>3 DEF MqttInv, LinkInv, StrayInv
  <2> QED
    BY <2>1, <2>3, <2>4
<1> QED
  BY <1>1, MqttInductive, PTL
=============================================================================
