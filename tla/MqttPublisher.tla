--------------------------- MODULE MqttPublisher ---------------------------
(***************************************************************************)
(* The publishers of publisher.py, while reader threads publish through    *)
(* them and reconfigure_mqtt (manager.py) replaces one by the next.        *)
(*                                                                         *)
(* A publisher's _client is read again at every use and guarded by no      *)
(* lock: a step below is the code from one such use to the next.  A client *)
(* of the MQTT library, once its loop is started, connects and stays so    *)
(* until it is stopped, unless it was told to disconnect before.  It may   *)
(* fail to be built (no certificates for TLS), and it refuses a broker     *)
(* with an empty name or no port number.                                   *)
(***************************************************************************)
EXTENDS Integers, FiniteSets, Sequences

CONSTANTS
    Readers,       \* reader threads
    Web,           \* the thread that changes the settings
    MaxPublishers, \* how many publishers there will have been (bound)
    None           \* no client

ASSUME PublisherAssumption ==
    /\ Web \notin Readers
    /\ MaxPublishers \in Nat \ {0}
    /\ None \notin Nat

Threads == Readers \cup {Web}
Publishers == 1..MaxPublishers

VARIABLES
    current,  \* manager.publisher, by the order in which they were made
    client,   \* _client of each publisher
    owner,    \* the publisher each client was made for, in the order made
    running,  \* clients whose loop runs
    closed,   \* clients told to disconnect since they were told to connect
    pc,       \* what each thread does next
    at,       \* the publisher whose method it is in
    unbuilt,  \* history: building a client for the current one has failed
    refused,  \* history: a client of the current one has refused the broker
    disturbed \* history: publishers connected or retired while in use

vars == <<current, client, owner, running, closed, pc, at, unbuilt, refused, disturbed>>
historyVars == <<unbuilt, refused>>

Clients == DOMAIN owner

ReaderPhases == {"idle", "test", "check", "build", "async", "loop", "send"}
WebPhases == {"idle", "retire", "stop", "drop", "clear", "swap", "check", "build", "async", "loop"}

\* Every variable has its type.
MqttTypeOK ==
    /\ current \in Publishers
    /\ \A c \in Clients : owner[c] \in Publishers
    /\ client \in [Publishers -> Clients \cup {None}]
    /\ running \subseteq Clients
    /\ closed \subseteq Clients
    /\ pc[Web] \in WebPhases
    /\ \A r \in Readers : pc[r] \in ReaderPhases
    /\ at \in [Threads -> Publishers]
    /\ unbuilt \in BOOLEAN /\ refused \in BOOLEAN
    /\ disturbed \subseteq Publishers

\* MeterManager.start has tried to connect the first publisher: its client runs,
\* or it could not be built, or it has refused the broker.  An exception is logged.
Init ==
    /\ current = 1
    /\ \E built, accepted \in BOOLEAN :
          /\ client = [p \in Publishers |-> IF p = 1 /\ built THEN 1 ELSE None]
          /\ owner = IF built THEN <<1>> ELSE <<>>
          /\ running = IF built /\ accepted THEN {1} ELSE {}
          /\ unbuilt = ~built
          /\ refused = (built /\ ~accepted)
    /\ closed = {}
    /\ pc = [t \in Threads |-> "idle"]
    /\ at = [t \in Threads |-> 1]
    /\ disturbed = {}

-----------------------------------------------------------------------------
\* Thread t goes from one phase to another.
Go(t, from, to) == pc[t] = from /\ pc' = [pc EXCEPT ![t] = to]

\* _client of the publisher t is in.
Mine(t) == client[at[t]]

\* Where an exception takes a thread: its caller logs it and goes on.
AfterError == "idle"

\* Where connect returns to: publish, or the end of reconfigure_mqtt.
AfterConnect(t) == IF t = Web THEN "idle" ELSE "send"

-----------------------------------------------------------------------------
(* publish, by a reader.                                                   *)

\* manager.publish reads self.publisher.
Enter(r) ==
    /\ Go(r, "idle", "test")
    /\ at' = [at EXCEPT ![r] = current]
    /\ UNCHANGED <<current, client, owner, running, closed, historyVars>>

\* publish connects if there is no client.
Test(r) ==
    /\ Go(r, "test", IF Mine(r) = None THEN "check" ELSE "send")
    /\ UNCHANGED <<current, client, owner, running, closed, at, historyVars>>

\* The message is handed to the client; if that is gone, publish raises.
SendMessage(r) ==
    /\ Go(r, "send", "idle")
    /\ UNCHANGED <<current, client, owner, running, closed, at, historyVars>>

-----------------------------------------------------------------------------
(* connect, by any thread.                                                 *)

Check(t) ==
    /\ Go(t, "check", IF Mine(t) # None THEN AfterConnect(t) ELSE "build")
    /\ UNCHANGED <<current, client, owner, running, closed, at, historyVars>>

BuildClient(t) ==
    /\ Go(t, "build", "async")
    /\ owner' = Append(owner, at[t])
    /\ client' = [client EXCEPT ![at[t]] = Len(owner')]
    /\ UNCHANGED <<current, running, closed, at, historyVars>>

\* _build_client raises, and there is still no client.
BuildRaises(t) ==
    /\ Go(t, "build", AfterError)
    /\ unbuilt' = (unbuilt \/ at[t] = current)
    /\ UNCHANGED <<current, client, owner, running, closed, at, refused>>

\* connect_async, on whatever client there is now.
ConnectAsync(t) ==
    /\ Go(t, "async", IF Mine(t) = None THEN AfterError ELSE "loop")
    /\ closed' = closed \ {Mine(t)}
    /\ UNCHANGED <<current, client, owner, running, at, historyVars>>

\* connect_async raises: there is a client, but its loop is not started.
ConnectRaises(t) ==
    /\ Mine(t) # None
    /\ Go(t, "async", AfterError)
    /\ refused' = (refused \/ at[t] = current)
    /\ UNCHANGED <<current, client, owner, running, closed, at, unbuilt>>

\* loop_start, likewise.
LoopStart(t) ==
    /\ Go(t, "loop", IF Mine(t) = None THEN AfterError ELSE AfterConnect(t))
    /\ running' = running \cup ({Mine(t)} \ ({None} \cup closed))
    /\ UNCHANGED <<current, client, owner, closed, at, historyVars>>

Connect(t) ==
    \/ Check(t) \/ BuildClient(t) \/ BuildRaises(t)
    \/ ConnectAsync(t) \/ ConnectRaises(t) \/ LoopStart(t)

-----------------------------------------------------------------------------
(* reconfigure_mqtt, by the web thread.                                    *)

\* New settings have been saved; the old publisher is asked to disconnect.
Reconfigure ==
    /\ current < MaxPublishers
    /\ Go(Web, "idle", "retire")
    /\ at' = [at EXCEPT ![Web] = current]
    /\ UNCHANGED <<current, client, owner, running, closed, historyVars>>

\* Mistake: the client is forgotten before it is stopped.
RetireForgets ==
    /\ Go(Web, "retire", "clear")
    /\ UNCHANGED <<current, client, owner, running, closed, at, historyVars>>

\* disconnect does nothing if there is no client.
Retire ==
    /\ Go(Web, "retire", IF Mine(Web) # None THEN "stop" ELSE "swap")
    /\ UNCHANGED <<current, client, owner, running, closed, at, historyVars>>

\* loop_stop, on the client there is now.
LoopStop ==
    /\ Go(Web, "stop", "drop")
    /\ running' = running \ {Mine(Web)}
    /\ UNCHANGED <<current, client, owner, closed, at, historyVars>>

\* disconnect, likewise.
Disconnect ==
    /\ Go(Web, "drop", "clear")
    /\ running' = running \ {Mine(Web)}
    /\ closed' = closed \cup {Mine(Web)}
    /\ UNCHANGED <<current, client, owner, at, historyVars>>

Clear ==
    /\ Go(Web, "clear", "swap")
    /\ client' = [client EXCEPT ![at[Web]] = None]
    /\ UNCHANGED <<current, owner, running, closed, at, historyVars>>

\* Mistake: the publisher connected is the old one.
SwapConnectsOld ==
    /\ Go(Web, "swap", "check")
    /\ current' = current + 1
    /\ unbuilt' = FALSE /\ refused' = FALSE
    /\ UNCHANGED <<client, owner, running, closed, at>>

\* The new publisher takes over, and connects.
Swap ==
    /\ Go(Web, "swap", "check")
    /\ current' = current + 1
    /\ at' = [at EXCEPT ![Web] = current']
    /\ unbuilt' = FALSE /\ refused' = FALSE
    /\ UNCHANGED <<client, owner, running, closed>>

ReconfigureStep ==
    Reconfigure \/ Retire \/ LoopStop \/ Disconnect \/ Clear \/ Swap

Step ==
    \/ \E r \in Readers : Enter(r) \/ Test(r) \/ SendMessage(r)
    \/ \E t \in Threads : Connect(t)
    \/ ReconfigureStep

\* Thread t is in a publisher, to connect it or to retire it.
Inside(t) == pc[t] # "idle"
Changes(t) == pc[t] \notin {"idle", "test", "send"}

\* The publishers that one thread connects or retires while another is in them.
Met == {at[t] : t \in {x \in Threads : Changes(x) /\ \E u \in Threads \ {x} : Inside(u) /\ at[u] = at[x]}}

Next == Step /\ disturbed' = disturbed \cup Met'

Spec == Init /\ [][Next]_vars

-----------------------------------------------------------------------------
\* Clients that run although the current publisher does not refer to them.
Strays == running \ {client[current]}

\* Whenever no thread is inside a publisher, the current one has a client that
\* runs: readings go to the broker last set (manager.py:189-206,
\* publisher.py:103-130).  It has none only if none could be built, and then the
\* next reading tries again; it has one that does not run only if that refused
\* the broker, and then no reading tries again, although the log says "will keep
\* retrying in background" (manager.py:221).
CurrentConnected ==
    (\A t \in Threads : ~Inside(t)) =>
        \/ client[current] \in running
        \/ client[current] = None /\ unbuilt
        \/ client[current] # None /\ refused

\* A client that runs and is not the current one's, so that nothing will end it,
\* belongs to a publisher that one thread connected or retired while another was
\* in it; settings changed while no reading is published, and readings one at a
\* time, leave no client behind (manager.py:197-204, publisher.py:125-126).
StraysNeedOverlap == \A c \in Strays : owner[c] \in disturbed
=============================================================================
