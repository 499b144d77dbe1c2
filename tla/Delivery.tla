------------------------------ MODULE Delivery ------------------------------
(***************************************************************************)
(* What a reader's callback does with a decoded result, MeterWorker        *)
(* ._on_result of manager.py, while the manager restarts readers around    *)
(* it: every value is shown on the web page, published when a mapping says *)
(* so, and recorded.                                                       *)
(*                                                                         *)
(* The steps are those of MeterManager, with the callback, one step there, *)
(* taken apart here: a chunk of bytes completes one or more results, each  *)
(* result is handled under the worker's lock, value by value, and an       *)
(* exception ends the result it comes from.  Times are not counted: a      *)
(* value is fresh when the latest result of its reader has brought it.     *)
(***************************************************************************)
EXTENDS MeterManager, ObisValues, FiniteSets

CONSTANTS
    MappingsOf,   \* the mappings of a MeterConfig, a sequence for each
    Topics,       \* MQTT topics
    Values,       \* readings a result may bring
    Chunks        \* sequences of results, each a sequence of values

ASSUME DeliveryAssumption ==
    /\ DOMAIN MappingsOf = MeterConfigs
    /\ \A c \in MeterConfigs :
          Len(MappingsOf[c]) \in Nat /\ DOMAIN MappingsOf[c] = 1..Len(MappingsOf[c])
    /\ \A v \in Values : /\ v.unit \in DOMAIN UnitOptions
                         /\ v.numeric => v.raw \in Int /\ v.scaler \in Int
    /\ Chunks \subseteq Seq(Seq(Values))
    /\ \A c \in MeterConfigs : \A i \in DOMAIN MappingsOf[c] : MappingsOf[c][i].topic \in Topics

VARIABLES
    madeWith,   \* worker.config of every worker object, registered or not
    results,    \* results of the chunk the reader has yet to hand out
    rest,       \* values of the result in hand that are yet to be handled
    discovered, \* worker.discovered, by code
    latest,     \* history: the latest result
    sent,       \* the message the latest result of each meter put on each topic
    stored      \* the sample the latest result of each meter left for each code

deliveryVars ==
    <<madeWith, results, rest, discovered, latest, sent, stored>>
allVars == <<vars, deliveryVars>>

Nothing == [c \in {} |-> None]

DeliveryInit ==
    /\ Init
    /\ madeWith = [r \in Workers |-> None]
    /\ results = [r \in Workers |-> <<>>]
    /\ rest = [r \in Workers |-> <<>>]
    /\ discovered = [r \in Workers |-> Nothing]
    /\ latest = [r \in Workers |-> <<>>]
    /\ sent = [m \in Meters |-> Nothing]
    /\ stored = [m \in Meters |-> Nothing]

-----------------------------------------------------------------------------
MappingsFor(cfg, code) == {i \in DOMAIN MappingsOf[cfg] : MappingsOf[cfg][i].obis = code}
EnabledFor(cfg, code) == {i \in MappingsFor(cfg, code) : MappingsOf[cfg][i].enabled}

\* Mistake: the page and the history keep the default unit.
UnitIsDefault(cfg, code) == NoLabel

\* unit_by_obis.get: the last mapping of the code, enabled or not.
UnitByObis(cfg, code) ==
    IF MappingsFor(cfg, code) = {} THEN NoLabel ELSE MappingsOf[cfg][Max(MappingsFor(cfg, code))].unit

\* enabled.get: the last enabled mapping of the code.
EnabledMapping(cfg, code) == MappingsOf[cfg][Max(EnabledFor(cfg, code))]

-----------------------------------------------------------------------------
(* The manager's steps, seen from the callbacks.                           *)

Launched(r) == rpc[r] = "off" /\ rpc'[r] = "top"

\* Nothing refers to the object any more: what it held is gone.
Gone(r) == Fresh(r[1], r[2])'

\* Values of worker objects after a step of the manager.
Kept(f, none) == [r \in Workers |-> IF Gone(r) THEN none ELSE f[r]]

\* A step A of the manager or of a reader.  A chunk that completes results is
\* one of Chunks; the reader goes on only when all have been handed out.
Around(A) ==
    /\ A
    /\ \A r \in Workers :
          rpc[r] = "deliver" /\ rpc'[r] # "deliver" => results[r] = <<>> /\ rest[r] = <<>>
    /\ \E chunk \in Chunks :
          results' = [r \in Workers |->
                         IF rpc[r] = "read" /\ rpc'[r] = "deliver" THEN chunk ELSE results[r]]
    /\ madeWith' = [r \in Workers |->
                       IF Launched(r) THEN config[r[1]] ELSE IF Gone(r) THEN None ELSE madeWith[r]]
    /\ discovered' = Kept(discovered, Nothing)
    /\ latest' = Kept(latest, <<>>)
    /\ UNCHANGED <<rest, sent, stored>>

-----------------------------------------------------------------------------
(* The callback.                                                           *)

\* worker._lock, held from the first value of a result to the last.
LockHeld(r) == rest[r] # <<>>

\* The entries of a cache, none of them fresh any more.
Aged(f) == [c \in DOMAIN f |-> [text |-> f[c].text, unit |-> f[c].unit, fresh |-> FALSE]]

\* process_bytes calls _on_result with the next result of the chunk.
BeginResult(r) ==
    /\ rpc[r] = "deliver" /\ ~LockHeld(r) /\ results[r] # <<>>
    /\ rest' = [rest EXCEPT ![r] = Head(results[r])]
    /\ results' = [results EXCEPT ![r] = Tail(@)]
    /\ latest' = [latest EXCEPT ![r] = Head(results[r])]
    /\ discovered' = [discovered EXCEPT ![r] = Aged(@)]
    /\ sent' = [sent EXCEPT ![r[1]] = Nothing]
    /\ stored' = [stored EXCEPT ![r[1]] = Nothing]
    /\ UNCHANGED <<vars, madeWith>>

Put(f, code, entry) == [c \in DOMAIN f \cup {code} |-> IF c = code THEN entry ELSE f[c]]

\* Mistake: only what is mapped is remembered.
DiscoverMapped(r, v, label) ==
    discovered' = IF EnabledFor(madeWith[r], v.code) = {} THEN discovered
                  ELSE [discovered EXCEPT ![r] = Put(@, v.code,
        [text |-> ValueToString(v, label), unit |-> UnitFor(v, label), fresh |-> TRUE])]

\* self.discovered[value.code] = DiscoveredValue(...)
Discover(r, v, label) ==
    discovered' = [discovered EXCEPT ![r] = Put(@, v.code,
        [text |-> ValueToString(v, label), unit |-> UnitFor(v, label), fresh |-> TRUE])]

\* publish under the enabled mapping, if there is one; a failure is logged.
Publish(r, v) ==
    \/ UNCHANGED sent
    \/ /\ EnabledFor(madeWith[r], v.code) # {}
       /\ LET mapping == EnabledMapping(madeWith[r], v.code) IN
          sent' = [sent EXCEPT ![r[1]] = Put(@, mapping.topic,
             [reading |-> v, text |-> ValueToString(v, mapping.unit), unit |-> UnitFor(v, mapping.unit)])]

\* record_history of a numeric value, unless the history is off; a failure is
\* logged, and the store may drop a sample that comes too soon.
Record(r, v, label) ==
    \/ UNCHANGED stored
    \/ /\ v.numeric
       /\ stored' = [stored EXCEPT ![r[1]] = Put(@, v.code,
             [number |-> NumericValue(v, label), unit |-> UnitFor(v, label)])]

\* The texts the value is about to be turned into: for the page first, then for
\* the broker.
Shows(r, v) == Fits(v, UnitByObis(madeWith[r], v.code))
Sends(r, v) ==
    EnabledFor(madeWith[r], v.code) # {} => Fits(v, EnabledMapping(madeWith[r], v.code).unit)

HandleValue(r) ==
    /\ LockHeld(r)
    /\ LET v == Head(rest[r])
           label == UnitByObis(madeWith[r], v.code)
       IN  /\ Shows(r, v) /\ Sends(r, v)
           /\ Discover(r, v, label)
           /\ Publish(r, v)
           /\ Record(r, v, label)
    /\ rest' = [rest EXCEPT ![r] = Tail(@)]
    /\ UNCHANGED <<vars, madeWith, results, latest>>

\* A conversion raises: the values behind it are not handled.  When it is the
\* one for the broker, the page has the value already.
HandleRaises(r) ==
    /\ LockHeld(r)
    /\ LET v == Head(rest[r]) IN
       \/ ~Shows(r, v) /\ UNCHANGED discovered
       \/ Shows(r, v) /\ ~Sends(r, v) /\ Discover(r, v, UnitByObis(madeWith[r], v.code))
    /\ rest' = [rest EXCEPT ![r] = <<>>]
    /\ UNCHANGED <<vars, madeWith, results, latest, sent, stored>>

Callback(r) == BeginResult(r) \/ HandleValue(r) \/ HandleRaises(r)

ManagerStep == Around(Next)

DeliveryNext == ManagerStep \/ \E r \in Workers : Callback(r)

-----------------------------------------------------------------------------
(* Properties.                                                             *)

OneMapping(cfg, code) == Cardinality(MappingsFor(cfg, code)) = 1

\* The output unit applies to page, MQTT and history alike (manager.py:110-111):
\* what the page shows of a reading and what subscribers got of it are one text
\* in one unit, and what was recorded is that number, in that unit, as nearly as
\* a double can be it (obis.py:196-201).  Holds for codes with one
\* mapping; with two, the page takes the unit of the last of them and the
\* broker that of the last enabled one.  And for results that name a code once:
\* when the second of two values cannot be published, the first stays sent.
ReadingsAgree ==
    \A m \in Meters : Registered(m) =>
        LET r == <<m, workers[m]>> IN
        \A c \in DOMAIN discovered[r] : discovered[r][c].fresh /\ OneMapping(madeWith[r], c) =>
            /\ \A t \in DOMAIN sent[m] : sent[m][t].reading.code = c =>
                  sent[m][t].text = discovered[r][c].text /\ sent[m][t].unit = discovered[r][c].unit
            /\ c \in DOMAIN stored[m] =>
                  /\ SameToTheBit(stored[m][c].number, ReadBack(discovered[r][c].text))
                  /\ stored[m][c].unit = discovered[r][c].unit

\* A subscriber reads the meter's number to the nearest last place, and halves
\* of one away from zero (obis.py:116-118).
PayloadIsNearest ==
    \A m \in Meters : \A t \in DOMAIN sent[m] : sent[m][t].reading.numeric =>
        Nearest(Scaled(sent[m][t].reading, sent[m][t].unit), ReadBack(sent[m][t].text))

\* The codes of the latest result up to the first value whose conversion
\* raises; that one's too, when it was for the broker that it raised.
ShownPart(r) ==
    {latest[r][i].code : i \in {k \in DOMAIN latest[r] :
        /\ Shows(r, latest[r][k])
        /\ \A n \in 1..(k - 1) : Shows(r, latest[r][n]) /\ Sends(r, latest[r][n])}}

\* A page never mixes two results of a meter or shows a half of one
\* (manager.py:7-9, 116): whenever it can be drawn, what it has of the latest
\* result is that result up to the first value that cannot be converted, mapped
\* or not, and the rest is from older ones.  docs/CONFIGURATION.md:168-169 says
\* more, that every numeric value is shown and recorded: those behind such a
\* value are not.
PageShowsResult ==
    \A r \in Workers : Live(r) /\ ~LockHeld(r) =>
        {c \in DOMAIN discovered[r] : discovered[r][c].fresh} = ShownPart(r)

\* The current mappings of meter m put code on topic t.
AskedFor(m, code, t) ==
    /\ config[m] # None
    /\ \E i \in EnabledFor(config[m], code) : MappingsOf[config[m]][i].topic = t

\* Once an edit is applied nothing is published that the current mappings of
\* the meter do not ask for, the reader's own result in hand included
\* (manager.py:253-258), unless a PIN operation has the meter.  Holds when every
\* join sees its thread end.
RetiredMappingsSilent ==
    [][\A m \in Meters \ reserved : \A t \in DOMAIN sent'[m] \ DOMAIN sent[m] :
          lock = "free" => AskedFor(m, sent'[m][t].reading.code, t)]_sent

-----------------------------------------------------------------------------
\* A thread that can run does run, and the calls it makes return.
ReadersRun ==
    \A r \in Workers : WF_vars(ReaderThread(r)) /\ WF_deliveryVars(Callback(r))

\* A port tried again and again opens some time, and a meter listened to again
\* and again sends a complete message some time.
MetersSend ==
    \A r \in Workers : /\ SF_vars(OpenOk(r) /\ UNCHANGED managerVars)
                       /\ SF_vars(ReadResults(r) /\ UNCHANGED managerVars)

DeliverySpec == DeliveryInit /\ [][DeliveryNext]_allVars /\ ReadersRun /\ MetersSend
=============================================================================
