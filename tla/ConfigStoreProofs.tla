------------------------- MODULE ConfigStoreProofs -------------------------
(***************************************************************************)
(* What ConfigStore promises, for every set of requests and every number   *)
(* of crashes.                                                             *)
(***************************************************************************)
EXTENDS ConfigStore, TLAPS

\* From the look at the lock to its release.
Holding(r) == rpc[r] \in {"apply", "temp", "write", "replace", "abort", "unlock"}

\* The request has made its configuration live, and still has the lock.
Applied(r) == rpc[r] \in {"temp", "write", "replace", "abort", "unlock"}

\* What os.replace moves is a whole file.
TypeInv == StoreTypeOK /\ \A r \in Requests : rpc[r] = "replace" => temp[r] = built[r]

LEMMA ConfigsEdited ==
    ASSUME TypeInv, NEW r \in Requests
    PROVE  /\ Edited(r) \in Configs
           /\ Imported(r) \in Configs
           /\ Built(r) \in Configs
  BY DEF TypeInv, StoreTypeOK, Edited, Imported, Built, Configs, Writers

LEMMA ConfigsFirst == FirstConfig \in Configs
  BY DEF FirstConfig, Configs, Writers, Secrets

LEMMA ConfigsFirstRun ==
    ASSUME TypeInv
    PROVE  FirstRun(disk) \in Configs
  BY StoreAssumption DEF TypeInv, StoreTypeOK, FirstRun, Configs, Secrets, StoreAssumption

LEMMA TypeStep == TypeInv /\ [Next]_vars => TypeInv'
<1> SUFFICES ASSUME TypeInv, [Next]_vars PROVE TypeInv'
  OBVIOUS
<1>1. CASE StartUp
  BY <1>1, ConfigsFirstRun DEF StartUp, TypeInv, StoreTypeOK, Configs
<1>2. CASE Crash
  <2>1. crashes' \in 0..MaxCrashes
    BY <1>2, StoreAssumption DEF Crash, TypeInv, StoreTypeOK, StoreAssumption
  <2>2. rpc' \in [Requests -> RequestPhases]
    BY <1>2 DEF Crash, TypeInv, StoreTypeOK, RequestPhases
  <2>3. \A r \in Requests : rpc'[r] # "replace"
    BY <1>2 DEF Crash, Pending, TypeInv, StoreTypeOK, RequestPhases
  <2> QED
    BY <1>2, <2>1, <2>2, <2>3, ConfigsFirst DEF Crash, TypeInv, StoreTypeOK, settings
<1>3. ASSUME NEW r \in Requests, Serve(r) PROVE TypeInv'
  BY <1>3, ConfigsEdited DEF Serve, Step, TypeInv, StoreTypeOK, RequestPhases, settings, gateway
<1>4. ASSUME NEW r \in Requests, RequestStep(r) PROVE TypeInv'
  <2>1. CASE Take(r)
    BY <2>1, ConfigsEdited DEF Take, Step, TypeInv, StoreTypeOK, RequestPhases, settings, gateway
  <2>2. CASE FnRaises(r)
    BY <2>2, ConfigsFirst DEF FnRaises, Answer, Step, TypeInv, StoreTypeOK, RequestPhases, settings, gateway
  <2>3. CASE Apply(r)
    <3>1. dropped' \in SUBSET Requests
      BY <2>3 DEF Apply, Install, TypeInv, StoreTypeOK, Configs
    <3> QED
      BY <2>3, <3>1 DEF Apply, Install, Step, TypeInv, StoreTypeOK, RequestPhases, settings, gateway
  <2>4. CASE MakeTemp(r)
    BY <2>4 DEF MakeTemp, Step, TypeInv, StoreTypeOK, RequestPhases, settings, gateway
  <2>5. CASE WriteTemp(r)
    BY <2>5 DEF WriteTemp, Step, TypeInv, StoreTypeOK, RequestPhases, settings, gateway
  <2>6. CASE Replace(r)
    BY <2>6 DEF Replace, Step, TypeInv, StoreTypeOK, RequestPhases, settings, gateway
  <2>7. CASE SaveRaises(r)
    BY <2>7 DEF SaveRaises, Step, TypeInv, StoreTypeOK, RequestPhases, settings, gateway
  <2>8. CASE Abort(r)
    BY <2>8, ConfigsFirst DEF Abort, Answer, Step, TypeInv, StoreTypeOK, RequestPhases, settings, gateway
  <2>9. CASE Unlock(r)
    BY <2>9, ConfigsFirst DEF Unlock, Answer, Step, TypeInv, StoreTypeOK, RequestPhases, settings, gateway
  <2>10. CASE ReconfigureMqtt(r)
    <3>1. PICK phase \in RequestPhases : phase # "replace" /\ rpc' = [rpc EXCEPT ![r] = phase]
      BY <2>10 DEF ReconfigureMqtt, Answer, Step, RequestPhases
    <3>2. rpc' \in [Requests -> RequestPhases]
          /\ \A q \in Requests : rpc'[q] = "replace" => rpc[q] = "replace" /\ q # r
      BY <3>1 DEF TypeInv, StoreTypeOK
    <3>3. built' \in [Requests -> Configs] /\ \A q \in Requests \ {r} : built'[q] = built[q]
      BY <2>10, ConfigsFirst DEF ReconfigureMqtt, Answer, TypeInv, StoreTypeOK
    <3>4. publisherUses' \in Writers
      BY <2>10 DEF ReconfigureMqtt, TypeInv, StoreTypeOK, Configs
    <3> QED
      BY <2>10, <3>2, <3>3, <3>4 DEF ReconfigureMqtt, TypeInv, StoreTypeOK, gateway
  <2>11. CASE UpdateSettings(r)
    BY <2>11, ConfigsFirst DEF UpdateSettings, Answer, Step, TypeInv, StoreTypeOK, RequestPhases,
       settings, gateway, Configs
  <2> QED
    BY <1>4, <2>1, <2>2, <2>3, <2>4, <2>5, <2>6, <2>7, <2>8, <2>9, <2>10, <2>11 DEF RequestStep
<1>5. CASE UNCHANGED vars
  BY <1>5 DEF vars, settings, gateway, TypeInv, StoreTypeOK
<1> QED
  BY <1>1, <1>2, <1>3, <1>4, <1>5 DEF Next

LEMMA TypeInit == Init => TypeInv
<1> SUFFICES ASSUME Init PROVE TypeInv
  OBVIOUS
<1>1. crashes \in 0..MaxCrashes /\ signing \in Secrets
  BY StoreAssumption DEF Init, Secrets, StoreAssumption
<1>2. publisherUses \in Writers /\ historyUses \in Writers
  BY DEF Init, Writers
<1>3. \A r \in Requests : rpc[r] = "new" /\ rpc \in [Requests -> RequestPhases]
  BY DEF Init, RequestPhases
<1>4. live \in Configs /\ disk \in Configs /\ built \in [Requests -> Configs]
  BY ConfigsFirst DEF Init
<1>5. temp \in [Requests -> Configs \cup {Torn, Nobody}] /\ rpc \in [Requests -> RequestPhases]
  BY DEF Init, RequestPhases
<1> QED
  BY <1>1, <1>2, <1>3, <1>4, <1>5 DEF Init, TypeInv, StoreTypeOK

\* Every variable keeps its type; the gateway never runs with a torn file
\* (config.py:280-295).
THEOREM StoreTyping == Spec => [](StoreTypeOK /\ disk # Torn)
<1>1. TypeInv => StoreTypeOK /\ disk # Torn
  BY TornAssumption DEF TypeInv, StoreTypeOK, TornAssumption
<1> QED
  BY <1>1, TypeInit, TypeStep, PTL DEF Spec

-----------------------------------------------------------------------------
\* The lock: its holder is the one request that is between taking and giving
\* it back, and only a gateway that is up serves requests.
LockInv ==
    /\ \A r \in Requests : Holding(r) <=> holder = r
    /\ \A r \in Requests : Pending(r) => up

LEMMA LockStep ==
    ASSUME TypeInv, LockInv, [Next]_vars
    PROVE  LockInv'
<1> USE StoreAssumption DEF StoreAssumption, TypeInv, StoreTypeOK, LockInv, Holding, Pending, settings, gateway
<1>1. CASE StartUp
  BY <1>1 DEF StartUp
<1>2. CASE Crash
  BY <1>2 DEF Crash
<1>3. ASSUME NEW r \in Requests, Serve(r) PROVE LockInv'
  BY <1>3 DEF Serve, Step
<1>4. ASSUME NEW r \in Requests, RequestStep(r) PROVE LockInv'
  <2>1. CASE Take(r)
    BY <2>1 DEF Take, Step
  <2>2. CASE FnRaises(r)
    BY <2>2 DEF FnRaises, Answer, Step
  <2>3. CASE Apply(r)
    BY <2>3 DEF Apply, Install, Step
  <2>4. CASE MakeTemp(r)
    BY <2>4 DEF MakeTemp, Step
  <2>5. CASE WriteTemp(r)
    BY <2>5 DEF WriteTemp, Step
  <2>6. CASE Replace(r)
    BY <2>6 DEF Replace, Step
  <2>7. CASE SaveRaises(r)
    BY <2>7 DEF SaveRaises, Step
  <2>8. CASE Abort(r)
    BY <2>8 DEF Abort, Answer, Step
  <2>9. CASE Unlock(r)
    BY <2>9 DEF Unlock, Answer, Step
  <2>10. CASE ReconfigureMqtt(r)
    BY <2>10 DEF ReconfigureMqtt, Answer, Step
  <2>11. CASE UpdateSettings(r)
    BY <2>11 DEF UpdateSettings, Answer, Step
  <2> QED
    BY <1>4, <2>1, <2>2, <2>3, <2>4, <2>5, <2>6, <2>7, <2>8, <2>9, <2>10, <2>11 DEF RequestStep
<1>5. CASE UNCHANGED vars
  BY <1>5 DEF vars
<1> QED
  BY <1>1, <1>2, <1>3, <1>4, <1>5 DEF Next

\* What a request has made: from the configuration that is live when it has the
\* lock, or, an import, from its own file and the secret of the gateway.
BuildInv ==
    /\ \A r \in Edits : rpc[r] = "apply" => built[r] = Edited(r)
    /\ \A r \in Imports : Pending(r) => built[r] = Imported(r)
    /\ \A r \in Requests : Applied(r) => live = built[r]
    /\ \A r \in Requests : rpc[r] = "unlock" => disk = live

LEMMA EditedFields ==
    ASSUME live \in Configs, NEW r
    PROVE  /\ Edited(r).edits = live.edits \cup {r}
           /\ Edited(r).mqtt = IF r \in MqttEdits THEN r ELSE live.mqtt
           /\ Edited(r).history = IF r \in HistoryEdits THEN r ELSE live.history
           /\ Edited(r).secret = live.secret
  BY DEF Edited, Configs

LEMMA ImportedFields ==
    ASSUME NEW r
    PROVE  /\ Imported(r).edits = {r}
           /\ Imported(r).mqtt = r
           /\ Imported(r).history = r
           /\ Imported(r).secret = live.secret
  BY DEF Imported

LEMMA BuildStep ==
    ASSUME TypeInv, LockInv, BuildInv, [Next]_vars
    PROVE  BuildInv'
<1> USE StoreAssumption DEF StoreAssumption, TypeInv, StoreTypeOK, LockInv, Holding, Pending, settings, gateway,
      BuildInv, Applied
<1>a. live' = live => \A r \in Requests : Edited(r)' = Edited(r) /\ Imported(r)' = Imported(r)
  BY DEF Edited, Imported
<1>b. \A r \in Edits : r \in Requests /\ r \notin Imports
  BY DEF Edits, Requests
<1>c. \A r \in Imports : r \in Requests
  BY DEF Requests
<1>1. CASE StartUp
  <2>1. rpc' = rpc /\ \A r \in Requests : ~Pending(r)
    BY <1>1 DEF StartUp
  <2> QED
    BY <2>1, <1>b, <1>c
<1>2. CASE Crash
  <2>1. \A r \in Requests : ~Pending(r)'
    BY <1>2 DEF Crash
  <2> QED
    BY <2>1, <1>b, <1>c
<1>3. ASSUME NEW r \in Requests, Serve(r) PROVE BuildInv'
  BY <1>a, <1>b, <1>c, <1>3 DEF Serve, Step
<1>4. ASSUME NEW r \in Requests, RequestStep(r) PROVE BuildInv'
  <2>1. CASE Take(r)
    BY <1>a, <1>b, <1>c, <2>1 DEF Take, Step, Built
  <2>2. CASE FnRaises(r)
    BY <1>a, <1>b, <1>c, <2>2 DEF FnRaises, Answer, Step
  <2>3. CASE Apply(r)
    <3>1. holder = r /\ live' = built[r] /\ rpc' = [rpc EXCEPT ![r] = "temp"] /\ UNCHANGED <<built, disk, holder>>
      BY <2>3 DEF Apply, Install, Step
    <3>2. live'.secret = live.secret
      BY <2>3, <3>1, EditedFields, ImportedFields DEF Apply, Step, Requests
    <3>3. \A q \in Imports : Imported(q)' = Imported(q)
      BY <3>2 DEF Imported
    <3>4. \A q \in Requests : rpc'[q] # "apply" /\ (q # r => ~Applied(q)')
      BY <3>1, <2>3 DEF Apply, Step
    <3> QED
      BY <1>b, <1>c, <3>1, <3>3, <3>4
  <2>4. CASE MakeTemp(r)
    BY <1>a, <1>b, <1>c, <2>4 DEF MakeTemp, Step
  <2>5. CASE WriteTemp(r)
    BY <1>a, <1>b, <1>c, <2>5 DEF WriteTemp, Step
  <2>6. CASE Replace(r)
    BY <1>a, <1>b, <1>c, <2>6 DEF Replace, Step
  <2>7. CASE SaveRaises(r)
    BY <1>a, <1>b, <1>c, <2>7 DEF SaveRaises, Step
  <2>8. CASE Abort(r)
    BY <1>a, <1>b, <1>c, <2>8 DEF Abort, Answer, Step
  <2>9. CASE Unlock(r)
    BY <1>a, <1>b, <1>c, <2>9 DEF Unlock, Answer, Step
  <2>10. CASE ReconfigureMqtt(r)
    BY <1>a, <1>b, <1>c, <2>10 DEF ReconfigureMqtt, Answer, Step
  <2>11. CASE UpdateSettings(r)
    BY <1>a, <1>b, <1>c, <2>11 DEF UpdateSettings, Answer, Step
  <2> QED
    BY <1>4, <2>1, <2>2, <2>3, <2>4, <2>5, <2>6, <2>7, <2>8, <2>9, <2>10, <2>11 DEF RequestStep
<1>5. CASE UNCHANGED vars
  BY <1>a, <1>b, <1>c, <1>5 DEF vars
<1> QED
  BY <1>1, <1>2, <1>3, <1>4, <1>5 DEF Next

-----------------------------------------------------------------------------
\* The file has the request's edit.
Saved(r) == rpc[r] \in {"unlock", "mqtt", "history", "ok"}

\* What is saved is in the file and live, unless an import has dropped it; file
\* and live configuration differ only by what was dropped, was refused, or is
\* on its way.
EditsInv ==
    /\ \A r \in Requests : Saved(r) /\ r \notin dropped => r \in disk.edits /\ r \in live.edits
    /\ \A r \in Requests : Applied(r) => r \in live.edits
    /\ \A e \in live.edits : e \in disk.edits \/ e \in Refused \/ e = holder
    /\ \A e \in disk.edits : e \in live.edits \/ e \in dropped

LEMMA EditsStep ==
    ASSUME TypeInv, LockInv, BuildInv, EditsInv, [Next]_vars
    PROVE  EditsInv'
<1> USE StoreAssumption DEF StoreAssumption, TypeInv, StoreTypeOK, LockInv, Holding, settings, gateway,
      EditsInv, Applied, Saved, Refused
<1>1. CASE StartUp
  <2>1. live'.edits = disk.edits /\ disk'.edits = disk.edits
    BY <1>1 DEF StartUp, FirstRun, Configs
  <2>2. \A r \in Requests : ~Holding(r)
    BY <1>1 DEF StartUp, Pending
  <2> QED
    BY <1>1, <2>1, <2>2 DEF StartUp
<1>2. CASE Crash
  <2>1. \A r \in Requests : rpc'[r] = IF Pending(r) THEN "lost" ELSE rpc[r]
    BY <1>2 DEF Crash
  <2> QED
    BY <1>2, <2>1 DEF Crash, Pending
<1>3. ASSUME NEW r \in Requests, Serve(r) PROVE EditsInv'
  BY <1>3 DEF Serve, Step
<1>4. ASSUME NEW r \in Requests, RequestStep(r) PROVE EditsInv'
  <2>1. CASE Take(r)
    <3>1. live.edits \in SUBSET Requests
      BY DEF Configs
    <3> QED
      BY <2>1, <3>1 DEF Take, Step
  <2>2. CASE FnRaises(r)
    BY <2>2 DEF FnRaises, Answer, Step
  <2>3. CASE Apply(r)
    <3>1. /\ rpc[r] = "apply" /\ holder = r /\ live' = built[r] /\ rpc' = [rpc EXCEPT ![r] = "temp"]
          /\ UNCHANGED <<disk, holder>>
      BY <2>3 DEF Apply, Install, Step
    <3>2. \A q \in Requests : q # r => ~Applied(q)
      BY <3>1
    <3>3. CASE r \in Imports
      <4>1. live'.edits = {r} /\ dropped' = dropped \cup live.edits
        BY <2>3, <3>1, <3>3, ImportedFields DEF Apply, Install, BuildInv, Pending
      <4> QED
        BY <3>1, <3>2, <4>1
    <3>4. CASE r \notin Imports
      <4>1. live'.edits = live.edits \cup {r} /\ dropped' = dropped
        BY <2>3, <3>1, <3>4, EditedFields DEF Apply, Install, BuildInv, Requests
      <4> QED
        BY <3>1, <3>2, <4>1
    <3> QED
      BY <3>3, <3>4
  <2>4. CASE MakeTemp(r)
    BY <2>4 DEF MakeTemp, Step
  <2>5. CASE WriteTemp(r)
    BY <2>5 DEF WriteTemp, Step
  <2>6. CASE Replace(r)
    <3>1. disk' = live /\ live' = live /\ dropped' = dropped /\ holder' = holder
      BY <2>6 DEF Replace, Step, BuildInv
    <3> QED
      BY <2>6, <3>1 DEF Replace, Step
  <2>7. CASE SaveRaises(r)
    BY <2>7 DEF SaveRaises, Step
  <2>8. CASE Abort(r)
    BY <2>8 DEF Abort, Answer, Step
  <2>9. CASE Unlock(r)
    <3>1. disk = live
      BY <2>9 DEF Unlock, Answer, Step, BuildInv
    <3> QED
      BY <2>9, <3>1 DEF Unlock, Answer, Step
  <2>10. CASE ReconfigureMqtt(r)
    BY <2>10 DEF ReconfigureMqtt, Answer, Step
  <2>11. CASE UpdateSettings(r)
    BY <2>11 DEF UpdateSettings, Answer, Step
  <2> QED
    BY <1>4, <2>1, <2>2, <2>3, <2>4, <2>5, <2>6, <2>7, <2>8, <2>9, <2>10, <2>11 DEF RequestStep
<1>5. CASE UNCHANGED vars
  BY <1>5 DEF vars
<1> QED
  BY <1>1, <1>2, <1>3, <1>4, <1>5 DEF Next

-----------------------------------------------------------------------------
StoreInv == TypeInv /\ LockInv /\ BuildInv /\ EditsInv

LEMMA StoreInit == Init => StoreInv
<1> SUFFICES ASSUME Init PROVE StoreInv
  OBVIOUS
<1>1. /\ \A r \in Requests : rpc[r] = "new"
      /\ holder = Nobody /\ live = FirstConfig /\ disk = FirstConfig
  BY DEF Init
<1>2. live.edits = {} /\ disk.edits = {}
  BY <1>1 DEF FirstConfig
<1>3. LockInv
  BY <1>1, StoreAssumption DEF LockInv, Holding, Pending, StoreAssumption
<1>4. BuildInv
  BY <1>1 DEF BuildInv, Applied, Pending, Requests
<1>5. EditsInv
  BY <1>1, <1>2 DEF EditsInv, Applied, Saved
<1> QED
  BY <1>3, <1>4, <1>5, TypeInit DEF StoreInv

LEMMA StoreInductive == Spec => []StoreInv
<1>1. StoreInv /\ [Next]_vars => StoreInv'
  BY TypeStep, LockStep, BuildStep, EditsStep DEF StoreInv
<1> QED
  BY <1>1, StoreInit, PTL DEF Spec

\* The file always holds a whole configuration with every edit that was answered
\* ok, whenever the gateway dies (config.py:281, web/app.py:148).
THEOREM Durability == Spec => []AcknowledgedIsDurable
<1>1. StoreInv => AcknowledgedIsDurable
  BY TornAssumption DEF StoreInv, TypeInv, StoreTypeOK, TornAssumption, EditsInv, Saved,
     AcknowledgedIsDurable, Acknowledged
<1> QED
  BY <1>1, StoreInductive, PTL

\* No concurrent request and no restart loses an edit that was answered ok
\* (web/app.py:147-153).
THEOREM UpdatesKept == Spec => []NoLostUpdate
<1>1. StoreInv => NoLostUpdate
  BY DEF StoreInv, EditsInv, Saved, NoLostUpdate, Acknowledged
<1> QED
  BY <1>1, StoreInductive, PTL

\* When nobody edits, what runs is what would be loaded, but for edits whose
\* save failed (web/app.py:147-153).
THEOREM LiveAndSaved == Spec => []LiveIsSaved
<1>1. StoreInv => LiveIsSaved
  BY StoreAssumption DEF StoreAssumption, StoreInv, TypeInv, StoreTypeOK, EditsInv, LiveIsSaved, Configs
<1> QED
  BY <1>1, StoreInductive, PTL

-----------------------------------------------------------------------------
(* Sessions.                                                               *)

\* The gateway signs with the secret of what it runs with, and with that of
\* the file once it has one.
SecretInv ==
    /\ disk.secret # Nobody => signing = disk.secret
    /\ up => live.secret = signing

LEMMA SecretStep ==
    ASSUME StoreInv, SecretInv, [Next]_vars
    PROVE  SecretInv'
<1> USE StoreAssumption DEF StoreAssumption, StoreInv, TypeInv, StoreTypeOK, LockInv, Holding, Pending, settings,
      gateway, SecretInv
<1>1. CASE StartUp
  BY <1>1 DEF StartUp, FirstRun, Configs
<1>2. CASE Crash
  BY <1>2 DEF Crash
<1>3. ASSUME NEW r \in Requests, Serve(r) PROVE SecretInv'
  BY <1>3 DEF Serve, Step
<1>4. ASSUME NEW r \in Requests, RequestStep(r) PROVE SecretInv'
  <2>1. CASE Take(r)
    BY <2>1 DEF Take, Step
  <2>2. CASE FnRaises(r)
    BY <2>2 DEF FnRaises, Answer, Step
  <2>3. CASE Apply(r)
    <3>1. built[r].secret = live.secret
      BY <2>3, EditedFields, ImportedFields DEF Apply, Step, BuildInv, Requests
    <3> QED
      BY <2>3, <3>1 DEF Apply, Install, Step
  <2>4. CASE MakeTemp(r)
    BY <2>4 DEF MakeTemp, Step
  <2>5. CASE WriteTemp(r)
    BY <2>5 DEF WriteTemp, Step
  <2>6. CASE Replace(r)
    <3>1. disk' = live /\ live.secret = signing
      BY <2>6 DEF Replace, Step, BuildInv, Applied
    <3> QED
      BY <2>6, <3>1 DEF Replace, Step
  <2>7. CASE SaveRaises(r)
    BY <2>7 DEF SaveRaises, Step
  <2>8. CASE Abort(r)
    BY <2>8 DEF Abort, Answer, Step
  <2>9. CASE Unlock(r)
    BY <2>9 DEF Unlock, Answer, Step
  <2>10. CASE ReconfigureMqtt(r)
    BY <2>10 DEF ReconfigureMqtt, Answer, Step
  <2>11. CASE UpdateSettings(r)
    BY <2>11 DEF UpdateSettings, Answer, Step
  <2> QED
    BY <1>4, <2>1, <2>2, <2>3, <2>4, <2>5, <2>6, <2>7, <2>8, <2>9, <2>10, <2>11 DEF RequestStep
<1>5. CASE UNCHANGED vars
  BY <1>5 DEF vars
<1> QED
  BY <1>1, <1>2, <1>3, <1>4, <1>5 DEF Next

\* Once the session secret is in the file, cookies are signed with it for good,
\* over imports, edits and restarts (web/app.py:137-145).
THEOREM SessionsKept == Spec => SessionsSurvive
<1>1. Init => SecretInv
  BY DEF Init, FirstConfig, SecretInv
<1>2. StoreInv /\ SecretInv /\ [Next]_vars => SecretInv'
  BY SecretStep
<1>3. StoreInv /\ SecretInv /\ [Next]_vars => [signing' = signing \/ disk.secret = Nobody]_vars
  <2> SUFFICES ASSUME StoreInv, SecretInv, Next PROVE signing' = signing \/ disk.secret = Nobody
    BY DEF vars, gateway
  <2>1. CASE StartUp
    BY <2>1 DEF StartUp, FirstRun, SecretInv
  <2>2. CASE ~StartUp
    BY <2>2 DEF Next, Crash, Serve, RequestStep, Take, FnRaises, Apply, Install, MakeTemp, WriteTemp, Replace,
       SaveRaises, Abort, Unlock, ReconfigureMqtt, UpdateSettings, gateway
  <2> QED
    BY <2>1, <2>2
<1> QED
  BY <1>1, <1>2, <1>3, StoreInductive, PTL DEF Spec, SessionsSurvive

-----------------------------------------------------------------------------
(* Settings.                                                               *)

\* From making its settings live to putting them to use.
ToMqtt(r) == Applied(r) \/ rpc[r] = "mqtt"
ToHistory(r) == ToMqtt(r) \/ rpc[r] = "history"

\* One handler at a time runs on the event loop, and after its mutate it goes
\* where its kind of request goes.
TurnInv ==
    /\ \A q, r \in Requests \ PoolEdits : Pending(q) /\ Pending(r) => q = r
    /\ \A r \in Requests : rpc[r] = "mqtt" => r \in MqttEdits \cup Imports
    /\ \A r \in Requests : rpc[r] = "history" => r \in HistoryEdits \cup Imports

LEMMA TurnStep ==
    ASSUME StoreInv, TurnInv, [Next]_vars
    PROVE  TurnInv'
<1> USE DEF StoreInv, TypeInv, StoreTypeOK, Pending, settings, gateway, TurnInv
<1>1. CASE StartUp
  BY <1>1 DEF StartUp
<1>2. CASE Crash
  BY <1>2 DEF Crash
<1>3. ASSUME NEW r \in Requests, Serve(r) PROVE TurnInv'
  BY <1>3 DEF Serve, Step
<1>4. ASSUME NEW r \in Requests, RequestStep(r) PROVE TurnInv'
  <2>1. CASE Take(r)
    BY <2>1 DEF Take, Step
  <2>2. CASE FnRaises(r)
    BY <2>2 DEF FnRaises, Answer, Step
  <2>3. CASE Apply(r)
    BY <2>3 DEF Apply, Install, Step
  <2>4. CASE MakeTemp(r)
    BY <2>4 DEF MakeTemp, Step
  <2>5. CASE WriteTemp(r)
    BY <2>5 DEF WriteTemp, Step
  <2>6. CASE Replace(r)
    BY <2>6 DEF Replace, Step
  <2>7. CASE SaveRaises(r)
    BY <2>7 DEF SaveRaises, Step
  <2>8. CASE Abort(r)
    BY <2>8 DEF Abort, Answer, Step
  <2>9. CASE Unlock(r)
    BY <2>9 DEF Unlock, Answer, Step
  <2>10. CASE ReconfigureMqtt(r)
    BY <2>10 DEF ReconfigureMqtt, Answer, Step
  <2>11. CASE UpdateSettings(r)
    BY <2>11 DEF UpdateSettings, Answer, Step
  <2> QED
    BY <1>4, <2>1, <2>2, <2>3, <2>4, <2>5, <2>6, <2>7, <2>8, <2>9, <2>10, <2>11 DEF RequestStep
<1>5. CASE UNCHANGED vars
  BY <1>5 DEF vars
<1> QED
  BY <1>1, <1>2, <1>3, <1>4, <1>5 DEF Next

\* The broker settings that are live are in use, were refused, or are about to
\* be put to use.
MqttInv ==
    up => \/ publisherUses = live.mqtt
          \/ live.mqtt \in Refused
          \/ live.mqtt \in MqttEdits \cup Imports /\ ToMqtt(live.mqtt)

LEMMA MqttStep ==
    ASSUME StoreInv, TurnInv, MqttInv, [Next]_vars
    PROVE  MqttInv'
<1> USE StoreAssumption DEF StoreAssumption, StoreInv, TypeInv, StoreTypeOK, settings, gateway, TurnInv,
      MqttInv, ToMqtt, Applied, Refused, Edits, Requests
<1>1. CASE StartUp
  BY <1>1 DEF StartUp, FirstRun, Configs
<1>2. CASE Crash
  BY <1>2 DEF Crash
<1>3. ASSUME NEW r \in Requests, Serve(r) PROVE MqttInv'
  BY <1>3 DEF Serve, Step
<1>4. ASSUME NEW r \in Requests, RequestStep(r) PROVE MqttInv'
  <2>1. CASE Take(r)
    BY <2>1 DEF Take, Step
  <2>2. CASE FnRaises(r)
    BY <2>2 DEF FnRaises, Answer, Step
  <2>3. CASE Apply(r)
    <3>1. /\ live' = built[r] /\ rpc' = [rpc EXCEPT ![r] = "temp"] /\ rpc[r] = "apply" /\ up' = up
          /\ publisherUses' = publisherUses
      BY <2>3 DEF Apply, Install, Step
    <3>2. CASE r \in MqttEdits \cup Imports
      BY <3>1, <3>2, EditedFields, ImportedFields DEF BuildInv, Pending
    <3>3. CASE r \notin MqttEdits \cup Imports
      <4>1. live'.mqtt = live.mqtt
        BY <3>1, <3>3, EditedFields DEF BuildInv
      <4> QED
        BY <3>1, <3>3, <4>1
    <3> QED
      BY <3>2, <3>3
  <2>4. CASE MakeTemp(r)
    BY <2>4 DEF MakeTemp, Step
  <2>5. CASE WriteTemp(r)
    BY <2>5 DEF WriteTemp, Step
  <2>6. CASE Replace(r)
    BY <2>6 DEF Replace, Step
  <2>7. CASE SaveRaises(r)
    BY <2>7 DEF SaveRaises, Step
  <2>8. CASE Abort(r)
    BY <2>8 DEF Abort, Answer, Step
  <2>9. CASE Unlock(r)
    BY <2>9 DEF Unlock, Answer, Step
  <2>10. CASE ReconfigureMqtt(r)
    BY <2>10 DEF ReconfigureMqtt, Answer, Step
  <2>11. CASE UpdateSettings(r)
    BY <2>11 DEF UpdateSettings, Answer, Step
  <2> QED
    BY <1>4, <2>1, <2>2, <2>3, <2>4, <2>5, <2>6, <2>7, <2>8, <2>9, <2>10, <2>11 DEF RequestStep
<1>5. CASE UNCHANGED vars
  BY <1>5 DEF vars
<1> QED
  BY <1>1, <1>2, <1>3, <1>4, <1>5 DEF Next

\* So are the history settings; a request that is about to put its settings to
\* use, and may so by values it keeps of its own, is the one that is live.
HistoryInv ==
    /\ \A r \in HistoryEdits \cup Imports : ToHistory(r) => live.history = r /\ built[r].history = r
    /\ up => \/ historyUses = live.history
             \/ live.history \in Refused
             \/ live.history \in HistoryEdits \cup Imports /\ ToHistory(live.history)

LEMMA HistoryStep ==
    ASSUME StoreInv, TurnInv, HistoryInv, [Next]_vars
    PROVE  HistoryInv'
<1> USE StoreAssumption DEF StoreAssumption, StoreInv, TypeInv, StoreTypeOK, settings, gateway, TurnInv,
      HistoryInv, ToHistory, ToMqtt, Applied, Refused, Edits, Requests
<1>1. CASE StartUp
  BY <1>1 DEF StartUp, FirstRun, Configs, LockInv, Pending
<1>2. CASE Crash
  BY <1>2 DEF Crash, Pending
<1>3. ASSUME NEW r \in Requests, Serve(r) PROVE HistoryInv'
  BY <1>3 DEF Serve, Step
<1>4. ASSUME NEW r \in Requests, RequestStep(r) PROVE HistoryInv'
  <2>1. CASE Take(r)
    BY <2>1 DEF Take, Step
  <2>2. CASE FnRaises(r)
    BY <2>2 DEF FnRaises, Answer, Step
  <2>3. CASE Apply(r)
    <3>1. /\ live' = built[r] /\ rpc' = [rpc EXCEPT ![r] = "temp"] /\ rpc[r] = "apply" /\ up' = up
          /\ historyUses' = historyUses /\ built' = built
      BY <2>3 DEF Apply, Install, Step
    <3>2. CASE r \in HistoryEdits \cup Imports
      <4>1. live'.history = r
        BY <3>1, <3>2, EditedFields, ImportedFields DEF BuildInv, Pending
      <4>2. \A q \in HistoryEdits \cup Imports : q # r => ~ToHistory(q)'
        BY <3>1, <3>2 DEF Pending
      <4> QED
        BY <3>1, <3>2, <4>1, <4>2
    <3>3. CASE r \notin HistoryEdits \cup Imports
      <4>1. live'.history = live.history
        BY <3>1, <3>3, EditedFields DEF BuildInv
      <4> QED
        BY <3>1, <3>3, <4>1
    <3> QED
      BY <3>2, <3>3
  <2>4. CASE MakeTemp(r)
    BY <2>4 DEF MakeTemp, Step
  <2>5. CASE WriteTemp(r)
    BY <2>5 DEF WriteTemp, Step
  <2>6. CASE Replace(r)
    BY <2>6 DEF Replace, Step
  <2>7. CASE SaveRaises(r)
    BY <2>7 DEF SaveRaises, Step
  <2>8. CASE Abort(r)
    BY <2>8 DEF Abort, Answer, Step
  <2>9. CASE Unlock(r)
    BY <2>9 DEF Unlock, Answer, Step
  <2>10. CASE ReconfigureMqtt(r)
    BY <2>10 DEF ReconfigureMqtt, Answer, Step
  <2>11. CASE UpdateSettings(r)
    BY <2>11 DEF UpdateSettings, Answer, Step
  <2> QED
    BY <1>4, <2>1, <2>2, <2>3, <2>4, <2>5, <2>6, <2>7, <2>8, <2>9, <2>10, <2>11 DEF RequestStep
<1>5. CASE UNCHANGED vars
  BY <1>5 DEF vars
<1> QED
  BY <1>1, <1>2, <1>3, <1>4, <1>5 DEF Next

\* When no handler is busy, publisher and history store work with the settings
\* the gateway runs with, unless their request failed to save (web/app.py:12-14).
THEOREM SettingsUsed == Spec => []SettingsInForce
<1> DEFINE Inv == TurnInv /\ MqttInv /\ HistoryInv
<1>1. Init => Inv
  <2> SUFFICES ASSUME Init PROVE Inv
    OBVIOUS
  <2>1. /\ \A r \in Requests : rpc[r] = "new"
        /\ ~up
    BY DEF Init
  <2>2. \A r \in HistoryEdits \cup Imports : r \in Requests
    BY DEF Requests, Edits
  <2> QED
    BY <2>1, <2>2 DEF TurnInv, MqttInv, HistoryInv, ToHistory, ToMqtt, Applied, Pending
<1>2. StoreInv /\ Inv /\ [Next]_vars => Inv'
  BY TurnStep, MqttStep, HistoryStep
<1>3. StoreInv /\ Inv => SettingsInForce
  BY StoreAssumption DEF StoreAssumption, MqttInv, HistoryInv, ToHistory, ToMqtt, Applied, Pending,
     SettingsInForce, Edits, Requests
<1> QED
  <2> HIDE DEF Inv
  <2> QED
    BY <1>1, <1>2, <1>3, StoreInductive, PTL DEF Spec
=============================================================================
