---------------------------- MODULE ConfigStore ----------------------------
(***************************************************************************)
(* How an edit of the configuration becomes live, durable and effective:   *)
(* the handlers of web/app.py and their mutate, save_config and            *)
(* load_config in config.py, and a gateway that dies and is started again  *)
(* between any two of their steps.                                         *)
(*                                                                         *)
(* The async handlers run on the event loop, one at a time from their      *)
(* first step to their last; the others (delete meter, clear password) run *)
(* in threads of a pool.  They meet at config_lock.  A configuration is    *)
(* known by the edits it contains, by the requests that last wrote its     *)
(* broker and its history settings, and by its session secret.             *)
(***************************************************************************)
EXTENDS Naturals

CONSTANTS
    PoolEdits,    \* edits served by a thread of the pool
    MeterEdits,   \* edits of meters, mappings, dashboard or password
    MqttEdits,    \* edits of the broker settings
    HistoryEdits, \* edits of the history settings
    Imports,      \* requests that replace the whole configuration
    MaxCrashes,   \* how often the gateway dies (bound)
    Nobody,       \* no request, no secret, no file
    Torn          \* what a partly written file would load as

Edits == PoolEdits \cup MeterEdits \cup MqttEdits \cup HistoryEdits
Requests == Edits \cup Imports

ASSUME StoreAssumption ==
    /\ Edits \cap Imports = {}
    /\ PoolEdits \cap (MeterEdits \cup MqttEdits \cup HistoryEdits) = {}
    /\ MeterEdits \cap (MqttEdits \cup HistoryEdits) = {}
    /\ MqttEdits \cap HistoryEdits = {}
    /\ Nobody \notin Requests \cup Nat
    /\ MaxCrashes \in Nat

Writers == Requests \cup {Nobody}
Secrets == 0..MaxCrashes \cup {Nobody}

Configs == [edits : SUBSET Requests, mqtt : Writers, history : Writers, secret : Secrets]

ASSUME TornAssumption == Torn \notin Configs \cup {Nobody} /\ Nobody \notin Configs

VARIABLES
    up,            \* the gateway serves requests
    live,          \* manager.config
    disk,          \* content of the config file
    temp,          \* contents of the .config-*.tmp files beside it, by request
    holder,        \* who has config_lock
    rpc,           \* where each request is
    built,         \* new_config of each request
    publisherUses, \* whose broker settings the publisher was made with
    historyUses,   \* whose settings the history store works with
    signing,       \* the secret session cookies are signed with
    crashes,       \* how often the gateway has died so far
    dropped        \* history: edits an import has replaced

settings == <<publisherUses, historyUses>>
gateway == <<up, signing, crashes>>
vars == <<live, disk, temp, holder, rpc, built, dropped, settings, gateway>>

RequestPhases ==
    {"new", "wait", "apply", "temp", "write", "replace", "abort", "unlock",
     "mqtt", "history", "ok", "rejected", "failed", "lost"}

Pending(r) == rpc[r] \notin {"new", "ok", "rejected", "failed", "lost"}

FirstConfig == [edits |-> {}, mqtt |-> Nobody, history |-> Nobody, secret |-> Nobody]

\* Every variable has its type: above all, what the gateway runs with is a
\* whole configuration.
StoreTypeOK ==
    /\ up \in BOOLEAN
    /\ live \in Configs
    /\ disk \in Configs
    /\ temp \in [Requests -> Configs \cup {Torn, Nobody}]
    /\ holder \in Requests \cup {Nobody}
    /\ rpc \in [Requests -> RequestPhases]
    /\ built \in [Requests -> Configs]
    /\ publisherUses \in Writers
    /\ historyUses \in Writers
    /\ signing \in Secrets
    /\ crashes \in 0..MaxCrashes
    /\ dropped \in SUBSET Requests

\* A first start: no config file.  A temporary file that does not exist has
\* Nobody for its content.
Init ==
    /\ up = FALSE
    /\ live = FirstConfig
    /\ disk = FirstConfig
    /\ temp = [r \in Requests |-> Nobody]
    /\ holder = Nobody
    /\ rpc = [r \in Requests |-> "new"]
    /\ built = [r \in Requests |-> FirstConfig]
    /\ publisherUses = Nobody
    /\ historyUses = Nobody
    /\ signing = Nobody
    /\ crashes = 0
    /\ dropped = {}

-----------------------------------------------------------------------------
(* Start and end of the process.                                           *)

\* create_app makes a session secret when the file has none; the number of the
\* start stands for it.
FirstRun(cfg) == IF cfg.secret = Nobody THEN [cfg EXCEPT !.secret = crashes] ELSE cfg

\* cmd_run: load_config, the manager with its publisher and history store, and
\* create_app, which tries to save a secret it has made.
StartUp ==
    /\ ~up
    /\ up' = TRUE
    /\ live' = FirstRun(disk)
    /\ disk' \in {disk, live'}
    /\ signing' = live'.secret
    /\ publisherUses' = disk.mqtt
    /\ historyUses' = disk.history
    /\ UNCHANGED <<temp, holder, rpc, built, crashes, dropped>>

\* The process dies: no lock is held, no request is answered any more; a
\* temporary file that stays behind is never looked at again.
Crash ==
    /\ up
    /\ crashes < MaxCrashes
    /\ crashes' = crashes + 1
    /\ up' = FALSE
    /\ live' = disk
    /\ holder' = Nobody
    /\ rpc' = [r \in Requests |-> IF Pending(r) THEN "lost" ELSE rpc[r]]
    /\ built' = [r \in Requests |-> FirstConfig]
    /\ temp' = [r \in Requests |-> Nobody]
    /\ UNCHANGED <<disk, dropped, settings, signing>>

-----------------------------------------------------------------------------
(* A request.                                                              *)

Step(r, from, to) == rpc[r] = from /\ rpc' = [rpc EXCEPT ![r] = to]

\* The request is answered: its new_config is forgotten.
Answer(r, from, as) == Step(r, from, as) /\ built' = [built EXCEPT ![r] = FirstConfig]

\* Mistake: an import brings the session secret of its own file.
ImportOwnSecret(r) ==
    [edits |-> {r}, mqtt |-> r, history |-> r, secret |-> MaxCrashes]

\* The configuration of an import, with the session secret of the gateway.
Imported(r) == [edits |-> {r}, mqtt |-> r, history |-> r, secret |-> live.secret]

\* Mistake: the handlers that change settings run in the pool as well.
ServeAnyTime(r) ==
    /\ up
    /\ Step(r, "new", "wait")
    /\ built' = IF r \in Imports THEN [built EXCEPT ![r] = Imported(r)] ELSE built
    /\ UNCHANGED <<live, disk, temp, holder, dropped, settings, gateway>>

\* A handler is called and comes to its mutate; an import has made up its whole
\* configuration by then.
Serve(r) ==
    /\ up
    /\ r \in PoolEdits \/ \A q \in Requests \ PoolEdits : ~Pending(q)
    /\ Step(r, "new", "wait")
    /\ built' = IF r \in Imports THEN [built EXCEPT ![r] = Imported(r)] ELSE built
    /\ UNCHANGED <<live, disk, temp, holder, dropped, settings, gateway>>

\* What fn makes of the current configuration.
Edited(r) ==
    [live EXCEPT !.edits = @ \cup {r},
                 !.mqtt = IF r \in MqttEdits THEN r ELSE @,
                 !.history = IF r \in HistoryEdits THEN r ELSE @]

Built(r) == IF r \in Imports THEN built[r] ELSE Edited(r)

\* Mistake: the read-modify-write is not under a lock.
TakeAnyway(r) ==
    /\ Step(r, "wait", "apply")
    /\ holder' = r
    /\ built' = [built EXCEPT ![r] = Built(r)]
    /\ UNCHANGED <<live, disk, temp, dropped, settings, gateway>>

\* with config_lock; then fn(manager.config).
Take(r) ==
    /\ Step(r, "wait", "apply")
    /\ holder = Nobody
    /\ holder' = r
    /\ built' = [built EXCEPT ![r] = Built(r)]
    /\ UNCHANGED <<live, disk, temp, dropped, settings, gateway>>

\* fn raises under the lock: the meter is unknown, or its id is taken already.
FnRaises(r) ==
    /\ r \in MeterEdits
    /\ holder = Nobody
    /\ Answer(r, "wait", "rejected")
    /\ UNCHANGED <<live, disk, temp, holder, dropped, settings, gateway>>

Install(r) ==
    /\ live' = built[r]
    /\ dropped' = IF r \in Imports THEN dropped \cup live.edits ELSE dropped
    /\ UNCHANGED <<disk, temp, holder, built, settings, gateway>>

\* Mistake: the answer does not wait for the file.
ApplyAndAnswer(r) == Step(r, "apply", "unlock") /\ Install(r)

\* apply_config: the configuration is live before it is on disk.
Apply(r) == Step(r, "apply", "temp") /\ Install(r)

\* save_config: a temporary file beside the config file.
MakeTemp(r) ==
    /\ Step(r, "temp", "write")
    /\ temp' = [temp EXCEPT ![r] = Torn]
    /\ UNCHANGED <<live, disk, holder, built, dropped, settings, gateway>>

\* Mistake: the file is written in place.
WriteInPlace(r) ==
    /\ Step(r, "write", "replace")
    /\ disk' = Torn
    /\ temp' = [temp EXCEPT ![r] = built[r]]
    /\ UNCHANGED <<live, holder, built, dropped, settings, gateway>>

\* Written, flushed and synced.
WriteTemp(r) ==
    /\ Step(r, "write", "replace")
    /\ temp' = [temp EXCEPT ![r] = built[r]]
    /\ UNCHANGED <<live, disk, holder, built, dropped, settings, gateway>>

\* os.replace; the finally clause then finds no temporary file.
Replace(r) ==
    /\ Step(r, "replace", "unlock")
    /\ disk' = temp[r]
    /\ temp' = [temp EXCEPT ![r] = Nobody]
    /\ UNCHANGED <<live, holder, built, dropped, settings, gateway>>

\* The directory is read-only, the disk full, the file busy: save_config
\* raises, at whichever call.
SaveRaises(r) ==
    /\ \/ Step(r, "temp", "abort") \/ Step(r, "write", "abort") \/ Step(r, "replace", "abort")
    /\ UNCHANGED <<live, disk, temp, holder, built, dropped, settings, gateway>>

\* Mistake: the exception leaves the lock taken.
AbortKeepsLock(r) ==
    /\ Answer(r, "abort", "failed")
    /\ temp' = [temp EXCEPT ![r] = Nobody]
    /\ UNCHANGED <<live, disk, holder, dropped, settings, gateway>>

\* The finally clause after a failure; the request is answered with an error,
\* and what a settings request does after its mutate is not done.
Abort(r) ==
    /\ Answer(r, "abort", "failed")
    /\ temp' = [temp EXCEPT ![r] = Nobody]
    /\ holder' = Nobody
    /\ UNCHANGED <<live, disk, dropped, settings, gateway>>

\* The lock is free again; settings are yet to be put to use, then the request
\* is answered ok.
Unlock(r) ==
    /\ \/ r \in MqttEdits \cup Imports /\ Step(r, "unlock", "mqtt") /\ UNCHANGED built
       \/ r \in HistoryEdits /\ Step(r, "unlock", "history") /\ UNCHANGED built
       \/ r \in PoolEdits \cup MeterEdits /\ Answer(r, "unlock", "ok")
    /\ holder' = Nobody
    /\ UNCHANGED <<live, disk, temp, dropped, settings, gateway>>

\* manager.reconfigure_mqtt: a publisher for the settings that are live now.
ReconfigureMqtt(r) ==
    /\ \/ r \in Imports /\ Step(r, "mqtt", "history") /\ UNCHANGED built
       \/ r \notin Imports /\ Answer(r, "mqtt", "ok")
    /\ publisherUses' = live.mqtt
    /\ UNCHANGED <<live, disk, temp, holder, dropped, historyUses, gateway>>

\* history.update_settings with the values of the request.
UpdateSettings(r) ==
    /\ Answer(r, "history", "ok")
    /\ historyUses' = built[r].history
    /\ UNCHANGED <<live, disk, temp, holder, dropped, publisherUses, gateway>>

RequestStep(r) ==
    \/ Take(r) \/ FnRaises(r) \/ Apply(r) \/ MakeTemp(r) \/ WriteTemp(r)
    \/ Replace(r) \/ SaveRaises(r) \/ Abort(r) \/ Unlock(r) \/ ReconfigureMqtt(r)
    \/ UpdateSettings(r)

Next == StartUp \/ Crash \/ \E r \in Requests : Serve(r) \/ RequestStep(r)

\* A request that is being served goes on, and a gateway that died is started.
Spec ==
    /\ Init /\ [][Next]_vars
    /\ WF_vars(StartUp) /\ \A r \in Requests : WF_vars(RequestStep(r))

-----------------------------------------------------------------------------
Acknowledged == {r \in Requests : rpc[r] = "ok"} \ dropped
Refused == {r \in Requests : rpc[r] \in {"rejected", "failed"}}

\* The file always holds a whole configuration (config.py:281) with every edit
\* that was answered ok, whenever the gateway dies and whichever requests
\* follow, unless an import has replaced the edit (web/app.py:148).
AcknowledgedIsDurable == disk # Torn /\ Acknowledged \subseteq disk.edits

\* An edit answered ok is part of what the gateway runs with from then on:
\* neither a concurrent request nor a restart loses it.
NoLostUpdate == Acknowledged \subseteq live.edits

\* When nobody edits, what runs is what would be loaded, but for edits whose
\* save failed.
LiveIsSaved ==
    holder = Nobody =>
        live.edits \ disk.edits \subseteq Refused /\ disk.edits \ live.edits \subseteq dropped

\* When no handler is busy, publisher and history store work with the settings
\* the gateway runs with (web/app.py:12-14), unless the request that wrote them
\* failed to save: it has changed the live settings and is then over.
SettingsInForce ==
    up /\ (\A r \in Requests \ PoolEdits : ~Pending(r)) =>
        /\ publisherUses = live.mqtt \/ live.mqtt \in Refused
        /\ historyUses = live.history \/ live.history \in Refused

\* Applied and persisted atomically (web/app.py:148): an edit answered with an
\* error has no effect.  Not so: apply_config comes before save_config.
RefusedHasNoEffect == Refused \cap live.edits = {}

\* Logins survive: once the session secret is in the file, cookies are signed
\* with it for good, over imports, edits and restarts (web/app.py:137-145).
SessionsSurvive == [][signing' = signing \/ disk.secret = Nobody]_vars

\* No request waits for ever for the lock.
RequestsAnswered == \A r \in Requests : Pending(r) ~> ~Pending(r)
=============================================================================
