# TLA+ models of smlgw

smlgw is a gateway that reads SML smart meters over serial or network ports,
publishes their values over MQTT, records them in SQLite, and can enter a
meter's PIN by light pulses or by sweeping a range of PINs. It is a threaded
Python program: one reader thread per meter, one thread per PIN operation, an
event loop and a thread pool that serve the HTTP API, and the client threads of
the MQTT library. This directory holds TLA+ models of the parts of it that are
hard to get right, the TLC runs that check them on small instances, and proofs,
checked by TLAPS, of what matters most for instances of every size.

All paths below are relative to `src/smlgw/`, unless they begin with `docs/`.

## Inventory

| Part | State | Operations | Meets | What makes it correct |
|---|---|---|---|---|
| Meter reader (`reader.py`) | its transport's open flag, the state shown, the parser's buffer | `run`, `poll_once`, `process_bytes` | its worker's stop event; the result callback | comes back after every failure, ends when told, shows what its port is as soon as it goes on |
| Meter manager (`manager.py`) | config, registered workers, reserved meters, stopped flag, one lock | `start`, `stop`, `apply_config`, `exclusive_transport`, `reconfigure_mqtt` | readers, PIN jobs, web handlers, signal handler | one user per port; no reader lost, outdated or left after stop; PIN operations give the port back |
| PIN jobs (`web/jobs.py`, `pin.py`) | the job of each meter, its thread, runner and progress | send, bruteforce, cancel, status | manager, meter | one at a time; what is reported is true; a cancel stops it; it ends |
| Configuration store (`config.py`, `mutate` in `web/app.py`) | live config, file, temporary files, `config_lock` | edits, import, load, save | manager, crashes | no acknowledged edit is lost; the file is never torn |
| MQTT publisher (`publisher.py`) | one client | `connect`, `disconnect`, `publish` | reader threads, `reconfigure_mqtt` | after a broker change the new publisher has a client that runs |
| History store (`history.py`) | rows, last stored times, last prune | `record`, `prune`, `query`, `update_settings` | reader threads, web handlers | spacing, retention, faithful averages |
| SML parser, builder, CRC (`sml/`) | the stream parser's buffer | `feed`, `decode_messages`, `build_*` | reader, simulator | a frame is found whatever the chunking and noise; decoding undoes encoding |
| Delivery (`MeterWorker._on_result`, `discovered_list` in `manager.py`) | discovered values, the worker's lock | one result, value by value | reader, mappings, publisher, history, web page | page, broker and history show one number; the page has the latest result as far as it could be converted; nothing sent for a mapping that is gone |
| OBIS values (`obis.py`) | none | scaling, rounding, formatting, units | delivery | the number that is sent is the nearest one |
| Transport, simulator (`transport.py`, `simulator.py`) | a port or socket | `open`, `read`, `write`, `close` | reader, PIN jobs | a port is open when it says so |
| Web application, authentication (`web/app.py`, `auth.py`) | session secret | routes | all of the above | settings that were saved are in use; logins outlive edits and restarts |
| Command line (`__main__.py`) | - | start-up, signals, shutdown | manager, server | stops what it started |

The hard behaviours: a port shared by reader threads and PIN jobs that pass it
on through two short critical sections; joins that give up after five seconds;
edits and shutdown arriving while a meter is lent; a cancel racing the start of
what it cancels; digits of a PIN that are nothing but silence; saves that fail
after an edit has become live; settings put to use after the lock has been given
back; crashes between the steps of a save; results handed out while a mapping is
edited, and values that cannot be converted in the middle of one; a broker
changed while readers publish; frames split, glued and damaged on the line. `PROJECT.json` lists them as hazards, each at its
line.

## Modules

| Module | Models | Correspondence |
|---|---|---|
| `MeterReader` | `MeterReader.run`, `MeterWorker.start`, the stop event | `rpc[r]` is where the thread is: the loop test (`top`), `transport.open` (`open`), the state shown of it (`opened`), `transport.read` (`read`), the callback (`deliver`), the close after a failure (`drop`), the final close (`exit`), the state shown of that (`closed`), over (`off`). A port and the state shown of it change in different steps, since `status` reads the state without a lock. `stopEvent`, `isOpen` and `rstate` are `MeterWorker._stop`, `transport.is_open` and `MeterReader._state`. A reader is named by its meter and the slot of its worker object; slots are reused once nothing refers to them. |
| `MeterManager` | `MeterManager.start`, `stop`, `apply_config`, `exclusive_transport` | Extends `MeterReader`. `lock` is who holds `_lock` from one step to the next; `halting` is what is left of the loop over workers; `job[j]` is a thread inside `exclusive_transport` with its locals `worker` (`slot`) and `was_running`. `Reserve` and `Release` are the two critical sections. A join is the pair `HaltWorker`/`Joined` or `JobHalt`/`JobJoined`, with `JoinReturns` saying when it may return. |
| `PortLease` | the promise of `MeterManager` about ports | abstract: a port is with nobody, a reader or a PIN operation, and passes only through nobody |
| `ObisValues` | the conversions of `obis.py` | a decimal is an integer and a power of ten; `Clean10`, `FormatNumber`, `NumericValue`, `ValueToString` and `Resolve` are the functions of those names; `Fits` says when `quantize` raises. `Float` is Python's `float`: the nearest integer of `Bits` bits times a power of two, of two as near the even one; a double is counted in multiples of the least one. |
| `Delivery` | `MeterWorker._on_result` and the callbacks into publisher and history | Extends `MeterManager` and `ObisValues`. Every step of the manager and its readers is one here (`Around`), with the phase `deliver` taken apart: `BeginResult` takes the worker's lock, `HandleValue` and `HandleRaises` are the body of its loop. `discovered[r]` is the dictionary the page is drawn from; what has gone to the broker and the history since the latest result is `sent` and `stored`. `latest` is that result, for the properties. |
| `PinPulses` | `PinController.reset`, `enter_pin`, the candidates of `BruteforceRunner.run` | a wave is the sequence of the silences behind the flashes. `Heard` is the meter at the other end: it is external, and follows what the code takes for granted about it. |
| `PinJobs` | `PinJobManager`, `PinJob`, `BruteforceRunner`, `PinController` | Extends `PinPulses`. One meter, whose PIN is a number of `PinLength` digits; a sweep goes through `Total` numbers from `First` on, which may go beyond the PINs there are, as a request may ask for. `job[j].pc` is where the thread is, `progress[j]` what the status request shows, `cancel[c]` a cancel request between its look-up of the job and its look at the runner |
| `ConfigStore` | `mutate`, `save_config`, `load_config`, what the handlers do after `mutate`, `create_app`'s session secret, crashes and restarts | a configuration is known by the edits it contains, by the requests that last wrote its broker and history settings, and by its secret. `rpc[r]` is where a request is; `live`, `disk`, `temp` are `manager.config`, the file and the temporary files; `publisherUses` and `historyUses` are the settings that are in use. Handlers of the event loop run one at a time (`Serve`), those of the pool beside them. |
| `MqttPublisher` | `MqttPublisher.publish`, `connect`, `disconnect`, `MeterManager.reconfigure_mqtt` | `current` is `manager.publisher`, `client[p]` the `_client` of publisher `p`, `running` the clients whose loop was started and not stopped. A step is the code from one use of `_client` to the next, since nothing guards it. `BuildRaises` and `ConnectRaises` are the two ways in which `connect` raises, at start (`Init`), in a publish and in a change of broker; `unbuilt` and `refused` remember that the current publisher met them. |
| `HistoryStore` | `HistoryStore.record`, `_maybe_prune`, `query`, `update_settings`, `_downsample` | `rows` is the table, `lastStored` and `lastPrune` the fields of the same names, `pending` a reading a reader thread has stamped and not yet recorded; `Throttle`, `InsertFails` and `Store` are the ways through `record`. A row remembers the interval and the life of the gateway that wrote it; `settled` and `due` remember whether a prune has worked under the present retention, and by when one has to. |
| `SmlCodec` | `sml/builder.py`, `sml/crc.py`, the decoding half of `sml/parser.py` | operators on byte strings, one per function |
| `SmlStream` | `SmlStreamParser` | `buffer` is `_buffer`; `Feed` is `feed` with the next bytes of `line`. What the meter and a bad line do to it is external: whole frames, frames cut short, noise. |
| `MCMeterManager`, `MCManagerLive`, `MCDelivery`, `MCHistoryStore`, `MCSmlStream` | instances for TLC | symmetry; a bound on edits, and fairness; units, mappings and results; the readings a meter sends |
| `Numerals` | numbers and their digits | powers, the digits of a number in a base, the number some digits stand for: what Python's integers and `str` do, used by `PinPulses` and `ObisValues` |
| `MeterManagerProofs`, `PinJobsProofs`, `ConfigStoreProofs`, `HistoryStoreProofs`, `MqttPublisherProofs`, `DeliveryProofs`, `SmlStreamProofs` | proofs about the modules they are named after | see below; `MeterManagerProofs` has the refinement of `PortLease` too, and `DeliveryProofs` extends it |
| `Recursion` | lemmas | induction, recursive functions, and the digits of `Numerals` |

Operators that follow a comment beginning "Mistake:" are not part of any
specification. Each is a form the operator after it would have with a plausible
bug in it; putting it in place of that operator makes the properties named in
`PROJECT.json` fail, which shows that the properties depend on the code.

## Runs

| Run | Instance | Shows |
|---|---|---|
| `delivery` | 1 meter, 2 workers, 2 enabled configs with different mappings, 3 chunks of results, edits and stops at any time | page, broker and history agree; the number sent is the nearest; the page has the latest result up to a value that cannot be converted; retired mappings are silent; the state shown follows the port by one step; readers end when told and come back after every failure |
| `manager` | 2 meters, 2 workers each, 2 PIN jobs, 2 enabled and 1 disabled config, joins always succeed | exclusive ports, no lost, outdated or late reader, refinement of `PortLease` |
| `manager_live` | 1 meter, 3 workers, 1 PIN job, opening may hang for ever, for reader and PIN job alike, at most 2 edits and stops | the lock comes back, a PIN operation ends unless its own `open` hangs, a meter that is never disabled has its reader, even with failed joins |
| `pin_shares_port` | opening may outlast the join | **violated**: a PIN job and the reader use the port together |
| `enabled_unserved` | 1 PIN job, edits | **violated**: enabling a reserved meter is forgotten |
| `pin_jobs` | 3 job objects, 1 cancel request, all 8 candidates from 01 to 22 of 2 digits in base 3, PIN 00 or one of them | one job at a time, truthful reports through the flashes, cancels that are heard, termination |
| `cancel_lost` | 2 job objects | **violated**: an acknowledged cancel has no effect |
| `config_store` | one request of each of 5 kinds, 1 crash | durability, no lost update, live and saved agree, settings in use, logins kept, every request answered |
| `refused_edit` | 3 requests, 1 crash | **violated**: a refused edit is live |
| `mqtt` | 2 readers, 2 publishers, builds and connects that raise | the current publisher ends up connected unless its client could not be built or refused the broker; a client is left behind only if a publish overlapped the change or another publish |
| `history` | 2 readers, 2 series, 2 intervals, 2 retentions, clock up to 7, one event (restart, refused statement, clock set back, new setting) | distance and age of rows, reasons to throttle, charts of every database that can come about |
| `sml_stream` | 2 segments of 18 (3 whole frames, one cut at 13 places, 2 noises, a flood), read 1 or 64 bytes at a time, with and without the checksum | frames come out as measured, chunks make no difference, the buffer is bounded |

### Bounds

Two meters are enough for `manager` because meters interact only through the
lock, which `halting` and `lock` share between them; two worker objects of a
meter are the registered or lent one and the one an edit or a release starts
beside it, and `Room` keeps an edit from needing a third. Two PIN jobs compete
for one meter, or hold both. Two enabled configs let an edit change a meter
without disabling it. In `manager_live` a hung reader keeps its slot, so three
slots let two hang; two updates let an edit be followed by a stop. In
`delivery` the manager's steps around one reader need one meter and two worker
objects; there is no PIN job in it (`Jobs = {}`), since `manager` has them. The
two enabled configs map one code to different topics and units, and one of them
has a disabled mapping of the code that differs from the enabled one. Two
decimals and four digits stand for the code's ten and 28, doubles of six bits
(between 2^-13 and about 2^7) for those of 53, and a kilo unit of ten for one of
a thousand. One reading is a half of a last place in the kilo unit and has no double
that is equal to it; one is a half below zero, which is rounded away from zero,
and is the first of its result, so that it is sent; one is too long in the small
unit, which the page meets in one configuration and, behind the page, the broker
in the other; a status word is too long in both. In `pin_jobs` the eight candidates have a leading zero (01), a trailing one
(20) or none (22), which is the highest PIN there is; the PIN may be any of them,
or 00, which is before the range. The gaps 1 and 3 and the
settling time 2 keep the order of the defaults. Three job objects are the
current one, the one it replaced and one a slow cancel request still refers to.
In `config_store` a request of the pool, one of a meter, of the broker, of the
history and an import race; the crash may come at any step and all requests that
are not answered by then may come after it. In `mqtt` two readers
race each other as well as the web thread; one change of broker replaces a
publisher in every state in which they may leave it, and the proofs are about any
number of changes. In `history` a reader is late
by at most `MaxWait` = 1, so a reading and a younger one pass each other; the
clock runs past an interval, a retention and several prunes; one event of each
kind is tried at every moment, two together are not. In `sml_stream` two
segments are a frame and what came before it, or a frame and what follows; the
cuts are in and after the start escape, an escape of the payload and a lone
escape byte, and at every byte of the end block; chunks of 1 and 64 bytes put a
boundary at every byte. The readings hold escapes, a start escape, an end
marker after an escape, a negative number, a string at the 15-byte limit of the
length field, a time, a text and a flag.

### Fairness

`Delivery`: a reader thread that can run does, its callback included
(`ReadersRun`, weak fairness), and, for `ReadsAgain` only, a port tried again and
again opens some time and a meter listened to again and again sends something
complete (`MetersSend`, strong fairness of `OpenOk` and `ReadResults`); nothing is
assumed of edits and stops. `MCManagerLive`: each thread runs and its calls
return, except that whoever opens a port may hang there for ever, a PIN job as
well as a reader (`OpensPort`). Its reads and waits have timeouts; that writing
the few bytes of a pulse returns is taken for granted. The lock is not fair in the code
(`threading.Lock`), so the number of edits and stops is bounded and nothing is
assumed about who gets the lock while others take it again and again. `PinJobs`:
a job's thread runs; reads time out and detection has a deadline, so they
return, and so, it is taken for granted, do the writes. Nothing is assumed of who sends requests. `ConfigStore`: a request that
is being served goes on unless the gateway dies, and a gateway that died is
started again; weak fairness is enough, because `MaxCrashes` bounds the
requests that can take the lock while another waits.

### Deadlock

TLC checks that `manager`, `pin_jobs` and `mqtt` never stop. The others may: the
bounded requests, crashes, time or bytes are used up, or a gateway that has been
told to stop has nothing left to do. They say so in their `.cfg`.

## What the violated properties show

* `PinJobHasPortAlone`: `MeterWorker.stop` joins for five seconds and
  `exclusive_transport` does not look whether the thread ended. Nothing else leads
  there: `PortAlone` proves the property for joins that see their threads end.
* `EnabledMeterServed`: `exclusive_transport` restarts a reader only if one ran
  when it was entered. Nothing else leads there either (`UnservedByRelease`), and
  without an edit that disables a meter nothing does (`EnabledServed`).
* `AcknowledgedCancelStops`: `PinJob.cancel` drops a cancel that comes before
  the runner exists, and the request is answered `ok`.
* `RefusedHasNoEffect`: `mutate` applies before it saves, and a failed save is
  not undone.

Each contradicts a docstring, comment or document; `PROJECT.json` quotes it.

Some properties of the passing runs leave out what the code gets wrong, or does
not promise, and name it:

* `StraysNeedOverlap` in `mqtt`: a reader that publishes while the broker is
  changed may connect the old publisher again after it was disconnected, or add
  a second client to the new one; nothing ends that client, which has the same
  client id as the one that replaced it.
* `WholeFramesArrive` in `sml_stream`: a frame that follows a cut that ends in a
  byte 0x1b, or a cut inside an end block, is lost, but not the frame directly behind that one
  (`Resynchronised`). The variable `hidden` names
  these frames.
* `CurrentConnected` in `mqtt`: a client that refuses its broker (a port of 0, which
  the API takes, or an empty host in the file) stays, with no loop started, and no publish
  connects again; nothing is sent until the settings change or the gateway is
  restarted. The log of `start` says "will keep retrying in background" of it
  (`manager.py:221`), which is true only of a client that could not be built:
  the next reading builds one.
* `ReadingsAgree` in `delivery` speaks of codes with one mapping: with two, the
  page takes the unit of the last mapping and the broker that of the last
  enabled one, although `docs/CONFIGURATION.md:164-166` says that the chosen unit
  applies consistently to payload, page and history. Its theorem speaks of results that name a code once (`CodesApart`):
  with two readings of a code in a result, the history, which throttles, keeps
  the first, and the page shows the second.
* `PageShowsResult` in `delivery`: a value with more digits than the decimal context
  holds raises, and the values of its result that come after it are not shown,
  sent or recorded, although `docs/CONFIGURATION.md:168-169` says that every numeric
  value is still recorded to history and shown in the UI. The property says exactly
  how far a result gets (`ShownPart`). That the page is drawn under the worker's
  lock is part of the model (`LockHeld`), not something it checks.
* `ShownStateCatchesUp` in `delivery` and its theorem: between a change of the port
  and the step in which the reader shows it, `status` tells the state from before.
  The page may show an open port as `error` or `connecting` (after `open` has
  returned), a port that failed as `error` before it is closed, and a closed one
  as `connected` or `reading` while a reader ends.
* `PinOperationEnds` in `manager_live`: the PIN job's own `transport.open()` has no
  timeout (`manager.py:324`), and a job that hangs there keeps its meter reserved.
* `NotFoundIsTrue` in `pin_jobs`: a cancel during the last candidate cuts that one
  short, and the loop ends without another look at the stop event. The sweep is
  finished and not cancelled, so the page says "PIN not found in range"
  (`web/templates/meter.html:192`), which is wrong when the last candidate is the PIN.
* `AgeBounded` and `ThrottledForAReason` in `history`: while the clock is not set
  back; and a refused row is a reason to throttle.
* `SettingsInForce` and `LiveIsSaved` in `config_store`: a request whose save
  fails has changed the live settings, which are not put to use.
* `RetiredMappingsSilent` holds, like `ExclusiveUse`, when every join sees its
  thread end.
* A negative reading that rounds to nothing is sent as `-0`; `PayloadIsNearest`
  takes it for zero. It takes the exact value of a reading in its unit from the
  operator the model rounds (`Scaled`), so it is about rounding and formatting.

## Proofs

`MeterManagerProofs` proves, for every finite or infinite set of meters, worker
slots and jobs and every set of configs satisfying `ConstantsAssumption`:

* `Typing`: `Spec => []TypeOK`. `TypeOK` alone is not inductive: a step uses
  `Held(j)` as a worker and `workers[m]` for a meter in `halting`. `TypeInv`
  adds `JobsWellFormed` (a job past `idle` has a meter, one that waits for a
  join has a worker) and `HaltsRegistered` (what is being halted is registered,
  and only while `apply_config` or `stop` has the lock).
* `Reservations`, `NoOrphans`, `CurrentConfigs`: from the inductive invariant
  `Ownership`, which says that reserved meters are exactly those of jobs, one
  job each, that a reserved meter has no registered worker, that a running
  reader without a stop order has an owner, and that a registered worker has
  the current config unless it is about to be halted. These three hold for
  every `SlowCalls`, so also when joins give up.
* `Exclusion`: `SlowCalls = {} => (Spec => []ExclusiveUse)`, from `Ownership` and
  `Prompt`, which says that every living reader, told to stop or not, is
  registered or held by a job that has not got past its join.

* `PortAlone`: `SlowCalls = {} => (Spec => []PinJobHasPortAlone)`, from the same two.

The lemmas before each theorem say what a step of a reader, of the holder of
the lock and of a job does to the invariant; `PTL` then combines them.

Further down it proves, of the ports and of what is shown of them:

* `StopIsFinal` (`SlowCalls = {}`, `LateEdits = FALSE`): `StopLeavesNoReader`, from
  `Emptied`: once `stop` has let go of the lock no worker is registered, and with
  `Prompt` a living reader can only be one a PIN job is about to stop.
* `UnservedByRelease`: a step that breaks `EnabledMeterServed` is the `Release` of a
  job that found no reader running when it entered. Every other step is shown to
  keep the property, which needs only that `stopped` is set while `stop` has the lock
  (`StopIsMarked`).
* `EnabledServed` (`DisabledConfigs = {}`, every `SlowCalls` and `LateEdits`):
  `EnabledMeterServed`. It says that a worker is registered, and whether there still is
  one after a job depends on what the job read when it entered. The inductive
  invariant `Serving` adds that a reader only ends by itself once it was told to
  (`LeavesWhenTold`) and, while the gateway is not stopping, that every registered
  reader not being stopped lives and has not been told to stop, and that each job
  therefore found its reader running (`ServesOn`).
* `LentStaysOpen` (`SlowCalls = {}`): `LentPortStaysOpen`, a property of steps; a
  job past its join has a reader that is over, so no reader step closes its port.
* `ShownCatchesUp` (every `SlowCalls`): `ShownStateCatchesUp`, from `ShownInv`, which says
  at each place of `run` what the port of a registered worker and the state it
  shows are to each other: they agree except at `opened` and `closed`, where a change
  is still to be shown, and at `drop`, where a failure is shown and the port still open.
* `LeaseKept` (`SlowCalls = {}`, `LateEdits = FALSE`): `Spec` implements `PortLease`.
  By `Prompt` a meter has one user (`OneUser`), so who has its port is a function
  of the readers and jobs; each step of a thread is then shown to be one step of
  the lease, or to move no port.

`DeliveryProofs` proves, for every set of mappings, results and values satisfying
`DeliveryAssumption`:

* `ManagerInside`: `DeliverySpec => Spec`. A step of a callback changes nothing of
  the manager, so every theorem above about `MeterManager` holds of `Delivery` too,
  and the next two use them.
* `PageShown`: `PageShowsResult`, from `PageInv`: besides the types, it says what of
  the result in hand is on the page already and what is left of it (`Reached`).
* `RetiredSilent` (`SlowCalls = {}`): `RetiredMappingsSilent`. A message is made from
  the mappings its worker was made with (`MadeInv`); by `Prompt` and `Ownership` a
  reader that delivers while the lock is free has the current ones.
* `NearestSent`: `PayloadIsNearest`, for every number of places, every scaler and
  every unit. `SentInv` says that a message of a number carries what `FormatNumber` makes of
  it; the rest is arithmetic: the quotient that is rounded is the nearest, and of two the
  one away from zero, the digits of its text add up to it, and trailing zeros only move them.
* `OneNumberOneUnit` (`SlowCalls = {}`, `CodesApart`): `ReadingsAgree`. `AgreeInv` relates,
  for each code of the result in hand, what page, broker and history have of it
  to the value and to the mappings the worker was made with, before and after
  the loop has reached it. What history has is a double: it is as near to the number
  on the page as a double can be (`FloatSame`, from `HalfEvenNearest`), one part in
  2^`Bits`, for every reading that fits the decimal context, since doubles are finer
  than a last place near zero and reach beyond the context (`ValuesAssumption`, which the
  code's 10, 28 and 53 bits satisfy).

`ConfigStoreProofs` proves, for every set of requests of each kind and every
number of crashes satisfying `StoreAssumption` and `TornAssumption`:

* `StoreTyping`: the types, and that the file is never torn. `TypeInv` adds that
  what `os.replace` is about to move is the whole of what was built.
* `Durability`, `UpdatesKept`, `LiveAndSaved`: none of the three is inductive. They
  rest on `LockInv` (the request between taking and giving back the lock is its
  holder, and there is none while the gateway is down), on `BuildInv` (what a
  request is about to apply was made from what is live now, which is what the
  lock is for; what it saves is what is live) and on `EditsInv` (an edit that has
  reached the file is there and live unless an import dropped it; the two differ
  only by refused edits and the lock holder's).
* `SessionsKept`: from `SecretInv`; every configuration that is applied carries the
  live secret, the imported ones too.
* `SettingsUsed`: from `TurnInv` (one handler at a time on the event loop),
  `MqttInv` and `HistoryInv` (live settings not in use were refused, or their
  request is on its way to putting them to use; one that uses the values it has
  kept is still the one that is live).

`PinJobsProofs` proves, for every set of job objects and cancel requests and every
range of candidates, the default whole one and ranges beyond the highest PIN
included:

* `PinTyping`, from `TypeInv`, which says where in its thread a send and a sweep
  can be and that only a sweep has a runner.
* `CancelHeard`: `TypeInv` also says that a job a cancel has reached has its stop
  event set and has tried nothing since, which is the strengthening of
  `HeardCancelStops`.
* `OneJob`, `EndIsShown`: from `CurrentInv`; a thread that lives is that of the job
  the manager refers to, so a job that is replaced is over.

`ThreadLeads` says once for all steps of a job's thread what they make of the job;
the proofs about where it is use it in place of the thirteen actions.

* `RightPinFound`, `RangeWithoutPin` (`PromptMeter`): `FoundIsRight` and
  `NotFoundIsTrue`, from `SecretInv`: the sweep has tried, one after the other, the
  candidates up to where it is, and the meter is unlocked only by a candidate
  whose flashes it heard as its PIN. What it hears is the subject of the lemmas
  up to `HeardIsEntered`: whatever the digits, the waves of `enter_pin` are heard as the
  digits that were entered, since a flash within a digit follows on a silence
  shorter than the gap of two digits, and a zero is a longer one. With the
  digits of two candidates being different (`DigitsAddUp`) no other PIN unlocks; a
  candidate beyond the highest PIN has more digits than the meter's and unlocks none.
  `RangeWithoutPin` leaves open the last candidate of a sweep that was told to stop, which
  the stop may have cut short.
  `PromptMeter` is what `detect` counts on: the meter shows that it is unlocked before the
  sweep gives up waiting. A meter that shows it later is taken for one the next
  candidate has unlocked, which is not a matter of this code.

`HistoryStoreProofs` proves, for every set of readers and series and every
interval, retention and bound satisfying `HistoryAssumption`:

* `HistoryTyping`: `Spec => []HistoryTypeOK`, which is inductive.
* `Spacing`: `Spec => []SpacedOut`. `SpacedOut` speaks of rows only, and whether a
  row is written depends on `lastStored`; the inductive invariant `Spaced` adds
  that no row of the present life of the gateway is younger than what
  `lastStored` has for its series, and that no row is of a later life. A refused
  `INSERT` leaves `lastStored` ahead of the rows, which keeps `Spaced`.
* `Ageing`, `Throttling`: `AgeBounded` and `ThrottledForAReason`, from `AgeInv`, whose
  parts speak of the time during which the clock is not set back: a reading waits
  at most `MaxWait` (`OnTime`), no row is older than the last prune left
  (`Pruned`), and what `lastStored` has, unless it is too old to matter, is a row or
  a refused one (`Known`). `Swept` adds for `Ageing` that, as long as no prune has
  worked under the present retention, every row of this life of the gateway is from
  before `due`: the first row after a start, or the first that comes a
  `PruneInterval` after a new retention or a refused `DELETE`, prunes.
* `Charts`: `ChartIsFaithful`, for every finite database (`RowsFinite`) and window:
  the bucket of a sample grows with its time and stays below the number of
  points (`BucketsInOrder`), so the groups are in order and few enough.

`MqttPublisherProofs` proves, for every set of readers, publishers and clients
satisfying the assumptions of the module:

* `MqttTyping`: `Spec => []MqttTypeOK`.
* `Connected`: `CurrentConnected`, from `LinkInv`: the client of the current publisher
  runs, or the thread that made it, or is about to, has still to start it, or it
  could not be built, or has refused the broker.
* `StraysMet`: `StraysNeedOverlap`, from `StrayInv`: a publisher no publish has
  overlapped with is just as the web thread left it, so each step of the web
  thread acts on the client its last step looked at.

`SmlStreamProofs` proves, for every set of readings, cuts, noises and chunk sizes
satisfying `StreamAssumption`:

* `StreamTyping`: `StreamTypeOK`: what the builder makes is bytes, frames and
  checksums included, and a frame is found and left in bytes.
* `ChunksDoNotShow`: `ChunkingInvisible`, from `ChunkInv`: as long as nothing was cut off,
  results and buffer are those of one chunk with everything read so far. This
  rests on the stability of a scan: a frame that is found, or a start that is
  given up, in the bytes so far is the same with more bytes behind them, and a
  scan that waits leaves off at a place from which it finds with more bytes what
  it would have found in all of them (`TakeLonger`).
* `BufferStaysBounded` (`MaxBuffer >= 3`): `BufferBounded`, from `BoundInv`. After a feed
  the buffer is within its limit, or it begins with its only escape. Such a
  buffer, which is what `Trim` keeps when it cuts, would not be cut any shorter:
  what a further chunk adds either holds another escape, which it is cut back
  to, or leaves the first at the beginning, and then all of it goes. An escape split between
  two chunks is three bytes of the first, which have to fit; the code's default
  is 65536.

* `ReadingDecoded`: `extract_results` undoes `build_message` and `build_get_list_res` for
  every reading, of any number of entries and any values. `Yields` says that the
  decoder reads an encoding as its value wherever it stands in the data. It is
  proved for every primitive (the nibbles of a type-length field of any size come back,
  and so do the digits of a number, in two's complement when it is negative), then for a
  list of things that are read back, hence for an entry and for the message. That the
  decoder's recursion has one value although it goes to positions it computes
  (`ItemsEquation`, `MessagesEquation`) needs that each value ends after it begins
  (`Forward`). A reading is `Readable` when its registers have object names of five or six
  bytes, as the decoder drops all others, and a status fits the eight bytes it is
  sent in, as the builder's `to_bytes` raises otherwise.
* `FrameReadBack`: the parser finds in what `build_frame` writes, whatever follows
  it, exactly the message that went in. Byte by byte, the scan goes over the
  doubled text without meeting an end block (`PassesText`), and undoing the doubling
  gives the text back (`UndoublesText`). This needs the message to end in a byte other than
  0x1b, or its last bytes would join the escape of the end block; a message
  ends in a zero (`MessageClosed`).
* `FramesArrive`: `WholeFramesArrive` as long as nothing on the line can hide a frame
  (`NothingHidden`), from `ArriveInv`: the whole line, read at once, would give the
  results of the frames sent so far and leave a buffer that is `Idle` (no frame has
  begun in it) or `Poised` (a frame has begun, and the next start escape cannot be taken
  for a part of an escape before it); noise and cuts lead from the one to the other.
  With `ChunksDoNotShow` it does not matter that the line is read in
  pieces. `ReadableReadings` says that every reading is `Readable`, and `DullNoises` that
  noise holds no escape and does not begin with a byte of one; the run `sml_stream`
  evaluates both for its readings and noises.
* `Resynchronised` (`ReadableReadings`): what `FramesArrive` leaves open is how much is lost
  behind damage. `FollowersArrive` says: no more than one whole frame. Of two whole
  frames in a row the second is reported, whatever bytes came before them, noise and
  cuts of any kind included, and what follows is read as if it came first. A scan that
  begins anywhere before the last eight bytes of a frame does not wait, as the byte before
  the end block is no escape byte (`EndReached`); what is left of the
  buffer waits (`LeftSettled`), so no frame has begun in it (`EndClears`), which is all the
  next frame needs. `SecondFrameArrives` is the same of one call, `ChunksDoNotShow` carries
  it over to chunks.

`Recursion` has no theorems of the system, but every proof above about digits,
waves and scans rests on it. `RecursiveFunction` says that a recursive function is
what its defining equation says when a measure falls with each call. It is
stated with sets and functions and without a parameter that is an operator,
which the provers could not instantiate: a predicate is the set of numbers it
holds of (`Induction`), and a recursion is given by where it stops, where it goes
and what it makes of the answer.

Only model-checked: liveness, which is out of the prover's reach;
`AcknowledgedCancelStops` and `RefusedHasNoEffect`, which are violated (of the two other
violated properties, `PortAlone` and `EnabledServed` prove when they hold);
and `WholeFramesArrive` on a line where a cut hides a frame: with `verify_crc` off what
comes out of that frame depends on what the two frames hold (`Resynchronised` holds there, too). The proofs that need `SlowCalls = {}` cannot do without:
the run `pin_shares_port` shows what a join that gives up leads to.

## Plan

Built so far: the port-sharing core, the delivery of results through it, PIN
jobs and their flashes, the configuration store with settings and sessions, the
MQTT publisher, the history store and the stream parser, with proofs about all of
them. What would come next:

1. The frame a cut hides, a value behind one that cannot be converted, a client that
   refused its broker and a last candidate cut short, as properties without their
   exceptions, when the code is changed.
2. `AgeBounded` and `ThrottledForAReason` over a clock that is set back, when the
   code comes to promise something about it.
3. Several publishers' messages at the broker: the gateway sends retained values,
   so what a subscriber sees last matters when an old client stays behind.

## Not modelled

* Page rendering, routing, the fields of a configuration, their parsing and their
  validation: conversions without state. An edit is in the models from the point
  at which it is valid.
* Password hashing and the login check: a library's function and one comparison.
* pyserial and sockets: a call succeeds, brings something, or raises, at will.
  The simulator makes frames for demonstration; the demo meter `cmd_run` adds when
  it simulates comes before the gateway starts. Its comment says that it is not
  persisted, but `create_app` saves it along with a session secret it has to make.
* A frame whose lists are nested deeper than Python recurses: `decode_field` raises
  `RecursionError`, which `feed` does not catch (`sml/parser.py:231`), so the exception
  reaches the reader's loop and the frame is gone; in the models it is decoded or
  fails like any other.
* The names of OBIS codes and the text of an octet string: tables and wording. An
  octet string is the same wherever it goes.
* Two meters of one id, which only a file edited by hand or an import can bring
  in: a configuration gives each meter of the models one config.
* A `transport_factory` that raises inside `exclusive_transport`: the one the
  program passes only makes an object.
* A second signal during `stop`: while the server serves, its own handlers
  replace those of `__main__.py`, and they are not in this repository.
* The headless sweep of the command line is the sweep of `PinJobs` without requests
  around it; what it prints is not modelled.
* The disconnect of the publisher at shutdown, and what the MQTT library does with
  a message it has taken.
* A power failure that loses a completed `os.replace` (the directory is not
  synced): in `ConfigStore` only the process dies.
* Logging.
