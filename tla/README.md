# CordBlock: a TLA+ verification of nina-fw-homekit

The firmware turns an ESP32 (the NINA module of an Arduino board) into a HomeKit
power strip.  Modules with a switch and a current sensor are chained on a bus; a
SAMD21 forwards the bus over SPI; the ESP32 offers one HomeKit accessory with a
switch per module, keeps the current below a limit, records it in an EEPROM, and
talks to a web application over MQTT.  HomeKit is Espressif's `esp_hap_core`, which
is part of this repository and has been changed in it.

This directory holds TLA+ modules of the parts whose correctness depends on the
order of steps or on the cases of an algorithm, TLC configurations that check them
on small instances, and TLAPS proofs for every size about pairings, notifications, the
UART queue, sessions, the start with its database, the module bus, the overload
protection and the EEPROM records.

    tlc -config MCPairing.cfg MCPairing           # one run
    tlapm HapPairing_proofs.tla                   # the proofs
    tlapm HapNotify_proofs.tla
    tlapm HapDatabase_proofs.tla
    tlapm SecureSession_proofs.tla
    tlapm UartQueue_proofs.tla
    tlapm ModuleBus_proofs.tla
    tlapm Smf_proofs.tla
    tlapm Warehouse_proofs.tla

`PROJECT.json` lists components, runs, mutants, hazards and theorems, and maps each
definition to the lines it models.  Paths below are relative to `src/`; `hap/`
stands for `arduino/libraries/Homekit/esp_hap_core/src/`.

## 1. Inventory

### Tasks

Almost every hazard of this program comes from tasks that share state without a
lock.

| Task | Created in | Touches |
|---|---|---|
| SPI loop (`loop()`) | `main/sketch.ino.cpp` | commands of the SAMD21: modules, accessory, switch states, currents, UART queue, the start of the Wi-Fi |
| `moduleLiveCheck()` | `main/CommandHandler.cpp:27` | the same accessory and modules, UART queue |
| `onlinePeriodicTask()` | every `IP_EVENT_STA_GOT_IP`; never ends | EEPROM records, UART queue |
| `clearWarehouseData()` | factory reset | EEPROM pointers, the reset's flag |
| HomeKit loop | `hap_init()` | resets, configuration number, announcements, notification triggers |
| httpd | `hap_start()` | pairings, sessions, characteristics; one request at a time, queued work between requests |
| timer task | FreeRTOS / esp_timer | the pair-setup timeout |
| event loop | ESP-IDF | Wi-Fi status, time, periodic tasks |
| MQTT client | its library | switch commands, settings, factory reset |

### Components

**Pairings** (`hap/esp_hap_pair_setup.c`, `_pair_verify.c`, `_pairings.c`,
`_controllers.c`, `_keystore.c`, part of `_main.c`).
State: the controller table in RAM, its NVS copy, the static pair-setup context with its
timer, the attempts counter, the session table, queued closes.
Operations: pair-setup M1–M6, pair-verify M1–M4, Add/Remove/List Pairings, removal of the
rest after the last administrator, reset to factory, reset of the pairings, loading at boot.
Hard: the check at M1 is used at M5; a handler removes controllers one keystore
operation at a time; closes are queued while slots are reused; the timer races the
end of a connection; keystore failures; restarts at any step.
Correct when: only an unpaired accessory is set up, a record is not overwritten or doubled, RAM
and keystore agree, a removed controller loses its session, pair-setup is never blocked for ever.

**Start and database** (`hap/esp_hap_database.c`, `_main.c`, `_wifi.c`, `_keystore.c`).
State: identity, key pair, configuration and state number, firmware revision, settings, in
RAM and in the keystore; the loop's event queue; what is announced.
Operations: `hap_init()`, `hap_start()`, five resets, changes of the numbers, announcements.
Hard: power lost between any two writes, a write that fails, an erased partition, an event
refused by the full queue, resets while httpd serves.
Correct when: an accessory that thinks it is paired is the one its controller knows, an
upgrade gets a new configuration number, the record announced is true, a reset restarts.

**Sessions** (`hap/esp_hap_network_io.c`).
State: per session two nonces, a state and an address; one static decrypt buffer for all; queued closes.
Operations: receiving a request in frames and pieces, sending replies and events, invalidation.
Hard: the buffer remembers a session by an address that may come back; sends fail half way;
sockets are reused before a close runs.
Correct when: a request reaches the server as it was sent, a controller can decrypt what it
gets, an invalid session ends.

**Characteristics and events** (`hap/esp_hap_char.c`, `hap/esp_hap_ip_services.c`).
State: value, subscriptions (a bit per session slot), owner mark, `update_called`, the queue
of changed characteristics, triggers, work of httpd, `disconnected_event_sent`.
Operations: update by a module's report, GET, PUT, subscription, sending of events, connection and close.
Hard: three tasks and two bounded queues; slots are reused; a GET overlaps an update.
Correct when: no queued change is left without a wake-up, every subscriber but the writer
is told, a connection does not inherit subscriptions, the state number rises once.

**Requests and JSON** (`hap/esp_hap_ip_services.c`, `json_parser`, `json_generator`).
State: the prepared write of a session, the parser's tokens and cursor, the generator's buffer.
Operations: PUT `/prepare`, PUT and GET `/characteristics`, GET `/accessories`, `/identify`, `/mqtthost`.
Hard: documents of every shape, time to live, replies longer than the buffer, no memory.
Correct when: the answer names what was refused, the modules are told what was accepted, a
preparation is good for one write in time, a reply is one JSON text.

**Objects and profiles** (`hap/esp_hap_acc.c`, `_serv.c`, `_char.c`, `hap_apple_chars.c`, `hap_apple_servs.c`).
State: accessories, services and characteristics on the heap, their numbers, the list of accessories, saved accessory ids.
Operations: creation, addition, linking, removal, deletion; the constructors of the profiles.
Hard: an allocation fails anywhere; things are added after they were numbered; removal and addition again; restarts.
Correct when: nothing is lost, (aid, iid) is unique, no half service is shown, the list has what was added.

**Hash library** (`hkdf-sha`).  State: a block being filled, a length, error flags, in three
nested contexts.  Hard: boundaries of blocks and padding, pieces, last bits, use after errors.
Correct when: what is given out is the digest, code or key material of exactly what was accepted.

**Module bus** (`main/CommandHandler.cpp`, `main/CoreBridge/{CoreBridge,Homekit,Perioder}.cpp`,
`hap/esp_hap_acc.c`).
State: `modules[]`, `num_modules`, `module_initialized`, `module_connected`, the accessory object
and the pointers to it, the configuration number.
Operations: a link round, an address request, the periodic HI check, removal, reload.
Hard: two tasks delete and create the same accessory; a round is cut short, repeated or
unreadable; restarts.
Correct when: the accessory offers the chain, freed memory is not used, and a configuration number keeps
naming the same services.

**Overload protection, SMF** (`main/CommandHandler.cpp`, `main/CoreBridge/CoreBridge.cpp`).
State: currents, switches and priorities of the modules, the share `mcub`, the suspect, `emerg_triggered`.
Operations: report of a current or a switch, turn-off, settings, outage.
Hard: reports and thresholds cross on the bus; modules keep small rises to themselves.
Correct when: modules that keep to their shares stay below the limit, the culprit is turned off, an overload is contained.

**UART queue** (`main/CommandHandler.cpp:223-260`, class `uartMsgQueue`).
State: a linked list with `front` and `back`.  Operations: push by up to six tasks, pop by one.
Hard: no lock.  Correct when: nothing is sent twice or out of order, and the loop never follows a dead pointer.

**EEPROM records** (`main/CoreBridge/Warehouse.cpp`, `Perioder.cpp`).
State: a list of hour records, a ring of date records, two one-byte head pointers.
Operations: append, average and reset at midnight, formatting at the end of the ring, clearing.
Hard: 10 ms per write, so that tasks interleave and power fails between any two; 8-bit
pointers with 255 for "empty".  Correct when: records stay in order, inside their areas, and no hour is forgotten.

**Network** (`main/CoreBridge/WifiManager.cpp`, `MqttCtrl.cpp`, `CoreBridge.cpp`).
State: Wi-Fi status and retries, stored credentials, the time, MQTT status, the lamp, the flag of a factory reset.
Operations: Wi-Fi and MQTT events, the wait for the time, smartconfig, button, reset command.
Hard: four tasks; events handled after the state they tell of has passed.
Correct when: the accessory comes back on line by itself, the lamp goes out, a reset erases.

**Not modelled**: the SPI command link (one command and one response in turn; it is the loop that
the other modules have as a task), the upgrade service (never registered by the firmware), platform
wrappers and cryptography (conversions), SRP arithmetic, the Arduino core and Wire, the libraries' own test programs, host tools.
Of Bonjour only when and what is announced; of MQTT not the JSON that is published, nor requests for it.
`PROJECT.json` gives the reason for each.

### How they interact

- A report of a module enters through the SPI loop, becomes `hap_char_update_val()`, a
  trigger to the HomeKit loop, work for httpd, events to the subscribers.
- A PUT in httpd becomes a message in the UART queue, which the SPI loop hands to the bus.
- A link round in the SPI loop rebuilds the accessory that httpd reads, and asks the HomeKit
  loop for a new configuration number; the loop's queue exists only after the start.
- `hap_reset_pairings()` and `hap_reset_to_factory()` post to the HomeKit loop, which closes sessions of httpd, erases
  the keystore of httpd's table, and restarts.
- A new address (Wi-Fi event) creates one more periodic task over the same EEPROM; a factory reset
  over MQTT resets the modules and is completed at their next link round.

## 2. Modules

| Module | Models | One action is |
|---|---|---|
| `HapPairing` | pairings, sessions, resets | one handler of httpd, or a step of it where another task can see it half way (`pc`) |
| `PairingStore` | abstract: what the pairing database promises | one change of the set of pairings |
| `HapPairing_proofs` | theorems | |
| `HapDatabase` | start, identity, numbers, resets, announcement | one write or one call that can fail |
| `HapDatabase_proofs` | theorems | |
| `SecureSession` | frames, nonces, the shared buffer, closes | one read, one message sent, one turn of the server |
| `SecureSession_proofs` | theorems | |
| `HapNotify` | characteristics, subscriptions, events | one handler; an update is four steps, GET and the sending of events are several |
| `HapNotify_proofs` | theorems | |
| `HapRequests` on `JsonText` | one connection's requests, JSON in and out | one request; `JsonText` is functions |
| `HapObjects` on `AppleProfiles` | objects on the heap, list of accessories | one allocation with what follows it; `AppleProfiles` is a table |
| `HkdfSha` | SHA, HMAC, HKDF contexts | one call |
| `ModuleBus` | link rounds, HI check, accessory | one of the calls `deleteAccessory()`, `zeroModules()`, `createAccessory()`, `addModule()`s, `beginAccessory()`, or one message |
| `ModuleBus_proofs` | theorems | |
| `Smf` | currents and overload protection | one message of the bus |
| `Smf_proofs` | theorems | |
| `UartQueue` | the list of messages | one access to `front`, `back` or a `next` pointer |
| `UartQueue_proofs` | theorems | |
| `Warehouse` | EEPROM records and the tasks that write them | one write of a field |
| `Warehouse_proofs` | theorems | |
| `Online` | Wi-Fi, time, MQTT, factory reset | one event handled, or a step of its handler |
| `MC...` | instances for TLC | |

Definitions keep the names of the functions they model where TLA+ allows it
(`hap_controller_remove`, `jsmn_parse`, `DeleteAccessory`); `Name_Slip` or `Name_What` beside `Name`, under
a comment that begins with "Slip:", is a plausible mistake in that code, used only to show that a property can fail.

### HapPairing

`ctrl` is `hap_priv.controllers`, `nvs` its keystore copy, `conn` and `sess` what httpd keeps per
socket, `table` `hap_priv.sessions`, `setup` the static context, `closing` the closes queued with
`httpd_sess_trigger_close()`.  Handlers that nobody else can observe half way are one action:
`SetupStart` is M1, `SetupVerify` M3,
`SetupExchange` M5; `VerifyFinish` and `VerifyBind` are the two halves of the end of pair-verify.  `PurgeOne` is one turn of the loop that removes
the other controllers after the last administrator, since power may be lost between two turns.
A keystore operation succeeds or fails (`fails`), and `stale` remembers slots whose last operation
failed.  Cryptography is a choice between "verifies" and "does not", and an identifier stands for
identifier and key.

The handler of POST `/pair-setup` takes the session context of its connection for a pair-setup context without asking
what it is (`hap/esp_hap_ip_services.c:93`).  A request that finds a pair-verify context, a live secure session or a
pair-setup context freed since is a *stray* one.  `StrayRestart` is its M1, which frees the static context of whichever
connection and starts one for a socket that nobody has; `StrayFails` is an error, after which the connection drops what it had
without freeing it, so that a session keeps its entry of `hap_priv.sessions` (`lost`); `StrayBreaks` writes beyond the block it was given, after which
only the restart is modelled (`pc` is "broken").  `strays` counts them since the last restart; what is promised only until the first is said so.

`PairingStore` is the specification it implements, with `paired` = the set of (identifier,
permissions) in RAM and `durable` = that in the keystore.  Only an administrator's request grants or
changes; the first pairing is made only when there is none; a restart goes back to the durable
set.  Slots, sessions, timers and steps in the middle of handlers are stutters.  The refinement is
stated for a keystore that works: a failed write lets RAM and keystore part, which
`KeystoreMirrorsRam` and `stale` describe instead.

### HapDatabase

`flash` is the keystore, `priv` the copy in RAM, `pc` the step of `hap_init()` and `hap_start()`
that comes next, `queue` the loop's `xQueue`, `txt` the record announced.  A value drawn at random is
a number that was not drawn before, so `id = n` and key `n` belong together.  The history
variables `known` and `seen` are what the controller was told when it paired and last read.  The
controllers are reduced to one here.

Two tasks announce, the loop and httpd (`hap/esp_hap_ip_services.c:1443`), through static buffers and without a lock.  An
announcement is therefore two steps, `Format` and `hap_mdns_serv`, and `announcing` has what each task has formatted and whether it is
alone with it or has met the other's; then the strings may be anything (`torn`).  mDNS may fail, which both callers
ignore.  `dropped` remembers a refused event and a failed or met announcement until the next one made alone.

### SecureSession

A request is a sequence of frames of units; the server asks for some units at a time.  `sess` is the
server's context per socket, `heap` the session at each address, `frame` the static `decrypt_frame`.  A frame
carries the nonce it was made with, so that decryption succeeds or not.  A read that fails leaves in the frame what `hap_decrypt_data()`
leaves there: nothing, data that is counted and was never decrypted, or more read than there is (`Remains`), the next
copy of which has a negative length and restarts the program (`Overrun`).  The history sets `ghost`
(the session got the address of a frame that was not read out or had not arrived whole), `torn` (a write failed) and `clear` (plain text
went out after the session was found invalid) name the connections about which less is promised.

### HapNotify

A subscription and the owner mark name a slot of the session table, slot 0 standing for the
index −1 of a connection that found none.  History variables say what each connection asked for (`subs`), has
not been told (`owed`), what a full queue refused (`lost`), and who may have one event withheld
(`earned`).  The `update_called` decision of GET is modelled with its race: the SPI loop may be between
any two of its four steps.

### HapRequests and JsonText

`JsonText` is jsmn in the strict mode with parent links, the accessors of `json_parser.c` over its
tokens, and the generator with its buffer and flushes, as functions of the same names.  Lexemes are the unit of reading; names and
values are one character each of writing.  `HapRequests` runs the handlers over it on the database of the firmware,
from text to text.  The variable `ret` that is jumped over (`hap/esp_hap_ip_services.c:869`) and the pairs of
`doModulesAction()` that were never filled are free choices.  Numbers have `IntBits` bits.

### HapObjects and AppleProfiles

`AppleProfiles` is the table of the constructors: format, permissions, constraints, and the
characteristics of each service in order.  `HapObjects` builds from it with `heap` as the set of what is allocated; an allocation
or a keystore write that fails takes the error path of the code.  `lost` counts what the places that
are known to lose memory have lost (section 6), so that `NoLeak` can be exact about the rest.

### HkdfSha

A context is a record as in `sha.h`; the compression function, the block and digest sizes and the width of the
length words are parameters, since what can go wrong is the stream around them.  The properties compare with a
definition of padding, HMAC and HKDF on whole texts, written from the RFC's formulas and independent of the contexts.

### ModuleBus

The chain and its protocol are external and modelled from what the handlers expect: a LOAD is
answered by one link message per module, last module first.  A rebuild that begins while the
other task is in one is recorded in `overlap`, a round that begins before the one before it was over in `cut`, use of a freed or missing
accessory in `ub`.  Between the deletion of an accessory and the next `hap_add_accessory()` the core's `primary_acc` points to
freed memory; a rebuild that follows it there, to count accessories, is recorded in `stale`, and what it reads is left open: as it was, something
else, or an exception and a restart (`CountFaults`; `ReadFaults` for httpd).  A controller reads the accessory at any time after the start, a rebuild or
not; `shown.sure` is false of what it read from a rebuild or before the last restart.  Nothing is claimed of the heap after `ub`,
except that `Converges` then has no more to say.

### Smf

The modules are external: they report a rise that reaches the `mcub` they were told last, may report
anything else, obey, and answer requests.  `up` and `down` are the two directions of the bus, in
order.  Reports that raise the sum over `MAX_CURRENT` lead to one turn-off per emergency.

### UartQueue

Each access is an action, so the model contains every interleaving of the code's pushes and pops.
A block freed by the loop may be taken again by a later push.  A write into a freed block sets
`corrupt`, after which nothing is said.

### Warehouse

The average of the last hour divides by the number of hour records.  If another task has emptied the list in the meantime
that is a division by zero, an exception and a restart (`DivideByZero`, remembered in `divided`); the average at the start divides by
the hours of a day.

Time is a count of hours; an hour is long against everything a task does (five minutes of
sleep at most), so `Tick` waits for the tasks that may run.  Values of the current are reduced to how
they were computed.  Hours of a day and the length of the ring are constants, the
8-bit pointers are not: they wrap at 256.  One task runs for `MaxDays`; once a second one has run, or modules
were away (`shared`, `downs`), time ends at `MaxShared`.

### Online

`queue` holds the events of the Wi-Fi driver for `wifimgr_event_handler()`; `call` is the event that the MQTT
client's task is handling.  `wait` is the position inside `initTime()`, which blocks the event loop for up to 33 s.
The SAMD21 is assumed to announce itself after every restart.  Credentials are right or wrong.
`owed` remembers a factory reset that has not erased yet.

## 3. Runs

Distinct states and minutes are those of two workers.

| Run | Question | States | Time |
|---|---|---|---|
| `pairing` | do the tables agree through a keystore failure, a restart or reset at any step, a full session table and a request handled with the wrong context, and do they implement `PairingStore`? | 4,641,328 | 2.4 |
| `start` | do identity, numbering and announcement survive power losses, failures, resets and two tasks that announce? | 960,981 | 1.1 |
| `session` | do frames of several connections through one buffer stay apart, also after half of one, and do failed ones end? | 954,284 | 2.1 |
| `notify` | is every change delivered, once, to those who subscribed? | 830,673 | 0.9 |
| `put` | what do the writes and reads of a connection answer, tell the modules, and prepare? | 74,758 | 0.6 |
| `objects` | is an accessory whole, numbered and free of leaks whatever allocation fails? | 1,127,839 | 1.2 |
| `hash` | are the digests, codes and keys those of the definitions, in whatever pieces? | 16,051 | 0.3 |
| `bus_chain` | does the accessory follow the chain, and do controllers notice? | 1,633,634 | 1.8 |
| `smf` | is the current contained, and the right module turned off? | 939,830 | 0.8 |
| `queue` | what survives of a queue without a lock? | 336,916 | 0.3 |
| `warehouse` | are the records right over power failures, two tasks and a factory reset? | 3,791,711 | 0.6 |
| `online` | does the accessory come back on line and finish a factory reset? | 555,431 | 1.4 |

### What the properties say

A property with parts is a conjunction of named ones, each of which has its own mutant where that is worth it.

*Pairings.* `SetupSound`: nobody is paired while a setup is past M1, so that M5 may store without
looking again (`SetupExclusive`); the context belongs to the connection that will free it
(`SetupOwned`); its timer runs or its close is queued (`SetupEnds`); the 8-bit counter stops
(`AttemptsBounded`).  The first of these holds with stray requests too, the other three until the first one: after it, setup may be Busy for ever.
`TablesSound`: a session entry is one open verified connection or was left behind by a stray request
(`SessionTableSound`); a registered session whose controller was removed has its close queued, even if
the slot was reused (`OrphansClosing`); RAM and keystore differ only where the last operation
failed or after a reset's erase (`KeystoreMirrorsRam`); no record is doubled while the keystore works
(`UniqueIds`).  Neither says anything once a stray request has written beyond its context.
`NoOverwrite`: no record replaces another controller's.  `ImplementsStore`: the refinement.

*Start.* `IdentityKept`: an accessory that thinks it is paired has the identity and key its controller knows.
`FirmwareNumbered`: a configuration number the controller remembers stands for the firmware it has
read, unless a torn record was announced.  `AnnouncedIsTrue`: once the loop is idle and no task is announcing, number and
pairing flag announced are those in force, unless since the last announcement made alone an event was refused, or an
announcement failed or met the other task's.  `ResetRestarts`: an accepted reset restarts.  The first two except pairings made
while a reset is going on (`late`) and writes that failed; section 6 has what happens then.

*Sessions.* `OwnBytes`, `Understandable`: what is read is what was sent and no copy has a negative length, unless the session got the
address of a frame left unread; and what is sent can be
decrypted.  `ClearIsEnding`, `InvalidEnds`: a session that fell back to plain text is being closed, and ends.

*Events.* `Delivered`: although a trigger is dropped by a full loop queue, what a subscriber has not seen is on
its way or was refused by the full event queue, and a queued change always has a trigger on its way
(`NoLostWakeup`).  `Informed`: so each subscriber learns it.  `MarksOwned`: bits of a slot are those of
its present connection (`OwnSubscriptions`); a write, or an update overlapping a read, withholds at most
one event (`OwnerEarned`).  `AnnouncedOnce`: the state number rises once between the last leaving and the next coming.

*Requests.* `Reported`: the answer names what was refused and only then is a 207.  `WriteExact`: the message to the
modules has the accepted switches, in order.  `TimedOnly`: a preparation is good for one write, with its pid, in its
time.  `Served`: GET gives the whole database in well-formed JSON, however it falls into buffers.

*Objects.* `NoLeak`, `NumbersUnique`, `Complete`, `ListSound`: memory, numbers, services and list, with one failure
anywhere.

*Hash.* `Streamed`, `Derived`: contexts against the definitions.

*Bus.* `AccessorySound`: freed memory is not used (`MemorySafe`) and the services are those of the modules
(`ServicesAreModules`), while rebuilds do not overlap and messages are readable; the condition
describes the code, since nothing prevents the overlap.  Part of `MemorySafe` is that only a round cut off lets a rebuild count from a freed
accessory, and that only such a count can go wrong.  `CacheValidSinceStart`: between restarts a
configuration number keeps the services a controller has read under it, unless it read them in the middle of a rebuild.  `Converges`: after the faults end, the accessory offers the chain.

*Overload.* `SilenceIsSafe`: when no module has anything to report, the draw is below the limit or
the emergency known, although the core does not know the currents.  `CulpritRose`: the module turned off is the one that rose.
`Contained`: an overload that lasts is one whose only turn-off is spent.

*Queue.* `Fifo`: calls that do not meet make a lossless queue.  `PopSafe`: whatever meets, nothing is
sent twice (`NoDuplicate`), no dead pointer is followed (`PopLive`), unless a freed block was written to, which takes
a race (`CorruptOnlyByRace`).  `Drains`: the list empties.  Loss of a message by two simultaneous pushes is
reached by the model and not excluded.

*Records.* `AreasKept`: the lists stay in their areas.  `LogOrdered`: they are in order, one day's hours together.
`Settled`: no average is divided by zero, and once the tasks wait, this hour and this day are recorded; a factory reset and a full hour area are excepted.

*Network.* `FollowsNetwork`: with a network and the right credentials the accessory comes to
have time and MQTT (`Reconnects`), and the lamp says so (`PinSettles`).  `ResetDone`: a reset asked for erases.

### Bounds, and why they are enough

- `pairing`: two slots, two controllers and two sockets let a slot be reused, the last administrator leave
  another controller behind, and one connection act in the middle of another's procedure; one session entry makes the
  table full; two attempts reach the limit and the refusal.  One keystore failure (`MaxFails`), one restart or reset
  at any step (`MaxBoots`), one repeated start (`MaxAgain`), one stray request between two restarts (`MaxStrays`), of any connection and at any step; further ones begin from a state of the same kind,
  and what a second one may do is no longer promised.  Sockets and controllers are symmetric.
- `start`: two firmware versions, two power losses, one write or announcement that fails, two operations (a reset, a change of number, a pairing,
  an announcement of httpd's that meets the loop's); `CfgMax` 6 and
  `StateMax` 2 are the values after which numbers start again, `EventQ` 2 the loop's queue, so that both wrap and fill.
- `session`: two sockets and two addresses let an address come back to another connection, three connections reuse a
  socket while its close is queued, one entry leaves a session outside the table, one read or write fails.  Requests have two units in one or two frames, read in one or two
  pieces; replies have two frames.  So a frame is half read, half arrived, and followed by another.
- `notify`: two connections and two slots with two characteristics: owner and subscriber, a slot reused, a queue of
  two.  A loop queue of one drops triggers.  Three reports, three requests.
- `put`: the firmware's bridge with two switches, and characteristics of other kinds that reach the remaining
  branches of the write.  Documents: empty, one and two elements of each kind, cut short, wrong ids.  `OutBuf` 7
  and `AccBuf` 11 are smaller than any answer, so that a buffer is flushed in the middle of everything.
  Three requests: prepare, write, write again.  Eight-bit numbers make 255 and 300 wrap.
- `objects`: three accessories (a bridge and two bridged, or primary, added and replaced), one module, one failed
  allocation or write, one characteristic or service beyond the firmware's; ids up to 3.
- `hash`: sizes are an eighth of the real ones or less, in the same proportions (two families with different blocks and length words); texts
  and pieces fall before, at and after every boundary; two blocks and the overflow of the length word are reached.
- `bus_chain`: two modules are a chain with a first and a last link message; three accessory objects are one more than two
  tasks can hold, `ASSUME`d; any two faults (twice plugged or unplugged, once unreadable, late, a restart) in any order, and a
  loop queue of one, which refuses the second event.
- `smf`: two modules with shares 3, so that loads 2 and 5 are below and above a share and two of them above `MAX_CURRENT`
  6; lines of three messages; two changes of load, switch, priority or settings.
- `queue`: three pushers, three messages, three cells: two pushes and a pop meet, and a freed block is taken again.
- `warehouse`: three hours a day, a ring of three dates and six days are twice the ring with one task; two days
  once two tasks have run or modules were away.  Two restarts, one hour without modules, one factory reset.
- `online`: three connection attempts (`Retries`) and two waits for the time (`Trials`) reach both limits; five events from outside:
  network lost and back, broker lost and back, credentials, button, reset command.

`CHECK_DEADLOCK FALSE` where the bounds on the environment let the system come to rest: an empty queue, an idle
bus, the end of the counted events.  `pairing` is checked for deadlock.

### Fairness

- `start`: weak fairness of the steps of the start and of the HomeKit loop, which are tasks that block only on their queue.
- `session`, `notify`: weak fairness of each task's steps.  A close that is queued runs because httpd looks at its
  control socket before the data sockets in every round of `select()`: in `HapNotify` the
  start of queued work therefore has strong fairness, in `SecureSession` a queue that only grows needs weak.
- `bus_chain`, `smf`, `queue`: weak fairness of each FreeRTOS task's next step and of the bus's delivery: all of them
  block between rounds (`vTaskDelay()`, SPI transfers), so none starves another.  In `Smf` a module with a rise to
  report or asked for its current reports it.
- `online`: weak fairness of the event loop, the MQTT client, the driver's answers, the clearing task, and the links
  of modules that were asked for them.  The network, the broker, the button are never forced.
- `pairing`, `warehouse`, `put`, `objects`, `hash`: no liveness; `SetupEnds` and `OrphansClosing` say as invariants what
  must be pending.

## 4. Proofs

`HapPairing_proofs` proves, for every number of slots, sessions, sockets, controllers, failures and restarts:

| Theorem | Property |
|---|---|
| `TypeCorrect` | `TypeOK` |
| `SetupOwnedCorrect`, `SetupEndsCorrect`, `AttemptsCorrect`, `SetupExclusiveCorrect` | the parts of `SetupSound` |
| `SetupSoundCorrect` | `SetupSound`, checked by the run |
| `KeystoreCorrect`, `UniqueIdsCorrect`, `SessionTableCorrect`, `OrphansCorrect` | the parts of `TablesSound` |
| `TablesSoundCorrect` | `TablesSound`, checked by the run |
| `NoOverwriteCorrect` | `NoOverwrite`, checked by the run |
| `StoreImplemented` | `ImplementsStore`, checked by the run: the refinement of `PairingStore` |

The only assumption is `PairingAssumption`: positive sizes, at most 255 attempts (`uint8_t`), bounds that are
natural numbers, and the two null values outside their sets.

The argument goes in layers.

1. `TypeInv` is `TypeOK` with two facts it needs.  `SetupSock`: until the first stray request the context in use names a socket, and
   only a context in use has connections pointing to it.  `PurgeBusy`: during
   the removal of the rest there is something left to remove, so the search `First` has a result (`FirstIsLeast`, from
   the well-foundedness of the naturals).
2. `SetupOwned` and `SetupEnds` are inductive over `TypeInv`; `AttemptsInv` adds that a context awaiting M3 was started
   below the limit, so the addition modulo 256 never wraps
   (`NoWrap`).  All three are about the steps before the first stray request: such a step raises `strays` (`StrayCounted`) and every
   other leaves it or starts it again from 0 (`StraysKept`), with the RAM of a restart.
3. `CtrlInv` proves `SetupExclusive`, which is not inductive alone: an Add Pairing in the middle of a setup would break
   it.  `hap_is_req_admin()` reads the permissions of the session's record without asking whether the record is still
   in use; `RecordsValid` says that a record with the administrator bit is a valid one and that a valid one names a controller.  So with nobody paired
   no request to add is accepted.  `RecordSteps` reduces every action to what it may do to one record (keep, save into a free slot,
   update, remove, load), and the later proofs split on that.
4. `KeyInv` needs `NvsFollows` beside `KeystoreMirrorsRam`, because a restart copies the keystore to RAM: what it
   brings back must be free of doubles too.
5. The refinement, for steps before the first failed keystore operation: `PairingsSave` and `PairingsRemove` say what
   one save or removal does to the *set* of pairings, which needs that no identifier has two records
   (`KeyInv`, `OnlySlot`); `AddSaves` finds the slot of an Add Pairing.  `StoreStep` has one step per action: most leave both sets alone.
6. `SessionTableSound` and `OrphansClosing` are inductive over the layers above.  For the second, the case that
   matters is a slot reused before its close was taken.  An entry that a stray request left behind (`lost`) is no entry of the table
   of the connections, and whoever closes the sessions of a controller may close one socket too many by it.

`HapNotify_proofs` proves, for every number of connections, characteristics, slots, reports and requests and every
length of the two queues:

| Theorem | Property |
|---|---|
| `TypeCorrect` | `TypeOK`, with `Wakeups <= reports` |
| `TableCorrect` | `OwnSubscriptions`, with what the session table owes to one slot per connection |
| `MarksOwnedCorrect` | `MarksOwned`, checked by the run |
| `AnnouncedOnceCorrect` | `AnnouncedOnce`, checked by the run |
| `DeliveredCorrect` | `Delivered`, checked by the run |

The only assumption is `HapNotifyAssumption`: finite sets without the null value, positive sizes.

1. `TypeOK` is not inductive: `works` stays below its bound because the calls to make, the triggers queued and the
   update in progress together never outnumber the reports (`Wakeups`).
2. `TableInv` adds to `OwnSubscriptions` that the search of `hap_get_ctrl_session_index()` finds the only slot of a
   connection (`Seated`), that a closed connection subscribes to nothing, and that a change is owed only to a
   connection with a slot.  `SameIndex`: opening or closing one connection moves no other.
3. `OwnerEarned` leaves out what a GET in progress has yet to look at; `MarkConfirmed` covers the mark that GET will
   leave in place because an update came in between.
4. `AnnouncedOnce` needs that nothing was announced while `disconnected_event_sent` is clear.
5. `Delivered` is inductive over 1 and 2.  `WakeupStep`: a trigger is dropped only when others are queued.  `OwedStep`:
   `hap_send_notification()` takes the whole queue, whoever is owed something has a slot at or after the first, and
   the turn of that slot finds the bit in `ev_ctrls` and tells it or passes over it as the owner.

`HapDatabase_proofs` proves, for every range of the numbers, every length of the loop's queue, and any number of
firmware revisions, losses of power, failed writes and operations:

| Theorem | Property |
|---|---|
| `TypeCorrect` | `TypeOK` |
| `IdentityKeptCorrect` | `IdentityKept`, checked by the run |
| `AnnouncedIsTrueCorrect` | `AnnouncedIsTrue`, checked by the run |
| `FirmwareNumberedCorrect` | `FirmwareNumbered`, checked by the run, under `Roomy` |

`HapDatabaseAssumption` asks for a range of two configuration numbers at least and versions other than 0.  `Roomy` says that the changes
the model can make are fewer than the numbers of the range (65535 in the code); the instance of the run satisfies
it.  Without it the theorem is false, and so is what the code relies on: a number that has gone round the whole
range while a controller was away is the number it remembers.

1. `TypeInv` adds to `TypeOK` that a setting is at most 3, that the loop has neither events nor a reset before its task has
   created the queue, and that it is not started before the step that starts it.
2. `KeyInv`: `ResetShape` is what a reset can still have to erase, and while the identity is what is left the controllers are
   gone from the keystore (`Erasing`); `Drawing` is what is saved between the identity and the two halves of its key.
   From the step that loads them to the next reset, RAM and keystore have the same identity and key.  `Quiet` steps, most of
   them, touch none of this.
3. `MetInv`: only an accessory that runs announces, the loop only once its queue exists, and a task that is alone with its
   announcement is the only one that announces.  `RecordInv`: with nothing queued, what such a task has formatted is in force, and what is
   announced is too if no task announces; the first announcement is made in `hap_start()`, before or after the loop's task
   runs.
4. `NumberInv`: `Ahead` is how far the stored number is from the one the controller has read, going round.  It
   grows by the events still queued and by an upgrade not yet counted (`Pending`), and each of these was
   paid for by a loss of power, an operation, or the firmware found first (`Used`).  The record announced lags behind by no more
   than that (`Lagging`), since an announcement that fails leaves an older one in place; a torn record could be any distance off and is excluded
   (`Clean`).  So a number that differs
   cannot come to agree by being incremented, and one that agrees belongs to the revision stored beside it.  `hap_check_fw_version()`
   writes the number before the revision; in between, the number is one that no controller has read.

`SecureSession_proofs` proves, for every number of sockets, addresses, table entries, requests, events and failures, and
every size of requests, frames and reads:

| Theorem | Property |
|---|---|
| `SessionsCorrect` | `SessInv`: open sockets and sessions in use belong together one to one |
| `TypeCorrect` | `TypeOK` |
| `OwnBytesCorrect` | `OwnBytes`, checked by the run |
| `UnderstandableCorrect` | `Understandable`, checked by the run |
| `ClearIsEndingCorrect` | `ClearIsEnding`, checked by the run |

The only assumption is `SessionAssumption`: positive sizes and a null value outside its sets.

1. `TypeInv` with `SessInv`; `TableInv` and `LeftInv`, which complete `TypeOK`, are the table's bound and that a request is
   never read past its end.
2. `EndInv`: an invalid session in the table has its close queued, and only an invalid one sends in the clear.  What
   matters is that closing another connection takes no close of this one out of the queue.
3. `NonceInv`: the session has counted the frames its controller has decrypted and those under way, in their order.
4. `OwnInv`, of each connection: what arrived is a run of frames that follow on each other (`Chain`); what was handed to the
   server is what was sent first (`Handed`); what is left of the shared frame, then what arrived, continue it, and
   outside of a request nothing is left (`Joined`); a controller whose answer is under way has nothing more to be read
   (`Answered`).  The last two make the one buffer safe: a frame with something left in it belongs to the request
   in service, so another session that wipes it loses nothing.  A read that failed breaks this: what it leaves belongs to a
   session that will not read again, so it does harm only to a session that gets the same address (`ghost`), which is excepted.

`UartQueue_proofs` proves, for every number of tasks, blocks and messages and every interleaving of their accesses:

| Theorem | Property |
|---|---|
| `PoolCorrect` | `PoolInv`: what may still be reached of the list |
| `FifoCorrect` | `Fifo`, checked by the run |
| `PopSafeCorrect` | `PopSafe`, checked by the run |

The only assumption is `UartQueueAssumption`: the loop is one of the pushers, and the heap has a block for each message.

1. `TypeInv` adds to `TypeOK` what the pop relies on: only the loop empties the queue, so what it tested is still there.
2. `PoolInv`, whatever meets: there is a set of allocated blocks, those a pointer may still lead to, in which
   no block is pointed to twice and nothing points to the front, to a block a push still holds or to the one being
   popped; their messages and those sent are all different.  A lost message only leaves this set.  So the loop follows no dead
   pointer even after a freed block was written to, more than `PopLive` asks.
3. `CalmInv`, while no two calls have met: the list from `front` is the last messages pushed, in order, `back` is its end,
   and each step of the call in progress finds what it needs (`Calm`).

`ModuleBus_proofs` proves, for every number of modules and accessory objects, every length of the loop's queue, and any
number of modules plugged, messages garbled, answers late and restarts:

| Theorem | Property |
|---|---|
| `TypeCorrect` | `TypeOK`, with the steps each task can be at |
| `AccessoryCorrect` | `AccessorySound`, checked by the run |
| `CacheCorrect` | `CacheValidSinceStart`, checked by the run |

The only assumption is `ModuleBusAssumption`: at most 254 modules, the addresses a byte leaves; three accessory
objects at least, one more than two tasks can hold; null outside both sets.

1. `RoundInv`, while every link message was readable: a link message other than the first of its round follows the one of the
   next higher address (`InOrder`), and from the first message of a round to the last `module_initialized` is clear
   (`Handling`).  So the modules linked when a message is handled are as many as the addresses above it.
2. `HeapInv`, while rebuilds did not overlap either: `moduleLiveCheck()` rebuilds only while the loop is idle and outside a round
   (`Apart`), modules are counted as they are linked (`Numbered`), and `_accessory` points to a live object, except between its
   deletion and the creation of the next, which has no service until it gets all of them (`Alive`).  While no round was cut off
   a removal finds `primary_acc` at that object or at none, so it counts from no freed one.  `AccessorySound`
   follows.  The condition is the one the property states: nothing in the code keeps `moduleLiveCheck()` from
   rebuilding in the middle of a round.
3. `CacheInv`, under the same condition: a controller that is sure of what it read and remembers the current number has read
   the present services, unless a rebuild that asks for another number is going on or has just asked for it
   (`Noticed`).  It is not sure of what it read from a rebuild, nor, after a restart, of anything: `hap_start()` may find other
   services under the stored number, since a request before it is refused.

`Smf_proofs` proves, for every number of modules, every `MAX_CURRENT`, all loads and priorities, every length of the
lines, and any number of events:

| Theorem | Property |
|---|---|
| `TypeCorrect` | `TypeOK`, with what may be under way in either direction |
| `SilenceCorrect` | `SilenceIsSafe`, checked by the run |
| `CulpritCorrect` | `CulpritRose`, checked by the run |

The only assumption is `SmfAssumption`: 1 to 20 modules, natural loads with 0 among them, some priority.

1. Sums.  `MapThenSumSet` folds over a set by taking out one chosen element after another.  `AddsExists` shows that the
   function which does so on the subsets of a finite set exists, by induction on their size (`Induct`, from the
   well-foundedness of the naturals; induction over one set of numbers needs no operator as a parameter).  `TotalBound`
   compares two sums term by term, `TotalChange` says what one changed term does to a sum.  `ShareBound`: `num` shares
   fit into what is left below the limit.
2. `RoundInv`: the links under way are one interval of the line and end with address 1; with those handled they are all `N` modules,
   unless a new round has been asked for.  So `num` never exceeds `N`, and it is `N` when no round is due (`LinkedNum`).
3. `ReportInv`: a module has at most one report under way, and that one is its last.
4. `HeardInv`, when no round is due or under way (`Linked`): of a module from which nothing is awaited (`Awaited`: an
   answer it owes, a question on its way, a report on its way) the core has the last report; once nothing is awaited from
   any, `sum` is the sum of these, the shares of all modules fit below the limit, and they were or will be told them
   (`Promised`).  The last link of a round asks all modules (`LinkAsks`), without which the currents a round clears would
   count as known.
5. In silence nothing is awaited; each module draws at most `mcub` more than it reported (`KeptBelow`), so all together at
   most `sum + N * mcub`.
6. `LimitInv` (`emerg_triggered` is set exactly when the sum is beyond the limit, and otherwise one share fits) with
   `TotalChange` proves `CulpritRose`: a report that takes the sum beyond the limit rose by more than was left, hence by
   `mcub` at least.

`Warehouse_proofs` proves, for every number of hours in a day and records in the date ring up to 254, every set of
tasks and every interleaving of their writes, over any time and any number of restarts, outages and clearings:

| Theorem | Property |
|---|---|
| `TypeCorrect` | `TypeOK`, with the steps each task can be at and the range of the date pointers |
| `AreasKeptCorrect` | `AreasKept`, checked by the run |
| `LogOrderedCorrect` | `LogOrdered`, checked by the run |
| `SettledCorrect` | `Settled`, checked by the run, under `BriefOutage` |

`WarehouseAssumption` asks for areas of 2 to 254 records, since 255 is the empty pointer of one byte.  `BriefOutage`
says that the hours without modules (`MaxDown`) are at most a day less two; the instance of the run satisfies it.  It cannot be
weakened: with `MaxDown = 2` for its three hours TLC finds that instance to violate `Settled`.  The periodic
task remembers an hour of the day and not a time, so after a whole day away (the hour that
began before the outage counts too) it takes the hour for the one it recorded.

1. `AloneInv`: until a second task runs, which `shared` remembers, only one task can write; a restart does not bring back the others.
2. `RingInv`, one writer: up to the pointer the days rise; behind it, but for the record that comes next, records are
   either unused or the older end of a full ring.  The record that comes next is left out, since an append writes it before the
   pointer, and a restart may come between.
3. `HourInv`, one writer and no hour without modules: the hour records are of the day of the last date record, at most one for
   each hour that passed (`HourList`), and fit what the task remembers at each of its steps (`Recording`).  So an append
   finds room, which is `AreasKept`, and the list that is averaged is not empty (`~divided`).
4. `SharedInv`, any number of tasks and hours without modules, no restart, no clearing and no hour record outside its area: the last hour record is of one of the last
   `downs + 2` hours, and of this hour if every task has done what it noticed; and from an append to the average after it nobody
   empties the list, which only the first hour of a day and a clearing do.  `BriefOutage` makes the numbers of these
   hours differ, so that a task that finds its own hour in the list need not append.

Only model-checked:

- Every liveness property (`ResetRestarts`, `InvalidEnds`, `Informed`, `Converges`, `Contained`, `Drains`, `FollowsNetwork`, `ResetDone`):
  fairness and `ENABLED` are outside what the prover does.
- The invariants of `HapRequests` and `HkdfSha`.  `JsonText` and `HkdfSha` define parsing, padding and folding of data by
  recursive operators; what these compute for every input takes an induction over the data that the prover does not have.  The
  fold of `Smf` is the exception: it adds up over a finite set, and induction over its size is enough.
- The invariants of `HapObjects`.  Its `numbering` and `list` are sequences that are searched by position; the instance already
  has every failure at every place of every procedure, and one more object or service adds no new kind of step.

## 5. Mutants

Each property of a run has at least one mutant in `PROJECT.json`: a definition of the model replaced by the `_Slip` (or other
variant) beside it, with which the property fails in that run.  Examples: M1 that does not look for a
pairing, a close that leaves its subscriptions, a removal that asks for no reload, one nonce for all the frames of
a message, a preparation whose time is not looked at, padding without the second block, a
pop that leaves `front` where it was, a connection given up after the last retry.

## 6. Behaviours a reader of the code should know

The models reach these, but for the few that are said here to be in no model.  They are the conditions in the properties above, and
no property hides more than them.

*Pairings and start*

- A reset erases the keystore and waits a second before the restart; httpd still serves, and a pairing saved in that second is
  loaded at boot (`hap/esp_hap_main.c:97`; the header promises removal, `include/hap.h:1376`).
- "Removing all other controllers" is one keystore operation each: a restart in the middle leaves controllers without an
  administrator (`hap/esp_hap_pairings.c:97`).  Add Pairing may take the bit from the last administrator (`:146`).
- The comment at `hap/esp_hap_pair_setup.c:57` says one minute; the timer is set to 40 s.
- Power lost between the identity and its keys leaves zero keys in RAM at the next start; an identity whose write fails
  changes at every boot; `hap_start()` is not tried again.
- Modules that change over a restart are offered under the old configuration number, since `hap_update_config_number()` before
  `hap_start()` is refused (`hap/esp_hap_main.c:203`).
- Any request to `/pair-setup` is handled with the session context of its connection, whatever that is (`hap/esp_hap_ip_services.c:93`).
  After pair-verify M1, or on a secure connection, it frees another connection's context and may start one for a socket that
  nobody has: setup is then Busy until a restart.  It can raise the attempts above the limit, leave an entry of `hap_priv.sessions`
  whose session no connection holds (`:128-133`; closing it later closes whoever has the socket), or write beyond a smaller block.
- A record stays announced after its number or pairing changed if mDNS fails, since the loop ignores the result
  (`hap/esp_hap_ip_services.c:1684-1689`, `hap/esp_hap_main.c:59-66`); it is corrected by the next announcement.  An announcement of httpd's while
  the loop makes one shares its static strings, so any number may be announced.
- An announcement also reads the strings of `hap_priv.primary_acc`, which a rebuild has freed until `hap_add_accessory()` sets them
  again.  Neither this read nor httpd's reads of characteristics are in the models.

*Sessions and requests*

- A read that ends inside a frame leaves its length and position in the shared buffer (`hap/esp_hap_network_io.c:121-128`).  A later session
  that gets the same address is handed bytes nobody sent, or a copy with a negative length.
- After a request to `/pair-setup` on a secure connection the socket keeps the functions that encrypt and has no session context, and
  its entry in the table stays; what is sent to it later goes out in clear.  `HapPairing` has the request; `SecureSession` does not have what is sent then.
- A session found invalid answers in plain text until it is closed (`hap/esp_hap_network_io.c:177`); one outside the full session
  table is not closed.  A failed send of an event is ignored (`:171`), after which the nonces differ.  A queued
  close may meet the next connection of the socket.  The socket's number is given as flags to `recv()` (`:198`).
  Assumed: a controller waits for the answer before the next request, and frames have at most 1024 bytes.
- The jumped-over `ret` of a write (`hap/esp_hap_ip_services.c:869`) makes the answer 204 or 207 with no elements; `doModulesAction()` is given `char_cnt` entries of which only the switches were filled (`:868`).
  Identify is never called from a write; memory missing for a service makes `/accessories` a malformed 200; ids above
  2³¹ wrap; `/mqtthost` stays registered after a stop.
- Not in `HapRequests`, whose properties do not depend on it: `maxLen`, `maxDataLen`, description and unit in a reply with `meta`
  (`hap/esp_hap_ip_services.c:320-328`), `valid-values-range` (`:371-376`), and, since the firmware's database cannot reach them, the refusals
  of a value without memory (`:733-737`, `:748-752`) and of base64 (`:755-761`).
- `WriteExact` allows any value in the entries that were not filled.  `TimedOnly` is about one connection, and about
  the values written: what an accepted `ev` changes is in `WriteExact`.  Names and values are one character, so a flush inside one is not
  told from one beside it.
- The owner mark survives the close of its connection and withholds one event from the next in the slot.  A connection without a session entry subscribes with
  success and is never told.

*Objects and hash*

- `hap_acc_create()` loses an information service it cannot attach, a string characteristic that fails loses its text, product data are never
  freed; a removed accessory keeps its `next`, so adding it again can make the list endless; ids repeat when the saved counter was not written.
- `hkdfReset()` does not initialise `Computed` and `Corrupted` (`hkdf.c:210`), and chains of `||` turn every error code into 1.
  The outputs of the instance have at most nine octets, which never reach the 255 blocks HKDF counts in one octet.

*Modules*

- A chain taken away inside a link round leaves `module_initialized` false and a deleted accessory registered until the next round
  (`main/CommandHandler.cpp:83`); a module gone from the end is not noticed while another answers HI.
  The next round counts accessories from the deleted one (`hap/esp_hap_acc.c:534-546`): it reads freed memory, which may be an exception, a list without
  an end, or a wrong count.
- The new configuration number is asked for when the accessory is created (`main/CoreBridge/Homekit.cpp:46`) and services are added and published
  after that (`:85`).  A controller that sees the number and reads in between keeps an incomplete database, or none, under the number of the
  complete one.
- The overload protection chooses from the currents it was told, which may be old; without modules it divides by `num_modules`
  = 0, a restart; priorities are kept in RAM; one module is turned off per emergency.
- Two simultaneous pushes can lose a message or write into a freed block.

*Records and network*

- A second periodic task, or a midnight without modules, writes more than 24 hour records, over the date records
  (`main/CoreBridge/Warehouse.cpp:46`, `Perioder.cpp:131`).  Two tasks can list one day twice.  A restart inside
  `formatZero()` can leave the hour pointer at 255 beside old records until midnight.  An outage of 24 hours brings
  the same hour back, and the day is not closed.
- A factory reset that empties the hour list between the append of the last hour of a day and its average makes that average a division by zero, which restarts the
  program (`Perioder.cpp:154`); so does a second task once the hour area has overflowed.
  `AreasKept` is silent about the hour area once a second task has run or a first hour passed without modules, and
  `LogOrdered` about the order once a second task has run: the code keeps neither then.
- Each new address creates one more periodic task.  The lamp is not set again when the MQTT connection outlives a
  loss of Wi-Fi, nor cleared when only the broker is lost.  A restart loses the reset's flag, and a second reset asked
  for between the erasing and the clearing of the flag is lost.

## 7. What is left

- `ModuleBus` composed with `HapNotify`: events queued for characteristics of an accessory that has been deleted since.  `MemorySafe`
  covers the two tasks of the bus only.
- The text of pairing TLVs and SRP, which are conversions and arithmetic.
- Theorems: the list of accessories and the numbers of `HapObjects` for any number of objects; `TimedOnly` of
  `HapRequests`, once its requests are separated from the text they are read from.
