----------------------------- MODULE HapDatabase -----------------------------
(***************************************************************************)
(* The start of the HomeKit core and what it keeps in the keystore:        *)
(* identity and keys, configuration and state number, accessory ids, the   *)
(* pairing, the settings of the firmware (esp_hap_database.c,              *)
(* esp_hap_main.c, esp_hap_keystore.c, CoreBridge.cpp), and what is        *)
(* announced of them over Bonjour.                                         *)
(*                                                                         *)
(* hap_init() and hap_start() are sequences of steps, one per write to the *)
(* flash or call that can fail; pc is the step the starting task is at.    *)
(* Power may be lost between any two steps, a write may fail and leave the *)
(* old value, and a partition without free pages is erased when it is      *)
(* opened.  A reset is carried out by the HomeKit loop: it waits, erases   *)
(* one namespace after another, waits and restarts, while httpd goes on.   *)
(*                                                                         *)
(* A random identity or key pair is a number that was not drawn before;    *)
(* 0 stands for a value that is not stored and for a key of zeros.  The    *)
(* controllers are one: the single pairings are the matter of HapPairing.  *)
(***************************************************************************)
EXTENDS Integers, Sequences

CONSTANTS
  CfgMax,     \* the last configuration number: 65535
  StateMax,   \* the last state number: 65535, a uint16_t
  EventQ,     \* length of the loop's event queue: 10
  Versions,   \* firmware revisions
  MaxCrashes, \* bound on losses of power and of the free pages
  MaxFails,   \* bound on writes and calls that fail
  MaxOps      \* bound on what controllers and the application do

ASSUME HapDatabaseAssumption ==
  /\ CfgMax \in Nat \ {0, 1} /\ StateMax \in Nat \ {0} /\ EventQ \in Nat \ {0}
  /\ Versions \subseteq Nat \ {0} /\ Versions # {}
  /\ MaxCrashes \in Nat /\ MaxFails \in Nat /\ MaxOps \in Nat

VARIABLES
  flash,   \* the keystore
  priv,    \* hap_priv and the settings, in RAM
  pc,      \* how far the start has come
  loop,    \* loop_started, and whether its task has created xQueue
  queue,   \* xQueue
  reset,   \* what a reset still has to erase; or none goes on
  txt,     \* the TXT record announced; cfg = 0: none
  first_announce_done,
  announcing, \* what a task that is in hap_mdns_announce() has formatted
  fw,      \* the firmware revision that runs
  drawn,   \* random numbers drawn so far
  known,   \* external: identity and key a controller has paired with
  seen,    \* external: configuration number and firmware it has read
  late,    \* history: a controller was saved while a reset was going on
  torn,    \* history: a record was announced that two tasks had formatted at once
  dropped, \* history: an event was refused, an announcement failed or met another
           \* one, since the last one that was made alone
  count    \* the counters behind the bounds

running == <<loop, queue, reset>>
mdns    == <<txt, first_announce_done, announcing>>
world   == <<fw, known, seen, late, torn, dropped>>
vars    == <<flash, priv, pc, running, mdns, drawn, world, count>>

Keys == {"acc_id", "ltska", "ltpka", "config_num", "cur_aid", "state_num", "fw_rev",
         "ctrl", "setting"}
Main == Keys \ {"ctrl", "setting"}  \* the namespace "hap_main"
Ram  == Keys \ {"fw_rev"}

Starting == <<"keystore", "id", "ska", "pka", "ctrl", "config", "aid", "state", "setting",
              "linked", "fw", "fwsave", "httpd", "loop", "mdns", "services", "running">>
Resets   == {"pairings", "factory", "homekit", "network", "reboot"}
None     == <<"none">>
Tasks    == {"loop", "httpd"}  \* the tasks that announce while the accessory runs
Silent   == [how |-> "no", cfg |-> 0, paired |-> FALSE]

Counters == {"crashes", "fails", "ops"}
Bound    == [crashes |-> MaxCrashes, fails |-> MaxFails, ops |-> MaxOps]

TypeOK ==
  /\ flash \in [Keys -> Nat] /\ priv \in [Ram -> Nat]
  /\ flash["config_num"] <= CfgMax /\ priv["config_num"] <= CfgMax
  /\ flash["state_num"] <= StateMax /\ priv["state_num"] <= StateMax
  /\ pc \in {Starting[i] : i \in DOMAIN Starting} \cup {"failed"}
  /\ loop \in {"no", "started", "created"} /\ queue \in Seq(Resets \cup {"config", "announce"})
  /\ Len(queue) <= EventQ
  /\ reset \in {None} \cup Seq({"ctrl", "main", "net", "all"})
  /\ txt \in [cfg : Nat, paired : BOOLEAN] /\ first_announce_done \in BOOLEAN
  /\ announcing \in [Tasks -> [how : {"no", "alone", "met"}, cfg : Nat, paired : BOOLEAN]]
  /\ fw \in Versions /\ drawn \in Nat
  /\ known \in [id : Nat, pk : Nat] /\ seen \in [cfg : Nat, fw : Nat]
  /\ late \in BOOLEAN /\ torn \in BOOLEAN /\ dropped \in BOOLEAN
  /\ \A c \in Counters : count[c] \in 0..Bound[c]

Cleared == [k \in Ram |-> 0]
Empty   == [k \in Keys |-> 0]

\* A device fresh from the factory, or one near the end of its numbers.
Init ==
  /\ flash \in {Empty, [Empty EXCEPT !["acc_id"] = 1, !["ltska"] = 1, !["ltpka"] = 1,
                          !["config_num"] = CfgMax, !["state_num"] = StateMax,
                          !["cur_aid"] = 1, !["ctrl"] = 1, !["fw_rev"] = 1]}
  /\ priv = Cleared /\ pc = "keystore" /\ loop = "no" /\ queue = <<>> /\ reset = None
  /\ txt = [cfg |-> 0, paired |-> FALSE] /\ first_announce_done = FALSE
  /\ announcing = [t \in Tasks |-> Silent] /\ fw \in Versions
  /\ drawn = flash["acc_id"]
  /\ known = [id |-> flash["acc_id"], pk |-> flash["ltpka"]]
  /\ seen = [cfg |-> flash["config_num"], fw |-> flash["fw_rev"]]
  /\ late = FALSE /\ torn = FALSE /\ dropped = FALSE
  /\ count = [c \in Counters |-> 0]

Once(c) == count[c] < Bound[c] /\ count' = [count EXCEPT ![c] = @ + 1]

-----------------------------------------------------------------------------
(* The keystore *)

\* hap_keystore_set(): opens, writes and commits, or leaves the old value.
hap_keystore_set(key, value) ==
  \/ flash' = [flash EXCEPT ![key] = value] /\ UNCHANGED count
  \/ Once("fails") /\ UNCHANGED flash

hap_keystore_delete_namespace(keys) ==
  \/ flash' = [k \in Keys |-> IF k \in keys THEN 0 ELSE flash[k]] /\ UNCHANGED count
  \/ Once("fails") /\ UNCHANGED flash

\* hap_platform_keystore_init_partition(): a partition without free pages is
\* erased; if it cannot be opened the start ends.
InitKeystore ==
  /\ pc = "keystore"
  /\ \/ pc' = "id" /\ UNCHANGED <<flash, count>>
     \/ Once("crashes") /\ pc' = "id" /\ flash' = Empty
     \/ Once("fails") /\ pc' = "failed" /\ UNCHANGED flash
  /\ UNCHANGED <<priv, running, mdns, drawn, world>>

-----------------------------------------------------------------------------
(* hap_database_init() *)

\* Get a value, or store the given one if there is none.
Restore(step, key, default, next) ==
  /\ pc = step /\ pc' = next
  /\ IF flash[key] # 0
     THEN priv' = [priv EXCEPT ![key] = flash[key]] /\ UNCHANGED <<flash, count>>
     ELSE priv' = [priv EXCEPT ![key] = default] /\ hap_keystore_set(key, default)
  /\ UNCHANGED <<running, mdns, drawn, world>>

\* The identity, and the keys that belong to it.
GetIdentity ==
  /\ pc = "id"
  /\ IF flash["acc_id"] # 0
     THEN /\ pc' = "ctrl"
          /\ priv' = [priv EXCEPT !["acc_id"] = flash["acc_id"], !["ltska"] = flash["ltska"],
                                  !["ltpka"] = flash["ltpka"]]
          /\ UNCHANGED <<flash, drawn, count>>
     ELSE /\ pc' = "ska" /\ drawn' = drawn + 1
          /\ priv' = [priv EXCEPT !["acc_id"] = drawn']
          /\ hap_keystore_set("acc_id", drawn')
  /\ UNCHANGED <<running, mdns, world>>

\* Slip: the public half is saved first.
SaveKey_PublicFirst(step, key, next) ==
  /\ pc = step /\ pc' = next
  /\ priv' = [priv EXCEPT !["ltska"] = drawn, !["ltpka"] = drawn]
  /\ hap_keystore_set(IF key = "ltska" THEN "ltpka" ELSE "ltska", drawn)
  /\ UNCHANGED <<running, mdns, drawn, world>>

\* The key pair is drawn with the identity; its halves are saved one by one.
SaveKey(step, key, next) ==
  /\ pc = step /\ pc' = next
  /\ priv' = [priv EXCEPT !["ltska"] = drawn, !["ltpka"] = drawn]
  /\ hap_keystore_set(key, drawn)
  /\ UNCHANGED <<running, mdns, drawn, world>>

\* hap_controllers_init()
GetControllers ==
  /\ pc = "ctrl" /\ pc' = "config"
  /\ priv' = [priv EXCEPT !["ctrl"] = flash["ctrl"]]
  /\ UNCHANGED <<flash, running, mdns, drawn, world, count>>

is_accessory_paired == priv["ctrl"] # 0

\* Slip: the number runs over the end of its range.
Following_NoWrap(n, max) == n + 1

\* The numbers go from 1 to max and start again.
Following(n, max) == IF n >= max THEN 1 ELSE n + 1

\* hap_init_state_number(): a paired accessory starts with a new number.
InitStateNumber ==
  /\ pc = "state" /\ pc' = "setting"
  /\ LET n == IF flash["state_num"] = 0 THEN 1
              ELSE IF is_accessory_paired THEN Following(flash["state_num"], StateMax)
              ELSE flash["state_num"]
     IN /\ priv' = [priv EXCEPT !["state_num"] = n]
        /\ IF n # flash["state_num"] THEN hap_keystore_set("state_num", n)
           ELSE UNCHANGED <<flash, count>>
  /\ UNCHANGED <<running, mdns, drawn, world>>

hap_database_init ==
  \/ GetIdentity \/ SaveKey("ska", "ltska", "pka") \/ SaveKey("pka", "ltpka", "ctrl")
  \/ GetControllers \/ Restore("config", "config_num", 1, "aid")
  \/ Restore("aid", "cur_aid", 1, "state") \/ InitStateNumber
  \/ Restore("setting", "setting", 1, "linked")

-----------------------------------------------------------------------------
(* hap_start(), called once by the first beginAccessory() *)

Step(step, next) == pc = step /\ pc' = next

\* Slip: the new revision is saved before the number is incremented.
CheckFirmware_SaveFirst ==
  /\ \/ /\ Step("fw", "fwsave") /\ flash["fw_rev"] # fw /\ hap_keystore_set("fw_rev", fw) /\ UNCHANGED priv
     \/ /\ Step("fwsave", "httpd")
        /\ priv' = [priv EXCEPT !["config_num"] = Following(@, CfgMax)]
        /\ hap_keystore_set("config_num", priv'["config_num"])
  /\ UNCHANGED <<running, mdns, drawn, world>>

\* hap_check_fw_version(): another revision than the one stored means another
\* configuration number.
CheckFirmware ==
  /\ \/ /\ Step("fw", "fwsave") /\ flash["fw_rev"] \notin {0, fw}
        /\ priv' = [priv EXCEPT !["config_num"] = Following(@, CfgMax)]
        /\ hap_keystore_set("config_num", priv'["config_num"])
     \/ /\ Step("fw", "fwsave") /\ flash["fw_rev"] = 0
        /\ UNCHANGED <<priv, flash, count>>
     \/ /\ Step("fwsave", "httpd") /\ hap_keystore_set("fw_rev", fw) /\ UNCHANGED priv
  /\ UNCHANGED <<running, mdns, drawn, world>>

SameFirmware ==
  /\ Step("fw", "httpd") /\ flash["fw_rev"] = fw
  /\ UNCHANGED <<flash, priv, running, mdns, drawn, world, count>>

\* A step that fails ends the start: beginAccessory() does not try again.  The
\* last one announces: it adds the service.
HapStart ==
  \/ /\ \/ Step("linked", "fw")  \* the link round is over; setup id and code are there
        \/ Step("httpd", "loop")
        \/ Step("mdns", "services")
     /\ UNCHANGED <<running, mdns, dropped, count>>
  \/ /\ Step("loop", "mdns") /\ loop' = "started"
     /\ UNCHANGED <<queue, reset, mdns, dropped, count>>
  \/ /\ Step("services", "running") /\ first_announce_done' = TRUE
     /\ txt' = [cfg |-> priv["config_num"], paired |-> is_accessory_paired] /\ dropped' = FALSE
     /\ UNCHANGED <<running, announcing, count>>
  \/ /\ pc \in {"linked", "httpd", "mdns", "services"} /\ Once("fails") /\ pc' = "failed"
     /\ first_announce_done' = (pc = "services")
     /\ UNCHANGED <<running, txt, announcing, dropped>>

Start ==
  \/ InitKeystore \/ hap_database_init \/ CheckFirmware \/ SameFirmware
  \/ HapStart /\ UNCHANGED <<flash, priv, drawn, fw, known, seen, late, torn>>

-----------------------------------------------------------------------------
(* hap_mdns_announce(), which two tasks call without a lock *)

Announcing(task) == announcing[task].how # "no"

\* Up to the call of mdns: announcing again raises the state number of a paired
\* accessory, and the record is formatted of p, which is hap_priv; changed is
\* what else of p is saved.  The strings are static, the tasks share them.
Format(task, p, changed) ==
  LET again == first_announce_done /\ p["ctrl"] # 0
      saved == IF again THEN changed \cup {"state_num"} ELSE changed
      met   == \E t \in Tasks \ {task} : Announcing(t)
  IN /\ priv' = [p EXCEPT !["state_num"] = IF again THEN Following(@, StateMax) ELSE @]
     /\ \E done \in SUBSET saved :
          /\ flash' = [k \in Keys |-> IF k \in done THEN priv'[k] ELSE flash[k]]
          /\ IF done # saved THEN Once("fails")
             ELSE IF task = "httpd" THEN Once("ops") ELSE UNCHANGED count
     /\ announcing' = [t \in Tasks |->
          IF t = task THEN [how |-> IF met THEN "met" ELSE "alone",
                            cfg |-> p["config_num"], paired |-> p["ctrl"] # 0]
          ELSE IF Announcing(t) THEN [announcing[t] EXCEPT !.how = "met"] ELSE announcing[t]]

\* mdns adds the service, or updates one that is there, or fails; first_announce_done
\* is set in any case.  Where two tasks have met, anything may be in the strings.
hap_mdns_serv(task) ==
  /\ Announcing(task)
  /\ announcing' = [announcing EXCEPT ![task] = Silent] /\ first_announce_done' = TRUE
  /\ \/ /\ announcing[task].how = "alone" /\ (first_announce_done => txt.cfg # 0)
        /\ txt' = [cfg |-> announcing[task].cfg, paired |-> announcing[task].paired]
        /\ dropped' = FALSE /\ UNCHANGED <<torn, count>>
     \/ /\ announcing[task].how = "met" /\ (first_announce_done => txt.cfg # 0)
        /\ txt' \in [cfg : 1..CfgMax, paired : BOOLEAN]
        /\ dropped' = TRUE /\ torn' = TRUE /\ UNCHANGED count
     \/ /\ IF first_announce_done /\ txt.cfg = 0 THEN UNCHANGED count ELSE Once("fails")
        /\ dropped' = TRUE /\ UNCHANGED <<txt, torn>>
  /\ UNCHANGED <<flash, priv, pc, running, drawn, fw, known, seen, late>>

\* hap_mdns_deannounce()
hap_mdns_deannounce ==
  \/ /\ first_announce_done /\ txt.cfg # 0
     /\ txt' = [txt EXCEPT !.cfg = 0] /\ first_announce_done' = FALSE /\ UNCHANGED count
  \/ /\ IF first_announce_done /\ txt.cfg # 0 THEN Once("fails") ELSE UNCHANGED count
     /\ UNCHANGED <<txt, first_announce_done>>

-----------------------------------------------------------------------------
(* hap_loop_task() *)

CreateQueue ==
  /\ loop = "started" /\ loop' = "created"
  /\ UNCHANGED <<flash, priv, pc, queue, reset, mdns, drawn, world, count>>

\* Refused before the loop's task runs and when the queue is full.
hap_send_event(event) ==
  IF loop = "created" /\ Len(queue) < EventQ
  THEN queue' = Append(queue, event) /\ UNCHANGED dropped
  ELSE dropped' = TRUE /\ UNCHANGED queue

Idle == loop = "created" /\ reset = None /\ ~Announcing("loop")
Receive(events) == Idle /\ queue # <<>> /\ Head(queue) \in events /\ queue' = Tail(queue)

\* Slip: the record is formatted before the number is incremented.
hap_nw_configured_sm_AnnounceFirst ==
  /\ Receive({"config", "announce"})
  /\ LET p == [priv EXCEPT !["config_num"] = Following(@, CfgMax)]
     IN IF Head(queue) = "config"
        THEN /\ priv' = p /\ hap_keystore_set("config_num", p["config_num"])
             /\ announcing' = [announcing EXCEPT !["loop"] = [how |-> "alone", cfg |-> priv["config_num"],
                                                              paired |-> is_accessory_paired]]
        ELSE Format("loop", priv, {})
  /\ UNCHANGED <<pc, loop, reset, txt, first_announce_done, drawn, world>>

\* ACC_PAIRED, ACC_UNPAIRED and CONFIG_NUM_UPDATED, up to the call of mdns, whose
\* result is ignored
hap_nw_configured_sm ==
  /\ \/ /\ Receive({"config"})
        /\ Format("loop", [priv EXCEPT !["config_num"] = Following(@, CfgMax)], {"config_num"})
     \/ Receive({"announce"}) /\ Format("loop", priv, {})
  /\ UNCHANGED <<pc, loop, reset, txt, first_announce_done, drawn, world>>

\* Slip: the identity is erased before the controllers that know it.
Erasures_IdentityFirst(kind) ==
  CASE kind = "pairings" -> <<"main", "ctrl">>
    [] kind = "factory"  -> <<"all">>
    [] kind = "homekit"  -> <<"main", "net", "ctrl">>
    [] kind = "network"  -> <<"net">>
    [] kind = "reboot"   -> <<>>

\* What the resets erase, in order.
Erasures(kind) ==
  CASE kind = "pairings" -> <<"ctrl", "main">>
    [] kind = "factory"  -> <<"all">>
    [] kind = "homekit"  -> <<"ctrl", "net", "main">>
    [] kind = "network"  -> <<"net">>
    [] kind = "reboot"   -> <<>>

Erased(what) ==
  CASE what = "ctrl" -> {"ctrl"} [] what = "main" -> Main [] what = "all" -> Keys [] what = "net" -> {}

\* Slip: one of the events has no case.
ResetBegin_NoFactory ==
  /\ Receive(Resets) /\ reset' = IF Head(queue) = "factory" THEN None ELSE Erasures(Head(queue))
  /\ hap_mdns_deannounce
  /\ UNCHANGED <<flash, priv, pc, loop, announcing, drawn, world>>

\* hap_common_sm(): after a second the sessions are closed and the service is
\* taken down, if mdns does it; then the erasing begins.
ResetBegin ==
  /\ Receive(Resets) /\ reset' = Erasures(Head(queue))
  /\ hap_mdns_deannounce
  /\ UNCHANGED <<flash, priv, pc, loop, announcing, drawn, world>>

ResetErase ==
  /\ reset \notin {None, <<>>} /\ reset' = Tail(reset)
  /\ hap_keystore_delete_namespace(Erased(Head(reset)))
  /\ UNCHANGED <<priv, pc, loop, queue, mdns, drawn, world>>

\* esp_restart(), or power comes back; the RAM is lost.
Restarted ==
  /\ pc' = "keystore" /\ priv' = Cleared /\ loop' = "no" /\ queue' = <<>> /\ reset' = None
  /\ txt' = [cfg |-> 0, paired |-> FALSE] /\ first_announce_done' = FALSE
  /\ announcing' = [t \in Tasks |-> Silent] /\ dropped' = FALSE
  /\ UNCHANGED <<flash, drawn, known, seen, late, torn>>

ResetRestart == reset = <<>> /\ Restarted /\ UNCHANGED <<fw, count>>

\* Power is lost; the next start may run another firmware.
Crash == Once("crashes") /\ Restarted /\ fw' \in Versions

-----------------------------------------------------------------------------
(* Controllers and the application *)

Operation == pc = "running" /\ Once("ops")

\* Pair-setup M5; it is answered with the accessory's identity and key.
Pair ==
  /\ Operation /\ ~Announcing("httpd") /\ ~is_accessory_paired
  /\ priv' = [priv EXCEPT !["ctrl"] = 1] /\ flash' = [flash EXCEPT !["ctrl"] = 1]
  /\ known' = [id |-> priv["acc_id"], pk |-> priv["ltpka"]]
  /\ seen' = [cfg |-> priv["config_num"], fw |-> fw]
  /\ hap_send_event("announce") /\ late' = (late \/ reset # None)
  /\ UNCHANGED <<pc, loop, reset, mdns, drawn, fw, torn>>

\* The last controller is removed.
Unpair ==
  /\ Operation /\ ~Announcing("httpd") /\ is_accessory_paired
  /\ priv' = [priv EXCEPT !["ctrl"] = 0] /\ flash' = [flash EXCEPT !["ctrl"] = 0]
  /\ hap_send_event("announce")
  /\ UNCHANGED <<pc, loop, reset, mdns, drawn, fw, known, seen, late, torn>>

\* A paired controller that finds another number reads the database again.
ReadDatabase ==
  /\ txt.cfg # 0 /\ is_accessory_paired /\ seen.cfg # txt.cfg
  /\ seen' = [cfg |-> txt.cfg, fw |-> fw]
  /\ UNCHANGED <<flash, priv, pc, running, mdns, drawn, fw, known, late, torn, dropped, count>>

\* hap_send_notification() of httpd's task announces when no controller that is
\* connected was told; pairing is work of the same task.
Notify ==
  /\ pc = "running" /\ count["ops"] < MaxOps /\ ~Announcing("httpd") /\ Format("httpd", priv, {})
  /\ UNCHANGED <<pc, running, txt, first_announce_done, drawn, world>>

\* hap_update_config_number(), and the five ways to restart.
SendEvent ==
  /\ Operation
  /\ \E e \in Resets \cup {"config"} : hap_send_event(e)
  /\ UNCHANGED <<flash, priv, pc, loop, reset, mdns, drawn, fw, known, seen, late, torn>>

\* setDeviceName(), setMQTTHost(), setEnablePOP()
Configure ==
  /\ Operation /\ priv' = [priv EXCEPT !["setting"] = 3 - @]
  /\ flash' = [flash EXCEPT !["setting"] = priv'["setting"]]
  /\ UNCHANGED <<pc, running, mdns, drawn, world>>

-----------------------------------------------------------------------------
LoopStep ==
  \/ CreateQueue \/ hap_nw_configured_sm \/ hap_mdns_serv("loop")
  \/ ResetBegin \/ ResetErase \/ ResetRestart

Next ==
  \/ Start \/ LoopStep \/ Crash
  \/ Pair \/ Unpair \/ ReadDatabase \/ SendEvent \/ Configure
  \/ Notify \/ hap_mdns_serv("httpd")

Spec == Init /\ [][Next]_vars

\* The starting task and the HomeKit loop are scheduled.
FairSpec == Spec /\ WF_vars(Start) /\ WF_vars(LoopStep)

-----------------------------------------------------------------------------
(* Properties.  The keystore is assumed to work where fails = 0 is required. *)

\* Once the public key is in the keystore it is the one of the secret key, and
\* both belong to the identity, wherever power was lost while they were saved.
KeysOfIdentity ==
  count["fails"] = 0 /\ flash["ltpka"] # 0 =>
    flash["ltska"] = flash["ltpka"] /\ flash["acc_id"] = flash["ltpka"]

\* The keys belong together, and an accessory that thinks it is paired has the
\* identity and the key its controller has paired with, through restarts, an
\* erased partition and resets that lose power half way, unless a controller
\* was saved while a reset was going on.
IdentityKept ==
  /\ TypeOK /\ KeysOfIdentity
  /\ count["fails"] = 0 /\ ~late /\ is_accessory_paired =>
    known = [id |-> priv["acc_id"], pk |-> priv["ltpka"]]

\* A controller that finds the configuration number it remembers has read the
\* services of the firmware that runs, although the two writes after an upgrade
\* may be separated by a loss of power; unless a record was announced that two
\* tasks had formatted at once.
FirmwareNumbered ==
  count["fails"] = 0 /\ ~late /\ ~torn /\ pc = "running" /\ is_accessory_paired
    /\ seen.cfg = priv["config_num"] => seen.fw = fw

\* When the loop has handled its events and no task is announcing, configuration
\* number and pairing are announced as they are, unless since the last announcement
\* that was made alone an event was refused, or an announcement failed or met that
\* of the other task.
AnnouncedIsTrue ==
  pc = "running" /\ Idle /\ queue = <<>> /\ ~Announcing("httpd") /\ ~dropped =>
    txt = [cfg |-> priv["config_num"], paired |-> is_accessory_paired]

\* A reset that was accepted restarts the accessory, whatever is queued before it
\* and whether or not the erasing fails.
ResetRestarts == (\E i \in DOMAIN queue : queue[i] \in Resets) ~> pc = "keystore"
=============================================================================
