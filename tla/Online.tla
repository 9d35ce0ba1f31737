-------------------------------- MODULE Online --------------------------------
(***************************************************************************)
(* The way to the network and back: the Wi-Fi manager (WifiManager.cpp),   *)
(* the clock (CoreBridge.cpp, initTime), the MQTT client (MqttCtrl.cpp)    *)
(* and the factory reset that is asked for over it (MqttCtrl.cpp,          *)
(* CommandHandler.cpp, Warehouse.cpp).                                     *)
(*                                                                         *)
(* Four tasks meet here.  The event loop runs wifimgr_event_handler() for  *)
(* one queued event after the other and may wait for the time in it; the   *)
(* MQTT client's task runs mqtt_event_handler(); the SPI loop starts the   *)
(* Wi-Fi, links modules, publishes what they report and hears the button;  *)
(* clearWarehouseData() runs as tasks of its own.                          *)
(*                                                                         *)
(* The Wi-Fi driver and the MQTT client are external: esp_wifi_connect()   *)
(* is taken by an idle station only, and ends in GOT_IP or DISCONNECTED;   *)
(* the client connects, or tells DISCONNECTED and waits, and a reconnect   *)
(* is taken by a waiting client only.  A connection to the broker may      *)
(* outlive a short loss of the Wi-Fi.  SNTP answers before the trials are  *)
(* used up if it can be reached.  CONNECTED_BIT and WIFI_FAIL_BIT and      *)
(* s_mqttctrl_topic_status are written and never read.                     *)
(***************************************************************************)
EXTENDS Naturals, Sequences

CONSTANTS
  Retries,   \* reconnections before the status is WL_CONNECT_FAILED
  Trials,    \* looks at the SNTP status before a restart
  None,      \* no value
  MaxEvents  \* bound on changes of the network, taps, commands, losses of power

ASSUME OnlineAssumption == Retries \in Nat \ {0} /\ Trials \in Nat /\ MaxEvents \in Nat

VARIABLES
  net,     \* external: what is within reach: "air" (the access point), "ntp", "mqtt"
  sta,     \* external: the station of the Wi-Fi driver
  queue,   \* events for wifimgr_event_handler(); "good" and "bad" are credentials
  saved,   \* the stored credentials: none, right or wrong
  status,  \* s_wifi_status
  retry,   \* s_retry_num
  sc,      \* smarconfig_task(); "acked": it finds ESPTOUCH_DONE_BIT
  wait,    \* the trials of initTime() in a GOT_IP handler, or None
  clock,   \* whether the time is set; it survives esp_restart()
  client,  \* external: the connection of the MQTT client
  call,    \* the event its task is handling
  mqtt,    \* s_mqttctrl_status
  tasks,   \* instances of onlinePeriodicTask(): none, one, or 2 for several
  pin,     \* WIFI_STATE_PIN of the SAMD21
  ready,   \* system_status.module_initialized
  factory, \* system_status.reset2factorying
  chain,   \* external: "asked" to link again, in a "round", or at "rest"
  erasing, ending, \* clearWarehouseData() tasks before and after the erasing
  owed,    \* history: a factory reset was asked for and nothing was erased since
  events   \* the counter behind MaxEvents

wifi  == <<sta, queue, saved, status, retry, sc, wait, clock, tasks>>
mq    == <<client, call, mqtt>>
reset == <<ready, factory, chain, erasing, ending, owed>>
vars  == <<net, wifi, mq, pin, reset, events>>

Min2(n) == IF n > 2 THEN 2 ELSE n

TypeOK ==
  /\ net \subseteq {"air", "ntp", "mqtt"}
  /\ sta \in {"off", "idle", "connecting", "connected"}
  /\ queue \in Seq({"start", "disc", "ip", "good", "bad", "ack"})
  /\ saved \in {None, "good", "bad"}
  /\ status \in {None, "idle", "scan", "got_ssid", "connected", "connect_failed", "disconnected"}
  /\ retry \in 0..Retries /\ sc \in {None, "start", "wait", "acked"}
  /\ wait \in 0..Trials \cup {None} /\ clock \in BOOLEAN
  /\ client \in {"init", "connecting", "up", "asked", "subscribed", "wait"}
  /\ call \in {None, "connected", "disconnected", "subscribed"}
  /\ mqtt \in {"idle", "connected", "disconnected"}
  /\ tasks \in 0..2 /\ pin \in {0, 1} /\ ready \in BOOLEAN /\ factory \in BOOLEAN
  /\ chain \in {"rest", "asked", "round"} /\ erasing \in Nat /\ ending \in Nat
  /\ owed \in {"no", "yes", "void"} /\ events \in 0..MaxEvents

Init ==
  /\ net = {"air", "ntp", "mqtt"}
  /\ sta = "off" /\ queue = <<>> /\ saved \in {None, "good"}
  /\ status = None /\ retry = 0 /\ sc = None /\ wait = None /\ clock = FALSE
  /\ client = "init" /\ call = None /\ mqtt = "idle"
  /\ tasks = 0 /\ pin = 0
  /\ ready = FALSE /\ factory = FALSE /\ chain = "rest"
  /\ erasing = 0 /\ ending = 0 /\ owed = "no" /\ events = 0

Event == events < MaxEvents /\ events' = events + 1

\* A restart loses all of the RAM, and with it a reset that was asked for.
Restart ==
  /\ sta' = "off" /\ queue' = <<>> /\ status' = None /\ retry' = 0 /\ sc' = None
  /\ wait' = None /\ client' = "init" /\ call' = None /\ mqtt' = "idle" /\ tasks' = 0
  /\ ready' = FALSE /\ factory' = FALSE /\ chain' = "rest" /\ erasing' = 0 /\ ending' = 0
  /\ owed' = IF owed = "yes" THEN "void" ELSE owed

-----------------------------------------------------------------------------
(* The Wi-Fi manager *)

Handle(e) == wait = None /\ queue # <<>> /\ Head(queue) = e /\ queue' = Tail(queue)
Post(e) == queue' = Append(queue, e)

esp_wifi_connect == sta' = IF sta = "idle" THEN "connecting" ELSE sta

\* The SAMD21 announces itself: WifiMgr.begin(), and the modules are loaded.
begin ==
  /\ sta = "off" /\ sta' = "idle" /\ Post("start") /\ status' = "idle" /\ chain' = "asked"
  /\ UNCHANGED <<net, saved, retry, sc, wait, clock, tasks, mq, pin, ready, factory, erasing,
                 ending, owed, events>>

\* STA_START: the stored network, or smartconfig if there is none.
StaStart ==
  /\ Handle("start")
  /\ IF saved # None THEN esp_wifi_connect /\ UNCHANGED sc ELSE sc' = "start" /\ UNCHANGED sta
  /\ UNCHANGED <<net, saved, status, retry, wait, clock, tasks, mq, pin, reset, events>>

\* Slip: only the retries connect again.
StaDisconnected_Retries ==
  /\ Handle("disc")
  /\ pin' = 0
  /\ IF retry < Retries
     THEN retry' = retry + 1 /\ status' = "disconnected" /\ esp_wifi_connect
     ELSE status' = "connect_failed" /\ UNCHANGED <<retry, sta>>
  /\ UNCHANGED <<net, saved, sc, wait, clock, tasks, mq, reset, events>>

\* Slip: the pin is left to the MQTT client.
StaDisconnected_NoPin ==
  /\ Handle("disc")
  /\ esp_wifi_connect
  /\ IF retry < Retries
     THEN retry' = retry + 1 /\ status' = "disconnected"
     ELSE status' = "connect_failed" /\ UNCHANGED retry
  /\ UNCHANGED <<net, saved, sc, wait, clock, tasks, mq, pin, reset, events>>

\* STA_DISCONNECTED.  The second esp_wifi_connect() of a retry meets a station
\* that is connecting.
StaDisconnected ==
  /\ Handle("disc")
  /\ pin' = 0 /\ esp_wifi_connect
  /\ IF retry < Retries
     THEN retry' = retry + 1 /\ status' = "disconnected"
     ELSE status' = "connect_failed" /\ UNCHANGED retry
  /\ UNCHANGED <<net, saved, sc, wait, clock, tasks, mq, reset, events>>

\* STA_GOT_IP up to the first look at the SNTP status; the event is still being
\* handled.
GotIp ==
  /\ wait = None /\ queue # <<>> /\ Head(queue) = "ip"
  /\ retry' = 0 /\ status' = "connected" /\ wait' = 0
  /\ UNCHANGED <<net, sta, queue, saved, sc, clock, tasks, mq, pin, reset, events>>

TimeKnown == clock \/ (sta = "connected" /\ "ntp" \in net)

\* initTime(): another trial, or a restart after the last one.
WaitForTime ==
  /\ wait # None /\ ~TimeKnown
  /\ IF wait = Trials
     THEN Restart
     ELSE wait' = wait + 1
          /\ UNCHANGED <<sta, queue, status, retry, sc, tasks, mq, reset>>
  /\ UNCHANGED <<net, saved, clock, pin, events>>

\* esp_mqtt_client_reconnect(), and modulesUpdate() and its sisters, which call
\* it when they cannot publish.
reconnect == client' = IF client = "wait" THEN "connecting" ELSE client
Publish == IF status = "connected" /\ mqtt # "connected" THEN reconnect ELSE UNCHANGED client

\* The rest of GOT_IP, with the time set: MQTT and the periodic task.
GoOnline ==
  /\ wait # None /\ TimeKnown
  /\ clock' = TRUE /\ wait' = None /\ queue' = Tail(queue)
  /\ IF mqtt = "idle"
     THEN client' = IF client = "init" THEN "connecting" ELSE client
     ELSE reconnect
  /\ tasks' = Min2(tasks + 1)
  /\ UNCHANGED <<net, sta, saved, status, retry, sc, call, mqtt, pin, reset, events>>

\* smarconfig_task()
StartScan ==
  /\ sc = "start" /\ sc' = "wait" /\ status' = "scan"
  /\ UNCHANGED <<net, sta, queue, saved, retry, wait, clock, tasks, mq, pin, reset, events>>
StopScan ==
  /\ sc = "acked" /\ sc' = None
  /\ UNCHANGED <<net, sta, queue, saved, status, retry, wait, clock, tasks, mq, pin, reset, events>>

\* SC_GOT_SSID_PSWD: WifiMgr.connect() stores the credentials.
GotSsid ==
  /\ \E c \in {"good", "bad"} : Handle(c) /\ saved' = c
  /\ status' = "got_ssid" /\ esp_wifi_connect
  /\ UNCHANGED <<net, retry, sc, wait, clock, tasks, mq, pin, reset, events>>

\* SC_SEND_ACK_DONE
AckDone ==
  /\ Handle("ack") /\ sc' = "acked"
  /\ UNCHANGED <<net, sta, saved, status, retry, wait, clock, tasks, mq, pin, reset, events>>

\* The button forgets the network, but only after it could not be joined.
Tap ==
  /\ Event /\ status = "connect_failed"
  /\ saved' = None /\ Restart
  /\ UNCHANGED <<net, clock, pin>>

-----------------------------------------------------------------------------
(* The Wi-Fi driver and the user's telephone *)

Join ==
  /\ sta = "connecting" /\ "air" \in net /\ saved = "good"
  /\ sta' = "connected" /\ Post("ip")
  /\ UNCHANGED <<net, saved, status, retry, sc, wait, clock, tasks, mq, pin, reset, events>>

Leave ==
  /\ sta \in {"connecting", "connected"}
  /\ "air" \notin net \/ (sta = "connecting" /\ saved = "bad")
  /\ sta' = "idle" /\ Post("disc")
  /\ UNCHANGED <<net, saved, status, retry, sc, wait, clock, tasks, mq, pin, reset, events>>

\* Credentials are sent once to a smartconfig task, which acknowledges them
\* when they gave it an address.
SendCredentials ==
  /\ sc = "wait" /\ saved = None /\ queue = <<>>
  /\ \E c \in {"good", "bad"} : Post(c)
  /\ UNCHANGED <<net, sta, saved, status, retry, sc, wait, clock, tasks, mq, pin, reset, events>>
SendAck ==
  /\ sc = "wait" /\ sta = "connected" /\ "ack" \notin {queue[i] : i \in DOMAIN queue}
  /\ Post("ack")
  /\ UNCHANGED <<net, sta, saved, status, retry, sc, wait, clock, tasks, mq, pin, reset, events>>

-----------------------------------------------------------------------------
(* MQTT *)

Reach == sta = "connected" /\ "mqtt" \in net

\* The client's side.
Connack ==
  /\ client = "connecting" /\ call = None /\ Reach
  /\ client' = "up" /\ call' = "connected"
  /\ UNCHANGED <<net, wifi, mqtt, pin, reset, events>>
Suback ==
  /\ client = "asked" /\ call = None /\ Reach
  /\ client' = "subscribed" /\ call' = "subscribed"
  /\ UNCHANGED <<net, wifi, mqtt, pin, reset, events>>
Abort ==
  /\ client \notin {"init", "wait"} /\ call = None /\ ~Reach
  /\ client' = "wait" /\ call' = "disconnected"
  /\ UNCHANGED <<net, wifi, mqtt, pin, reset, events>>

\* mqtt_event_handler()
MqttConnected ==
  /\ call = "connected" /\ call' = None
  /\ client' = "asked" /\ mqtt' = "connected"
  /\ UNCHANGED <<net, wifi, pin, reset, events>>
MqttSubscribed ==
  /\ call = "subscribed" /\ call' = None
  /\ pin' = 1
  /\ UNCHANGED <<net, wifi, client, mqtt, reset, events>>
MqttDisconnected ==
  /\ call = "disconnected" /\ call' = None
  /\ mqtt' = "disconnected" /\ reconnect
  /\ UNCHANGED <<net, wifi, pin, reset, events>>

\* The SPI loop or the live check publishes what the modules report.
Update ==
  /\ client = "wait" /\ status = "connected" /\ mqtt # "connected"
  /\ reconnect
  /\ UNCHANGED <<net, wifi, call, mqtt, pin, reset, events>>

-----------------------------------------------------------------------------
(* The factory reset *)

\* MQTT_CONFIG_RESET_TO_FACTORY: linked modules are reset first.
ResetToFactory ==
  /\ client = "subscribed" /\ call = None /\ Reach /\ Event
  /\ factory' = TRUE
  /\ IF ready THEN chain' = "asked" /\ UNCHANGED erasing ELSE erasing' = erasing + 1 /\ UNCHANGED chain
  /\ owed' = IF factory \/ erasing + ending > 0 THEN "void" ELSE "yes"
  /\ UNCHANGED <<net, wifi, mq, pin, ready, ending>>

\* A round of link messages, because it was asked for or by itself.
LinkFirst ==
  /\ chain \in {"asked", "rest"} /\ sta # "off"
  /\ IF chain = "asked" THEN UNCHANGED events ELSE Event
  /\ chain' = "round" /\ ready' = FALSE
  /\ UNCHANGED <<net, wifi, mq, pin, factory, erasing, ending, owed>>

\* Slip: the flag is not looked at when the modules are linked again.
LinkLast_NoFlag ==
  /\ chain = "round" /\ chain' = "rest" /\ ready' = TRUE
  /\ Publish
  /\ UNCHANGED <<net, wifi, call, mqtt, pin, factory, erasing, ending, owed, events>>

\* The last link message goes on with a reset.
LinkLast ==
  /\ chain = "round" /\ chain' = "rest" /\ ready' = TRUE
  /\ erasing' = IF factory THEN erasing + 1 ELSE erasing
  /\ Publish
  /\ UNCHANGED <<net, wifi, call, mqtt, pin, factory, ending, owed, events>>

\* clearWarehouseData(): the records, then what is published, then the flag.
Erase ==
  /\ erasing > 0 /\ erasing' = erasing - 1 /\ ending' = ending + 1
  /\ owed' = "no"
  /\ UNCHANGED <<net, wifi, mq, pin, ready, factory, chain, events>>
EndErasing ==
  /\ ending > 0 /\ ending' = ending - 1
  /\ Publish /\ factory' = FALSE
  /\ UNCHANGED <<net, wifi, call, mqtt, pin, ready, chain, erasing, owed, events>>

-----------------------------------------------------------------------------
(* The world *)

NetChanges ==
  /\ Event
  /\ \E x \in {"air", "ntp", "mqtt"} : net' = IF x \in net THEN net \ {x} ELSE net \cup {x}
  /\ UNCHANGED <<wifi, mq, pin, reset>>

PowerLost ==
  /\ sta # "off" /\ Event
  /\ Restart /\ clock' = FALSE /\ pin' = 0
  /\ UNCHANGED <<net, saved>>

-----------------------------------------------------------------------------
EventTask == StaStart \/ StaDisconnected \/ GotIp \/ WaitForTime \/ GoOnline \/ GotSsid \/ AckDone
MqttTask == Connack \/ Suback \/ Abort \/ MqttConnected \/ MqttSubscribed \/ MqttDisconnected
Driver == Join \/ Leave

Next ==
  \/ begin \/ EventTask \/ StartScan \/ StopScan \/ Tap
  \/ Driver \/ SendCredentials \/ SendAck
  \/ MqttTask \/ Update
  \/ ResetToFactory \/ LinkFirst \/ LinkLast \/ Erase \/ EndErasing
  \/ NetChanges \/ PowerLost

Spec == Init /\ [][Next]_vars

\* The SAMD21 announces itself after every restart, all tasks are scheduled, the
\* driver ends what it begins, and modules that were asked to link do.
FairSpec ==
  /\ Spec /\ WF_vars(begin) /\ WF_vars(EventTask) /\ WF_vars(MqttTask) /\ WF_vars(Driver)
  /\ WF_vars(chain = "asked" /\ LinkFirst) /\ WF_vars(LinkLast) /\ WF_vars(Erase) /\ WF_vars(EndErasing)

-----------------------------------------------------------------------------
(* Properties *)

\* However often network, time server and broker were lost, once they stay the
\* accessory is connected and subscribed again and logs its currents: neither
\* the end of the retries nor an event handled late leaves it off line.
Reconnects ==
  <>[](net = {"air", "ntp", "mqtt"} /\ saved = "good")
    => <>[](status = "connected" /\ mqtt = "connected" /\ client = "subscribed" /\ tasks > 0)

\* A lamp that shows a connection goes out when the network stays away, although
\* the MQTT client may light it after the Wi-Fi manager put it out.
PinSettles == <>[]("air" \notin net /\ saved # None) => <>[](pin = 0)

\* So both ways the accessory follows the network.
FollowsNetwork == [](TypeOK) /\ Reconnects /\ PinSettles

\* A factory reset that was asked for erases the records, across the reset of
\* the modules and the rounds of links it causes; unless a restart loses the
\* flag, or it was asked for while a reset was ending.
ResetDone == owed = "yes" ~> owed # "yes"
=============================================================================
