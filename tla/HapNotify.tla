------------------------------ MODULE HapNotify ------------------------------
(***************************************************************************)
(* Characteristics, the controllers subscribed to them, and the events     *)
(* that tell a controller of a change (esp_hap_char.c and the              *)
(* /characteristics and /accessories handlers of esp_hap_ip_services.c).   *)
(*                                                                         *)
(* Three tasks meet here.  The SPI loop reports what a module's switch has *)
(* become, hap_char_update_val() in four steps.  The HomeKit loop turns    *)
(* each trigger into work for the HTTP server.  The HTTP server handles    *)
(* one request or one piece of work at a time; a request that cannot       *)
(* notice the other tasks is one action, GET and the sending of events are *)
(* several.  The message to the modules that a write puts in the UART      *)
(* queue belongs to UartQueue; the modules are external and may report any *)
(* state at any time.                                                      *)
(*                                                                         *)
(* Subscriptions and the owner mark name a slot of the session table, not  *)
(* a connection.  A connection that found no slot has index -1, whose bit  *)
(* is outside the two 16-bit masks: that is slot 0 here.                   *)
(***************************************************************************)
EXTENDS Integers, FiniteSets, SequencesExt

CONSTANTS
  Conns,      \* pair-verified connections
  Chars,      \* the On characteristics
  None,       \* no connection, no characteristic
  NumSlots,   \* HAP_MAX_SESSIONS: 8
  MaxNotif,   \* HAP_MAX_NOTIF_CHARS: 8
  LoopLen,    \* length of the HomeKit loop's queue: 10
  MaxReports, \* bound on reports of the modules
  MaxRequests \* bound on requests of the controllers

ASSUME HapNotifyAssumption ==
  /\ None \notin Conns \cup Chars /\ IsFiniteSet(Conns) /\ IsFiniteSet(Chars)
  /\ NumSlots \in Nat \ {0} /\ MaxNotif \in Nat \ {0} /\ LoopLen \in Nat \ {0}
  /\ MaxReports \in Nat /\ MaxRequests \in Nat

VARIABLES
  live,      \* the open connections
  slot,      \* hap_priv.sessions
  val,       \* value of each characteristic
  ev,        \* ev_ctrls
  owner,     \* owner_ctrl, of which one bit is ever set
  called,    \* update_called
  pending,   \* hap_event_queue
  triggers,  \* TRIGGER_NOTIF events in the loop's queue
  works,     \* hap_send_notification() calls the HTTP server has yet to make
  announced, \* disconnected_event_sent
  upd,       \* the hap_char_update_val() in progress
  http,      \* what the HTTP server is doing
  reports, requests, \* counters
  subs,      \* history: what each connection subscribed to
  owed,      \* history: changes a subscribed connection has not seen
  lost,      \* history: changes that were not queued
  earned,    \* history: characteristics whose next event may be withheld
  bumps      \* history: state numbers announced since a session was added

table == <<live, slot>>
chars == <<val, ev, owner, called>>
queues == <<pending, triggers, works>>
hist == <<subs, owed, lost, earned, bumps>>
vars == <<table, chars, queues, announced, upd, http, reports, requests, hist>>

Slots == 1..NumSlots
Idle == [op |-> "idle"]
Free == http = Idle

\* hap_get_ctrl_session_index(); 0 for -1
Index(s) == IF \E i \in Slots : slot[i] = s THEN CHOOSE i \in Slots : slot[i] = s ELSE 0

Https ==
  {Idle}
    \cup [op : {"get"}, conn : Conns, todo : SUBSET Chars, cur : Chars \cup {None}]
    \cup [op : {"notify"}, arr : BoundedSeq(Chars, MaxNotif), turn : 1..(NumSlots + 1), met : BOOLEAN]

TypeOK ==
  /\ live \subseteq Conns
  /\ slot \in [Slots -> live \cup {None}]
  /\ val \in [Chars -> BOOLEAN] /\ called \in [Chars -> BOOLEAN]
  /\ ev \in [Chars -> SUBSET Slots] /\ owner \in [Chars -> 0..NumSlots]
  /\ pending \in BoundedSeq(Chars, MaxNotif)
  /\ triggers \in 0..LoopLen /\ works \in 0..MaxReports
  /\ announced \in BOOLEAN
  /\ upd \in {Idle} \cup [op : {"compare", "queue", "trigger"}, char : Chars, new : BOOLEAN]
  /\ http \in Https
  /\ reports \in 0..MaxReports /\ requests \in 0..MaxRequests
  /\ subs \in [Conns -> SUBSET Chars] /\ owed \in [Conns -> SUBSET Chars]
  /\ lost \subseteq Chars /\ earned \subseteq Chars /\ bumps \in Nat

\* All switches are off: nothing below tells on from off.
Init ==
  /\ live = {} /\ slot = [i \in Slots |-> None]
  /\ val = [c \in Chars |-> FALSE] /\ ev = [c \in Chars |-> {}]
  /\ owner = [c \in Chars |-> 0] /\ called = [c \in Chars |-> FALSE]
  /\ pending = <<>> /\ triggers = 0 /\ works = 0 /\ announced = FALSE
  /\ upd = Idle /\ http = Idle /\ reports = 0 /\ requests = 0
  /\ subs = [s \in Conns |-> {}] /\ owed = [s \in Conns |-> {}]
  /\ lost = {} /\ earned = {} /\ bumps = 0

-----------------------------------------------------------------------------
(* The SPI loop: hap_char_update_val() *)

Report(c, v) ==
  /\ upd = Idle /\ reports < MaxReports
  /\ upd' = [op |-> "compare", char |-> c, new |-> v]
  /\ called' = [called EXCEPT ![c] = TRUE]
  /\ reports' = reports + 1
  /\ earned' = IF http.op = "get" /\ c \in http.todo THEN earned \cup {c} ELSE earned
  /\ UNCHANGED <<table, val, ev, owner, queues, announced, http, requests, subs, owed, lost, bumps>>

Changed ==
  LET c == upd.char IN
  /\ upd.op = "compare" /\ val[c] # upd.new
  /\ val' = [val EXCEPT ![c] = upd.new]
  /\ upd' = [upd EXCEPT !.op = "queue"]
  /\ owed' = [s \in Conns |-> IF Index(s) # 0 /\ c \in subs[s] THEN owed[s] \cup {c} ELSE owed[s]]
  /\ UNCHANGED <<table, ev, owner, called, queues, announced, http, reports, requests, subs, lost, earned, bumps>>

\* Nothing to tell: the owner mark goes at once.
Same ==
  LET c == upd.char IN
  /\ upd.op = "compare" /\ val[c] = upd.new
  /\ owner' = [owner EXCEPT ![c] = 0]
  /\ upd' = Idle
  /\ earned' = earned \ {c}
  /\ UNCHANGED <<table, val, ev, called, queues, announced, http, reports, requests, subs, owed, lost, bumps>>

\* hap_queue_event(): a full queue refuses, and the caller does not look.
\* Nothing is lost by it if the characteristic is already in the queue.
Queue ==
  LET c == upd.char IN
  /\ upd.op = "queue"
  /\ \/ /\ Len(pending) < MaxNotif
        /\ pending' = Append(pending, c) /\ upd' = [upd EXCEPT !.op = "trigger"]
        /\ UNCHANGED lost
     \/ /\ Len(pending) = MaxNotif
        /\ upd' = Idle
        /\ lost' = IF c \in Range(pending) THEN lost ELSE lost \cup {c}
        /\ UNCHANGED pending
  /\ UNCHANGED <<table, chars, triggers, works, announced, http, reports, requests, subs, owed, earned, bumps>>

\* hap_send_event(): dropped when the loop's queue is full
Trigger ==
  /\ upd.op = "trigger" /\ upd' = Idle
  /\ triggers' = IF triggers < LoopLen THEN triggers + 1 ELSE triggers
  /\ UNCHANGED <<table, chars, pending, works, announced, http, reports, requests, hist>>

Update == Changed \/ Same \/ Queue \/ Trigger

\* The HomeKit loop: hap_common_sm(), hap_http_send_notif()
Forward ==
  /\ triggers > 0 /\ triggers' = triggers - 1 /\ works' = works + 1
  /\ UNCHANGED <<table, chars, pending, announced, upd, http, reports, requests, hist>>

-----------------------------------------------------------------------------
(* The HTTP server: connections *)

Request == Free /\ requests < MaxRequests /\ requests' = requests + 1

\* The end of pair-verify: hap_add_secure_session()
Verify(s) ==
  /\ Request /\ s \notin live /\ live' = live \cup {s}
  /\ IF \E i \in Slots : slot[i] = None
     THEN LET i == CHOOSE i \in Slots : slot[i] = None /\ \A j \in 1..(i - 1) : slot[j] # None IN
          slot' = [slot EXCEPT ![i] = s] /\ announced' = FALSE /\ bumps' = 0
     ELSE UNCHANGED <<slot, announced, bumps>>
  /\ UNCHANGED <<chars, queues, upd, http, reports, subs, owed, lost, earned>>

\* Slip: the subscriptions are left in the slot.
Close_KeepEv(s) ==
  /\ Free /\ s \in live /\ live' = live \ {s}
  /\ slot' = [i \in Slots |-> IF slot[i] = s THEN None ELSE slot[i]]
  /\ subs' = [subs EXCEPT ![s] = {}] /\ owed' = [owed EXCEPT ![s] = {}]
  /\ UNCHANGED <<chars, queues, announced, upd, http, reports, requests, lost, earned, bumps>>

\* hap_free_session(), hap_disable_all_char_notif(): the owner mark stays.
Close(s) ==
  /\ Free /\ s \in live /\ live' = live \ {s}
  /\ slot' = [i \in Slots |-> IF slot[i] = s THEN None ELSE slot[i]]
  /\ ev' = [c \in Chars |-> ev[c] \ {Index(s)}]
  /\ subs' = [subs EXCEPT ![s] = {}] /\ owed' = [owed EXCEPT ![s] = {}]
  /\ UNCHANGED <<val, owner, called, queues, announced, upd, http, reports, requests, lost, earned, bumps>>

-----------------------------------------------------------------------------
(* The HTTP server: PUT /characteristics.  A PUT that is refused, as a timed *)
(* write without its prepare is, changes nothing here.                       *)

\* "ev" entries; a PUT with entries of both kinds is two here.
PutEvents(s, cs, on) ==
  /\ Request /\ s \in live
  /\ LET i == Index(s) IN
     ev' = [c \in Chars |-> IF c \notin cs THEN ev[c]
                            ELSE IF on THEN ev[c] \cup ({i} \ {0}) ELSE ev[c] \ {i}]
  /\ subs' = [subs EXCEPT ![s] = IF on THEN @ \cup cs ELSE @ \ cs]
  /\ owed' = [owed EXCEPT ![s] = IF on THEN @ ELSE @ \ cs]
  /\ UNCHANGED <<table, val, owner, called, queues, announced, upd, http, reports, lost, earned, bumps>>

\* "value" entries: the writer becomes the owner, the value waits for the module.
PutValues(s, cs) ==
  /\ Request /\ s \in live
  /\ owner' = [c \in Chars |-> IF c \in cs THEN Index(s) ELSE owner[c]]
  /\ earned' = earned \cup cs
  /\ UNCHANGED <<table, val, ev, called, queues, announced, upd, http, reports, subs, owed, lost, bumps>>

-----------------------------------------------------------------------------
(* The HTTP server: GET /characteristics *)

GetBegin(s, cs) ==
  /\ Request /\ s \in live
  /\ owner' = [c \in Chars |-> IF c \in cs THEN Index(s) ELSE owner[c]]
  /\ called' = [c \in Chars |-> called[c] /\ c \notin cs]
  /\ http' = [op |-> "get", conn |-> s, todo |-> cs, cur |-> None]
  /\ UNCHANGED <<table, val, ev, queues, announced, upd, reports, hist>>

\* GET /accessories marks and answers one service at a time: a GET for each.
GetService(s) == \E c \in Chars : GetBegin(s, {c})

\* Slip: the mark of the reader is not taken away.
GetCheck_Keep(c) ==
  /\ http.op = "get" /\ http.cur = None /\ c \in http.todo
  /\ called' = [called EXCEPT ![c] = FALSE]
  /\ http' = [http EXCEPT !.cur = c, !.todo = @ \ {c}]
  /\ earned' = IF called[c] THEN earned ELSE earned \ {c}
  /\ UNCHANGED <<table, val, ev, owner, queues, announced, upd, reports, requests, subs, owed, lost, bumps>>

\* The reader stays the owner if an update came in between.
GetCheck(c) ==
  /\ http.op = "get" /\ http.cur = None /\ c \in http.todo
  /\ owner' = IF called[c] THEN owner ELSE [owner EXCEPT ![c] = 0]
  /\ called' = [called EXCEPT ![c] = FALSE]
  /\ http' = [http EXCEPT !.cur = c, !.todo = @ \ {c}]
  /\ earned' = IF called[c] THEN earned ELSE earned \ {c}
  /\ UNCHANGED <<table, val, ev, queues, announced, upd, reports, requests, subs, owed, lost, bumps>>

\* The value goes into the answer.
GetRead ==
  /\ http.op = "get" /\ http.cur # None
  /\ owed' = [owed EXCEPT ![http.conn] = @ \ {http.cur}]
  /\ http' = IF http.todo = {} THEN Idle ELSE [http EXCEPT !.cur = None]
  /\ UNCHANGED <<table, chars, queues, announced, upd, reports, requests, subs, lost, earned, bumps>>

-----------------------------------------------------------------------------
(* The HTTP server: hap_send_notification() *)

\* Slip: one characteristic is taken per call.
NotifyBegin_One ==
  /\ Free /\ works > 0 /\ works' = works - 1
  /\ IF pending = <<>> THEN UNCHANGED <<http, pending, lost>>
     ELSE /\ http' = [op |-> "notify", arr |-> <<Head(pending)>>, turn |-> 1, met |-> FALSE]
          /\ pending' = Tail(pending)
          /\ lost' = lost \ {Head(pending)}
  /\ UNCHANGED <<table, chars, triggers, announced, upd, reports, requests, subs, owed, earned, bumps>>

NotifyBegin ==
  /\ Free /\ works > 0 /\ works' = works - 1
  /\ IF pending = <<>> THEN UNCHANGED <<http, pending, lost>>
     ELSE /\ http' = [op |-> "notify", arr |-> pending, turn |-> 1, met |-> FALSE]
          /\ pending' = <<>>
          /\ lost' = lost \ Range(pending)
  /\ UNCHANGED <<table, chars, triggers, announced, upd, reports, requests, subs, owed, earned, bumps>>

\* The characteristics of arr that slot i owns, and those it is sent.  An owner
\* is passed over once: a characteristic that is in arr twice reaches it.
Skipped(i) == {c \in Range(http.arr) : owner[c] = i}
Told(i) ==
  {c \in Range(http.arr) :
     i \in ev[c] /\ (owner[c] # i \/ \E j, k \in DOMAIN http.arr :
                                       j # k /\ http.arr[j] = c /\ http.arr[k] = c)}

\* Slip: the loop ends with the first session that has nothing to be sent.
NotifySlot_Break ==
  LET i == http.turn  s == slot[i] IN
  /\ http.op = "notify" /\ i \in Slots
  /\ IF s = None
     THEN http' = [http EXCEPT !.turn = i + 1] /\ UNCHANGED <<owner, owed, earned>>
     ELSE /\ http' = [http EXCEPT !.turn = IF Told(i) = {} THEN NumSlots + 1 ELSE i + 1, !.met = TRUE]
          /\ owner' = [c \in Chars |-> IF c \in Skipped(i) THEN 0 ELSE owner[c]]
          /\ owed' = [owed EXCEPT ![s] = @ \ (Told(i) \cup Skipped(i))]
          /\ earned' = earned \ Skipped(i)
  /\ UNCHANGED <<table, val, ev, called, queues, announced, upd, reports, requests, subs, lost, bumps>>

\* One turn of the loop over the session table.
NotifySlot ==
  LET i == http.turn  s == slot[i] IN
  /\ http.op = "notify" /\ i \in Slots
  /\ IF s = None
     THEN http' = [http EXCEPT !.turn = i + 1] /\ UNCHANGED <<owner, owed, earned>>
     ELSE /\ http' = [http EXCEPT !.turn = i + 1, !.met = TRUE]
          /\ owner' = [c \in Chars |-> IF c \in Skipped(i) THEN 0 ELSE owner[c]]
          /\ owed' = [owed EXCEPT ![s] = @ \ (Told(i) \cup Skipped(i))]
          /\ earned' = earned \ Skipped(i)
  /\ UNCHANGED <<table, val, ev, called, queues, announced, upd, reports, requests, subs, lost, bumps>>

\* Slip: disconnected_event_sent is not set.
NotifyEnd_Again ==
  /\ http.op = "notify" /\ http.turn = NumSlots + 1
  /\ http' = Idle
  /\ bumps' = IF ~http.met /\ ~announced THEN bumps + 1 ELSE bumps
  /\ UNCHANGED <<table, chars, queues, announced, upd, reports, requests, subs, owed, lost, earned>>

\* hap_mdns_announce() after the first one: a new state number (the accessory
\* is paired; else only the announcement is repeated).
Announce == bumps' = bumps + 1

\* With nobody connected, the change is announced.
NotifyEnd ==
  /\ http.op = "notify" /\ http.turn = NumSlots + 1
  /\ http' = Idle
  /\ IF ~http.met /\ ~announced
     THEN announced' = TRUE /\ Announce
     ELSE UNCHANGED <<announced, bumps>>
  /\ UNCHANGED <<table, chars, queues, upd, reports, requests, subs, owed, lost, earned>>

-----------------------------------------------------------------------------

CharSets == SUBSET Chars \ {{}}
GetStep == (\E c \in Chars : GetCheck(c)) \/ GetRead
NotifyStep == NotifySlot \/ NotifyEnd
Requests(s) ==
  \/ Verify(s) \/ Close(s) \/ GetService(s)
  \/ \E cs \in CharSets : PutValues(s, cs) \/ GetBegin(s, cs) \/ \E on \in BOOLEAN : PutEvents(s, cs, on)

Next ==
  \/ \E c \in Chars, v \in BOOLEAN : Report(c, v)
  \/ Update \/ Forward
  \/ \E s \in Conns : Requests(s)
  \/ GetStep \/ NotifyBegin \/ NotifyStep

Spec == Init /\ [][Next]_vars

\* Every task runs, and the HTTP server looks at its queue of work in every
\* round, however many connections and requests come.
FairSpec ==
  Spec /\ WF_vars(Update) /\ WF_vars(Forward) /\ WF_vars(GetStep \/ NotifyStep) /\ SF_vars(NotifyBegin)

-----------------------------------------------------------------------------
(* Properties *)

\* A queued characteristic has a wake-up on its way, although hap_send_event()
\* drops one when the loop's queue is full: whoever filled it will drain all.
NoLostWakeup ==
  pending # <<>> => triggers > 0 \/ works > 0 \/ upd.op = "trigger"

\* A change that a subscribed controller has not seen is still on its way to
\* it, or was refused by a full hap_event_queue that did not hold it already:
\* no subscriber is passed over but the owner, and no wake-up is lost.
OnItsWay(s, c) ==
  \/ upd.op = "queue" /\ upd.char = c
  \/ c \in Range(pending)
  \/ http.op = "notify" /\ c \in Range(http.arr) /\ Index(s) >= http.turn
Delivered ==
  NoLostWakeup /\ \A s \in Conns : \A c \in owed[s] : OnItsWay(s, c) \/ c \in lost

\* The bits of ev_ctrls are those that the session now in the slot asked for:
\* a connection never inherits the subscriptions of the one before it.
OwnSubscriptions ==
  \A i \in Slots, c \in Chars : i \in ev[c] <=> slot[i] # None /\ c \in subs[slot[i]]

\* An owner mark outside a GET stands for a write, or for an update during a
\* read, since an event was last withheld: neither withholds two events.
OwnerEarned ==
  \A c \in Chars : owner[c] # 0 /\ ~(http.op = "get" /\ c \in http.todo) => c \in earned

\* What a session table entry carries over from one connection to the next, its
\* subscriptions and its owner marks, never speaks for the wrong connection.
MarksOwned == TypeOK /\ OwnSubscriptions /\ OwnerEarned

\* The state number changes once between the last controller's leaving and the
\* next one's coming, however many characteristics change.
AnnouncedOnce == bumps <= 1

\* Once the modules rest, every subscribed controller has learnt of every
\* change that was not refused.
Informed == <>[](\A s \in Conns : owed[s] \subseteq lost)
=============================================================================
