------------------------------ MODULE ModuleBus ------------------------------
(***************************************************************************)
(* How the HomeKit accessory follows the chain of modules on the bus.      *)
(*                                                                         *)
(* Two tasks rebuild the accessory: the SPI loop, which handles what the   *)
(* SAMD21 forwards from the bus (uartReceive(), CommandHandler.cpp), and   *)
(* moduleLiveCheck() (Perioder.cpp), which takes the modules away when     *)
(* nobody answers HI.  Both run the same sequence of deleteAccessory(),    *)
(* createAccessory(), addModule() and beginAccessory(), without a lock, so *)
(* one action is one of these calls.  The HomeKit loop task increments     *)
(* the configuration number some time after it was asked to.               *)
(*                                                                         *)
(* The chain and its protocol are external, modelled from what the         *)
(* handlers expect: every LOAD is answered by one link message per module, *)
(* the last module first, in which a module gives its address, its name    *)
(* and their number; HI is answered while there is a module; a module that *)
(* is plugged in asks for an address.  A module is told apart by its name. *)
(*                                                                         *)
(* The server task of HomeKit reads the accessory whenever a controller    *)
(* asks it to, a rebuild or not.                                           *)
(*                                                                         *)
(* What two tasks do to the heap in each other's middle is undefined: ub   *)
(* records that a freed or missing accessory was used.  Between its        *)
(* deletion and the publication of the next the core's primary_acc points  *)
(* to a freed accessory; who follows it reads what the allocator left      *)
(* there, and may read it as it was, get an exception or never get to the  *)
(* end of the list.                                                        *)
(***************************************************************************)
EXTENDS Integers, Sequences, FiniteSets

CONSTANTS
  Mods,       \* the modules there are
  Objs,       \* heap blocks an accessory may be put in
  None,       \* no module, no accessory
  EventQ,     \* length of the HomeKit loop's event queue: 10
  MaxPlugs,   \* bound on changes of the chain
  MaxGarbles, \* bound on link messages that do not parse
  MaxBoots,   \* bound on restarts
  MaxLate,    \* bound on answers to HI that come too early or too late
  MaxFaults   \* bound on all of these together

ASSUME ModuleBusAssumption ==
  /\ IsFiniteSet(Mods) /\ Cardinality(Mods) \in 1..254
  /\ IsFiniteSet(Objs) /\ Cardinality(Objs) >= 3
  /\ None \notin Mods \cup Objs
  /\ EventQ \in Nat \ {0}
  /\ MaxPlugs \in Nat /\ MaxGarbles \in Nat /\ MaxBoots \in Nat /\ MaxLate \in Nat
  /\ MaxFaults \in Nat

VARIABLES
  chain,     \* the modules on the bus, by address
  tx,        \* what the SAMD21 will fetch: LOAD and HI
  rx,        \* what it has received from the bus
  mods,      \* CoreBridge.modules[].name
  num,       \* system_status.num_modules, uint8_t
  init,      \* system_status.module_initialized
  connected, \* system_status.module_connected
  acc,       \* the accessory objects and their switch services
  cur,       \* Homekit._accessory
  prim,      \* primary_acc of the HomeKit core
  started,   \* hap_start() was called
  events,    \* CONFIG_NUM_UPDATED events in the loop's queue
  cfg,       \* hap_priv.config_num, which is also in the keystore
  pc,        \* where the two tasks are
  msg,       \* the link message being handled
  removed,   \* moduleLiveCheck: modules_removed
  shown,     \* what a controller read last: number and services, unless it read
             \* them from a rebuild or before the last start
  overlap,   \* history: the two tasks rebuilt the accessory at the same time
  cut,       \* history: a round began before the one before it was over
  stale,     \* history: a rebuild followed primary_acc to a freed accessory
  ub,        \* history: undefined behaviour
  count      \* the counters behind the bounds

bus   == <<chain, tx, rx>>
table == <<mods, num>>
flags == <<init, connected>>
heap  == <<acc, cur, prim, started, events>>
hist  == <<overlap, cut, stale, ub>>
vars  == <<bus, table, flags, heap, cfg, pc, msg, removed, shown, hist, count>>

Tasks   == {"uart", "live"}
MaxMods == Cardinality(Mods)
Names   == Mods \cup {None}
Link    == [type : {"link"}, addr : 1..MaxMods, total : 1..MaxMods, name : Mods]
Signal(t) == [type |-> t, addr |-> 1, total |-> 1, name |-> None]
Messages  == Link \cup {Signal(t) : t \in {"req", "hi", "bad"}}

Chains == {c \in UNION {[1..n -> Mods] : n \in 0..MaxMods} :
             \A i, j \in DOMAIN c : c[i] = c[j] => i = j}
Counters == {"plugs", "garbles", "boots", "late"}
Bound == [plugs |-> MaxPlugs, garbles |-> MaxGarbles, boots |-> MaxBoots, late |-> MaxLate]

Removal == {"del", "zero", "create", "serv", "publish"}
Steps   == Removal \cup {"idle", "add", "ready", "mark", "wait", "reload"}

TypeOK ==
  /\ chain \in Chains
  /\ tx \in Seq({"load", "hi"}) /\ rx \in Seq(Messages)
  /\ mods \in [1..MaxMods -> Names] /\ num \in 0..255
  /\ init \in BOOLEAN /\ connected \in BOOLEAN
  /\ acc \in [Objs -> [live : BOOLEAN, servs : Seq(Names)]]
  /\ cur \in Objs \cup {None} /\ prim \in Objs \cup {None}
  /\ started \in BOOLEAN /\ events \in 0..EventQ
  /\ cfg \in Nat \ {0}
  /\ pc \in [Tasks -> Steps] /\ msg \in Messages
  /\ removed \in BOOLEAN /\ overlap \in BOOLEAN /\ cut \in BOOLEAN
  /\ stale \in BOOLEAN /\ ub \in BOOLEAN
  /\ shown \in [cfg : Nat, servs : Seq(Names), sure : BOOLEAN]
  /\ \A c \in Counters : count[c] \in 0..Bound[c]

\* What hap_get_first_acc() and the services of that accessory offer.
Services == IF prim = None THEN <<>> ELSE acc[prim].servs

-----------------------------------------------------------------------------
\* The RAM after a start.
NoModules == [i \in 1..MaxMods |-> None]
NoObjects == [o \in Objs |-> [live |-> FALSE, servs |-> <<>>]]
AllIdle   == [t \in Tasks |-> "idle"]

\* A controller of whose memory nothing is known: it may read again or never.
Unsure == [cfg |-> 0, servs |-> <<>>, sure |-> FALSE]

\* The SAMD21 has reported its start: LOAD is pushed.
Init ==
  /\ chain \in Chains /\ tx = <<"load">> /\ rx = <<>>
  /\ mods = NoModules /\ num = 0 /\ init = FALSE /\ connected = FALSE
  /\ acc = NoObjects /\ cur = None /\ prim = None /\ started = FALSE /\ events = 0
  /\ pc = AllIdle /\ msg = Signal("hi")
  /\ removed = FALSE /\ overlap = FALSE /\ cut = FALSE /\ stale = FALSE /\ ub = FALSE
  /\ cfg = 1 /\ shown = Unsure
  /\ count = [c \in Counters |-> 0]

Faults == count["plugs"] + count["garbles"] + count["boots"] + count["late"]
Once(c) ==
  /\ count[c] < Bound[c] /\ Faults < MaxFaults
  /\ count' = [count EXCEPT ![c] = @ + 1]
Go(t, step) == pc' = [pc EXCEPT ![t] = step]

-----------------------------------------------------------------------------
(* The bus *)

\* The answer to LOAD: the last module of the chain speaks first.
Round(c) ==
  LET n == Len(c) IN
  [i \in 1..n |-> [type |-> "link", addr |-> n + 1 - i, total |-> n, name |-> c[n + 1 - i]]]

RoundOver == \A i \in DOMAIN rx : rx[i].type # "link"

BusTake ==
  /\ tx # <<>> /\ tx' = Tail(tx)
  /\ \/ /\ Head(tx) = "load" /\ RoundOver
        /\ rx' = rx \o Round(chain) /\ UNCHANGED count
     \/ /\ Head(tx) = "hi" /\ chain = <<>>
        /\ UNCHANGED <<rx, count>>
     \/ /\ Head(tx) = "hi" /\ chain # <<>>
        /\ rx' = Append(rx, Signal("hi"))
        /\ IF pc["live"] = "mark" THEN Once("late") ELSE UNCHANGED count
  /\ UNCHANGED <<chain, table, flags, heap, cfg, pc, msg, removed, shown, hist>>

\* Modules are appended to the chain and ask for addresses.
Plug ==
  /\ Once("plugs")
  /\ \E c \in Chains :
       /\ Len(c) > Len(chain) /\ SubSeq(c, 1, Len(chain)) = chain
       /\ chain' = c
  /\ rx' = Append(rx, Signal("req"))
  /\ UNCHANGED <<tx, table, flags, heap, cfg, pc, msg, removed, shown, hist>>

\* The chain is taken away; what it had not sent yet is lost.
Unplug ==
  /\ chain # <<>> /\ Once("plugs")
  /\ chain' = <<>>
  /\ \E n \in 0..Len(rx) : rx' = SubSeq(rx, 1, n)
  /\ UNCHANGED <<tx, table, flags, heap, cfg, pc, msg, removed, shown, hist>>

\* A link message arrives that is no JSON.
Garble ==
  /\ rx # <<>> /\ Head(rx).type = "link" /\ Once("garbles")
  /\ rx' = <<Signal("bad")>> \o Tail(rx)
  /\ UNCHANGED <<chain, tx, table, flags, heap, cfg, pc, msg, removed, shown, hist>>

-----------------------------------------------------------------------------
(* Rebuilding the accessory: the calls both tasks make *)

\* primary_acc points to an accessory that was deleted.
Dangling == prim # None /\ ~acc[prim].live

\* removeModules() deletes the accessory if the core counts one.  The count starts
\* at primary_acc and is at least one if that is set; the list of a freed one may
\* have no end.  hap_acc_delete() of no accessory does nothing.
DeleteAccessory(t) ==
  /\ pc[t] = "del" /\ Go(t, "zero")
  /\ stale' = (stale \/ Dangling)
  /\ \/ /\ prim = None \/ cur = None
        /\ UNCHANGED <<acc, ub>>
     \/ /\ prim # None /\ cur # None
        /\ acc' = [acc EXCEPT ![cur] = [live |-> FALSE, servs |-> <<>>]]
        /\ \/ ub' = (ub \/ ~acc[cur].live)
           \/ Dangling /\ ub' = TRUE
  /\ UNCHANGED <<bus, table, flags, cur, prim, started, events, cfg, msg, removed, shown,
                 overlap, cut, count>>

\* Slip: moduleLiveCheck() creates no empty accessory.
ZeroModules_NoCreate(t) ==
  /\ pc[t] = "zero" /\ Go(t, IF t = "uart" THEN "create" ELSE "serv")
  /\ num' = 0
  /\ UNCHANGED <<bus, mods, flags, heap, cfg, msg, removed, shown, hist, count>>

ZeroModules(t) ==
  /\ pc[t] = "zero" /\ Go(t, "create")
  /\ num' = 0
  /\ UNCHANGED <<bus, mods, flags, heap, cfg, msg, removed, shown, hist, count>>

\* The allocator may reuse a freed block somebody still points to, or take
\* another one; blocks nobody points to are all alike, leaked ones included.
Blocks ==
  LET others == Objs \ {cur, prim} IN
  {o \in {cur, prim} \cap Objs : ~acc[o].live}
    \cup (IF others = {} THEN {} ELSE {CHOOSE o \in others : TRUE})

\* Slip: the event is never posted.
hap_update_config_number_Never == UNCHANGED events

\* The event is lost before hap_start() and when the queue is full.
hap_update_config_number == events' = IF started /\ events < EventQ THEN events + 1 ELSE events

CreateAccessory(t) ==
  /\ pc[t] = "create" /\ Go(t, IF t = "uart" THEN "add" ELSE "serv")
  /\ \E o \in Blocks :
       /\ acc' = [acc EXCEPT ![o] = [live |-> TRUE, servs |-> <<>>]]
       /\ cur' = o
  /\ hap_update_config_number
  /\ UNCHANGED <<bus, table, flags, prim, started, cfg, msg, removed, shown, hist, count>>

\* Slip: the loop over the modules goes one too far.
Linked_OneMore == [i \in 1..(num + 1) |-> IF i <= MaxMods THEN mods[i] ELSE None]

\* What beginAccessory() finds in the module table.
Linked == [i \in 1..num |-> IF i <= MaxMods THEN mods[i] ELSE None]

\* beginAccessory(): a switch service for each of the modules.
AddServices(t) ==
  /\ pc[t] = "serv" /\ Go(t, "publish")
  /\ IF cur # None /\ acc[cur].live
     THEN /\ acc' = [acc EXCEPT ![cur].servs = @ \o Linked]
          /\ UNCHANGED ub
     ELSE ub' = TRUE /\ UNCHANGED acc
  /\ UNCHANGED <<bus, table, flags, cur, prim, started, events, cfg, msg, removed, shown,
                 overlap, cut, stale, count>>

\* hap_add_accessory() and, the first time, hap_start().
Publish(t) ==
  /\ pc[t] = "publish" /\ Go(t, IF t = "uart" THEN "ready" ELSE "reload")
  /\ prim' = (IF cur = None THEN prim ELSE cur) /\ started' = TRUE
  /\ removed' = IF t = "live" THEN TRUE ELSE removed
  /\ UNCHANGED <<bus, table, flags, acc, cur, events, cfg, msg, shown, hist, count>>

-----------------------------------------------------------------------------
(* uartReceive() *)

RecvSignal ==
  /\ pc["uart"] = "idle" /\ rx # <<>> /\ rx' = Tail(rx)
  /\ \/ /\ Head(rx).type \in {"req", "bad"}
        /\ tx' = Append(tx, "load") /\ UNCHANGED connected
     \/ /\ Head(rx).type = "hi"
        /\ connected' = TRUE /\ UNCHANGED tx
  /\ UNCHANGED <<chain, table, init, heap, cfg, pc, msg, removed, shown, hist, count>>

RecvLink ==
  /\ pc["uart"] = "idle" /\ rx # <<>> /\ Head(rx).type = "link"
  /\ rx' = Tail(rx) /\ msg' = Head(rx)
  /\ IF Head(rx).addr = Head(rx).total THEN init' = FALSE /\ Go("uart", "del")
     ELSE UNCHANGED init /\ Go("uart", "add")
  /\ overlap' = (overlap \/ pc["live"] \in Removal)
  /\ cut' = (cut \/ (Head(rx).addr = Head(rx).total /\ ~init /\ cur # None))
  /\ UNCHANGED <<chain, tx, table, connected, heap, cfg, removed, shown, stale, ub, count>>

\* The module with the first address is the last one.
AddModule ==
  /\ pc["uart"] = "add" /\ Go("uart", IF msg.addr = 1 THEN "serv" ELSE "idle")
  /\ mods' = [mods EXCEPT ![msg.addr] = msg.name]
  /\ num' = (num + 1) % 256
  /\ UNCHANGED <<bus, flags, heap, cfg, msg, removed, shown, hist, count>>

Ready ==
  /\ pc["uart"] = "ready" /\ Go("uart", "idle")
  /\ init' = TRUE /\ connected' = TRUE
  /\ UNCHANGED <<bus, table, heap, cfg, msg, removed, shown, hist, count>>

-----------------------------------------------------------------------------
(* moduleLiveCheck() *)

SendHi ==
  /\ pc["live"] = "idle" /\ init /\ Go("live", "mark")
  /\ tx' = Append(tx, "hi")
  /\ UNCHANGED <<chain, rx, table, flags, heap, cfg, msg, removed, shown, hist, count>>

Mark ==
  /\ pc["live"] = "mark" /\ Go("live", "wait")
  /\ connected' = FALSE
  /\ UNCHANGED <<bus, table, init, heap, cfg, msg, removed, shown, hist, count>>

Answering == \E i \in DOMAIN rx : rx[i].type = "hi"

\* A second later.  That is long against the SAMD21's polling; an answer that
\* is not handled by then is one of the late ones.
Check ==
  /\ pc["live"] = "wait" /\ tx = <<>>
  /\ IF Answering THEN Once("late") ELSE UNCHANGED count
  /\ \/ /\ connected /\ Go("live", "idle")
        /\ removed' = FALSE /\ UNCHANGED overlap
     \/ /\ ~connected /\ ~removed /\ Go("live", "del")
        /\ overlap' = (overlap \/ ~init \/ pc["uart"] # "idle") /\ UNCHANGED removed
     \/ /\ ~connected /\ removed /\ Go("live", "reload")
        /\ UNCHANGED <<removed, overlap>>
  /\ UNCHANGED <<bus, table, flags, heap, cfg, msg, shown, cut, stale, ub>>

\* Slip: no reconnection is attempted.
Reload_Dropped ==
  /\ pc["live"] = "reload" /\ Go("live", "idle")
  /\ UNCHANGED <<bus, table, flags, heap, cfg, msg, removed, shown, hist, count>>

Reload ==
  /\ pc["live"] = "reload" /\ Go("live", "idle")
  /\ tx' = Append(tx, "load")
  /\ UNCHANGED <<chain, rx, table, flags, heap, cfg, msg, removed, shown, hist, count>>

-----------------------------------------------------------------------------
(* The HomeKit loop task, a controller, and restarts *)

LoopConfigNum ==
  /\ events > 0 /\ events' = events - 1
  /\ cfg' = cfg + 1
  /\ UNCHANGED <<bus, table, flags, acc, cur, prim, started, pc, msg, removed, shown, hist, count>>

\* No task is rebuilding the accessory.
Standing == init /\ pc["uart"] = "idle" /\ pc["live"] \notin Removal

\* A controller that finds another configuration number than the one it remembers
\* reads the accessory database again; the server task does not ask whether somebody
\* is rebuilding it, and what it sends then is anything.
Read ==
  /\ started /\ ~ub /\ shown.cfg # cfg
  /\ shown' = IF Standing THEN [cfg |-> cfg, servs |-> Services, sure |-> TRUE] ELSE Unsure
  /\ UNCHANGED <<bus, table, flags, heap, cfg, pc, msg, removed, hist, count>>

\* What a controller read before a start may change with no change of the number.
Restart ==
  /\ tx' = <<"load">> /\ rx' = <<>>
  /\ mods' = NoModules /\ num' = 0 /\ init' = FALSE /\ connected' = FALSE
  /\ acc' = NoObjects /\ cur' = None /\ prim' = None /\ started' = FALSE /\ events' = 0
  /\ pc' = AllIdle /\ msg' = Signal("hi")
  /\ removed' = FALSE /\ overlap' = FALSE /\ cut' = FALSE /\ stale' = FALSE /\ ub' = FALSE
  /\ shown' = Unsure
  /\ UNCHANGED <<chain, cfg>>

Boot == Once("boots") /\ Restart

\* An exception while a freed accessory is counted or read.
CountFaults == Dangling /\ (\E t \in Tasks : pc[t] = "del") /\ Restart /\ UNCHANGED count
ReadFaults  == Dangling /\ started /\ Restart /\ UNCHANGED count

TaskStep(t) == DeleteAccessory(t) \/ ZeroModules(t) \/ CreateAccessory(t) \/ AddServices(t) \/ Publish(t)
UartStep == TaskStep("uart") \/ RecvSignal \/ RecvLink \/ AddModule \/ Ready
LiveStep == TaskStep("live") \/ SendHi \/ Mark \/ Check \/ Reload

Next == UartStep \/ LiveStep \/ BusTake \/ LoopConfigNum
          \/ Plug \/ Unplug \/ Garble \/ Read \/ Boot \/ CountFaults \/ ReadFaults

Spec == Init /\ [][Next]_vars

\* Both tasks and the HomeKit loop are scheduled, and the SAMD21 polls.
FairSpec ==
  Spec /\ WF_vars(UartStep) /\ WF_vars(LiveStep) /\ WF_vars(BusTake) /\ WF_vars(LoopConfigNum)

-----------------------------------------------------------------------------
(* Properties *)

\* Without overlapping rebuilds and unreadable messages no accessory is used
\* after it was deleted and none is deleted twice; but a rebuild that follows a
\* round that was cut off counts the accessories from a freed one.
MemorySafe == ~overlap /\ count["garbles"] = 0 => (~stale => ~ub) /\ (~cut => ~stale)

\* Whoever rebuilt the accessory last, what it offers are the modules that
\* have been linked, each of them once.
ServicesAreModules ==
  Standing /\ ~overlap /\ count["garbles"] = 0 =>
    Len(Services) = num /\ \A i \in 1..num : Services[i] = mods[i]

\* So the accessory is always a whole one, and the right one.
AccessorySound == TypeOK /\ MemorySafe /\ ServicesAreModules

\* A controller that sees the configuration number it remembers has the right
\* services, if it did not read them from a rebuild or before the last start: the
\* number is changed before the new accessory is published, and not at all by what
\* is done before hap_start().
CacheValid ==
  Standing /\ events = 0 /\ ~ub /\ shown.sure /\ shown.cfg = cfg => shown.servs = Services

\* That holds from one hap_start() to the next restart.
CacheValidSinceStart == count["garbles"] = 0 /\ ~overlap => CacheValid

Offers(c) == prim # None /\ acc[prim].live /\ Services = c /\ num = Len(c)

\* In the end the accessory offers the chain, whatever was unreadable, late,
\* plugged or restarted before, unless the heap was corrupted.
Converges == <>[](ub \/ chain = <<>> \/ (init /\ Offers(chain)))
=============================================================================
