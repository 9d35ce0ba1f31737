--------------------------------- MODULE Smf ---------------------------------
(***************************************************************************)
(* The smart modularized fuse: how the core keeps the current of all the   *)
(* modules together below MAX_CURRENT (CommandHandler.cpp,                 *)
(* CMD_UPDATE_DATA; CoreBridge.cpp).                                       *)
(*                                                                         *)
(* Every report of a module's current makes the core add up the currents   *)
(* it knows, divide what is left by the number of modules and broadcast    *)
(* the result, mcub: a module need not report a rise smaller than that.    *)
(* When the sum exceeds MAX_CURRENT, one module is turned off: the one     *)
(* with the highest priority if enable_pop is set, or else the one whose   *)
(* report was last found to be a rise of at least mcub.                    *)
(*                                                                         *)
(* The modules are external, modelled from what the handlers expect: they  *)
(* answer LOAD with a round of link messages, the last module first, they  *)
(* answer a request for their current, they report a rise that reaches the *)
(* mcub they were told, and may report any other change; they obey turn-on *)
(* and turn-off and report the state of their switch.  All have the same   *)
(* priority until the web application changes one.  The two directions of  *)
(* the UART keep their order and lose nothing here: what its queue does    *)
(* wrong is the matter of UartQueue.  Currents are small numbers; the sum  *)
(* of 20 real ones does not reach 2^16.                                    *)
(***************************************************************************)
EXTENDS Integers, Sequences, FiniteSets, FiniteSetsExt, SequencesExt

CONSTANTS
  N,          \* modules in the chain
  MAX_CURRENT,
  Loads,      \* what a module that is on may draw
  Priorities, \* the priorities a module may have
  MaxLine,    \* bound on the messages under way in one direction
  MaxEvents   \* bound on changes of loads, switches, settings, on outages and idle reports

ASSUME SmfAssumption ==
  /\ N \in 1..20 /\ MAX_CURRENT \in Nat
  /\ Loads \subseteq Nat /\ 0 \in Loads
  /\ Priorities \subseteq Nat /\ Priorities # {}
  /\ MaxLine \in Nat /\ MaxLine > N /\ MaxEvents \in Nat

VARIABLES
  modules,  \* CoreBridge.modules[]: current, priority, state of the switch
  num,      \* system_status.num_modules
  sum,      \* system_status.sum_current
  mcub,     \* smf_status.mcub
  culprit,  \* smf_status.overload_triggered_addr
  pop,      \* smf_status.enable_pop, also in the keystore
  emerg,    \* emerg_triggered of overloadProtectionCheck()
  timer,    \* its timer t: unset until the first use
  down, up, \* messages to and from the modules
  load,     \* external: what a module draws when it is on
  relay,    \* external: whether it is on
  told,     \* external: the mcub it was told
  reported, \* external: the current it reported last
  asked,    \* external: the modules that owe an answer
  cut,      \* history: the turn-off of this emergency was obeyed
  events    \* the counter behind MaxEvents

core  == <<modules, num, sum, mcub, culprit, emerg, timer>>
chain == <<load, relay, told, reported, asked>>
vars  == <<core, pop, down, up, chain, cut, events>>

Addr == 1..N
Entry == [current : Nat, priority : Priorities, state : BOOLEAN]
Msg(type, addr, value) == [type |-> type, addr |-> addr, value |-> value]

TypeOK ==
  /\ modules \in [Addr -> Entry] /\ num \in 0..N
  /\ sum \in Nat /\ mcub \in 0..MAX_CURRENT /\ culprit \in 0..N
  /\ pop \in BOOLEAN /\ emerg \in BOOLEAN /\ timer \in {"unset", "running", "elapsed"}
  /\ load \in [Addr -> Loads] /\ relay \in [Addr -> BOOLEAN]
  /\ told \in [Addr -> 0..MAX_CURRENT] /\ reported \in [Addr -> Loads]
  /\ asked \subseteq Addr /\ cut \in BOOLEAN /\ events \in 0..MaxEvents

Draw(a) == IF relay[a] THEN load[a] ELSE 0
TotalDraw == MapThenSumSet(Draw, Addr)

-----------------------------------------------------------------------------
(* The core *)

\* modules[] is not cleared by anything but a restart.
Unlinked == [a \in Addr |-> [current |-> 0, priority |-> Min(Priorities), state |-> FALSE]]

Init ==
  /\ modules = Unlinked /\ num = 0 /\ sum = 0 /\ mcub = 0 /\ culprit = 0
  /\ emerg = FALSE /\ timer = "unset"
  /\ pop \in BOOLEAN
  /\ down = <<Msg("load", 0, 0)>> /\ up = <<>>
  /\ load \in [Addr -> Loads] /\ relay = [a \in Addr |-> TRUE]
  /\ told = [a \in Addr |-> 0] /\ reported = [a \in Addr |-> 0] /\ asked = {}
  /\ cut = FALSE /\ events = 0

Event == events < MaxEvents /\ events' = events + 1
Received(type) == up # <<>> /\ Head(up).type = type /\ up' = Tail(up)
Room(n) == Len(down) + n <= MaxLine

\* Slip: the currents are not asked for when the modules are linked.
requestModulesData_Later == UNCHANGED down

requestModulesData == down' = Append(down, Msg("req", 0, 0))

\* Slip: a new round does not remove the modules of the last one.
Link_KeepNum ==
  /\ Received("link") /\ Room(1)
  /\ LET a == Head(up).addr IN
     /\ modules' = [modules EXCEPT ![a] =
                      [current |-> 0, priority |-> Min(Priorities), state |-> Head(up).value = 1]]
     /\ num' = num + 1
     /\ IF a = 1 THEN requestModulesData ELSE UNCHANGED down
  /\ UNCHANGED <<sum, mcub, culprit, emerg, timer, pop, chain, cut, events>>

\* addModule(); the first message of a round removes the modules of the last
\* one, and the last message asks all of them for their current.
Link ==
  /\ Received("link") /\ Room(1)
  /\ LET a == Head(up).addr IN
     /\ modules' = [modules EXCEPT ![a] =
                      [current |-> 0, priority |-> Min(Priorities), state |-> Head(up).value = 1]]
     /\ num' = IF a = N THEN 1 ELSE num + 1
     /\ IF a = 1 THEN requestModulesData ELSE UNCHANGED down
  /\ UNCHANGED <<sum, mcub, culprit, emerg, timer, pop, chain, cut, events>>

\* setModuleSwitchState()
SwitchState ==
  /\ Received("switch")
  /\ modules' = [modules EXCEPT ![Head(up).addr].state = (Head(up).value = 1)]
  /\ UNCHANGED <<num, sum, mcub, culprit, emerg, timer, pop, down, chain, cut, events>>

\* The on-module of the highest priority; of equals, the last one.
Expendable ==
  LET on == {a \in 1..num : modules[a].state} IN
  {a \in on : \A b \in on : \/ modules[b].priority < modules[a].priority
                            \/ modules[b].priority = modules[a].priority /\ b <= a}

\* Slip: the current is updated before it is compared.
Suspect_After(a, value) == IF value >= value + mcub THEN a ELSE culprit

\* Check MCUB triggering
Suspect(a, value) == IF value >= modules[a].current + mcub THEN a ELSE culprit

SumOf(m) == MapThenSumSet(LAMBDA a : m[a].current, 1..num)

\* overloadProtectionCheck() and the broadcast of the new mcub.  Only the
\* first report of an emergency turns a module off; during the emergency the
\* currents are asked for once a second, when some report arrives.
overloadProtectionCheck(s, suspect) ==
  LET over  == s > MAX_CURRENT
      first == over /\ ~emerg
      poll  == over /\ emerg /\ timer = "elapsed"
      off   == IF first THEN <<Msg("off", culprit', 0)>> ELSE <<>>
      req   == IF poll THEN <<Msg("req", 0, 0)>> ELSE <<>>
  IN
  /\ emerg' = over
  /\ culprit' = IF first /\ pop /\ Expendable # {} THEN CHOOSE a \in Expendable : TRUE
                ELSE suspect
  /\ timer' = IF poll \/ (over /\ emerg /\ timer = "unset") THEN "running" ELSE timer
  /\ down' = down \o off \o req \o <<Msg("mcub", 0, mcub')>>

\* Slip: the whole remainder is granted to every module.
Share_Whole(s) == Max({0, MAX_CURRENT - s})

Share(s) == IF s >= MAX_CURRENT THEN 0 ELSE (MAX_CURRENT - s) \div num

\* CMD_UPDATE_DATA with a current.
ReceiveCurrent ==
  /\ num > 0 /\ Received("current") /\ Room(3)
  /\ LET a == Head(up).addr
         v == Head(up).value
     IN
     /\ modules' = [modules EXCEPT ![a].current = v]
     /\ sum' = SumOf(modules')
     /\ mcub' = Share(sum')
     /\ overloadProtectionCheck(sum', Suspect(a, v))
  /\ cut' = (cut /\ emerg')
  /\ UNCHANGED <<num, pop, chain, events>>

\* With no module linked the share divides by num_modules = 0, an exception
\* that restarts the ESP32.  The keystore keeps enable_pop, the modules go on.
DivideByZero ==
  /\ num = 0 /\ up # <<>> /\ Head(up).type = "current"
  /\ modules' = Unlinked /\ num' = 0 /\ sum' = 0 /\ mcub' = 0 /\ culprit' = 0
  /\ emerg' = FALSE /\ timer' = "unset"
  /\ down' = <<Msg("load", 0, 0)>> /\ up' = <<>> /\ cut' = FALSE
  /\ UNCHANGED <<pop, chain, events>>

\* moduleLiveCheck() got no answer to HI: the modules are removed and, since
\* they may have come back, linked again.
LiveCheckFails ==
  /\ Event /\ num > 0 /\ Room(1)
  /\ num' = 0 /\ down' = Append(down, Msg("load", 0, 0))
  /\ UNCHANGED <<modules, sum, mcub, culprit, emerg, timer, pop, up, chain, cut>>

\* doModulesAction() for a controller or the web application.
DoModulesAction ==
  /\ Event /\ Room(1) /\ num > 0
  /\ \E a \in Addr, act \in {"on", "off"} : down' = Append(down, Msg(act, a, 0))
  /\ UNCHANGED <<core, pop, up, chain, cut>>

\* MQTT: setEnablePOP(), which saves it, and setModulePrioirty(), which only
\* changes the RAM.
Configure ==
  /\ Event
  /\ \/ pop' = ~pop /\ UNCHANGED modules
     \/ \E a \in Addr, p \in Priorities :
          modules' = [modules EXCEPT ![a].priority = p] /\ UNCHANGED pop
  /\ UNCHANGED <<num, sum, mcub, culprit, emerg, timer, down, up, chain, cut>>

Second ==
  /\ timer = "running" /\ timer' = "elapsed"
  /\ UNCHANGED <<modules, num, sum, mcub, culprit, emerg, pop, down, up, chain, cut, events>>

-----------------------------------------------------------------------------
(* The modules *)

Linking == \E i \in DOMAIN up : up[i].type = "link"
OnOff(b) == IF b THEN 1 ELSE 0

\* The order a module obeys, 0 being all of them.
Addressed(a) == IF a = 0 THEN Addr ELSE {a}

Deliver ==
  /\ down # <<>> /\ down' = Tail(down)
  /\ LET m == Head(down) IN
     \/ /\ m.type = "load" /\ ~Linking /\ Len(up) + N <= MaxLine + N
        /\ up' = up \o [i \in Addr |-> Msg("link", N + 1 - i, OnOff(relay[N + 1 - i]))]
        /\ UNCHANGED <<relay, told, asked, cut>>
     \/ /\ m.type = "req" /\ asked' = Addr
        /\ UNCHANGED <<up, relay, told, cut>>
     \/ /\ m.type = "mcub" /\ told' = [a \in Addr |-> m.value]
        /\ UNCHANGED <<up, relay, asked, cut>>
     \/ /\ m.type \in {"on", "off"} /\ Len(up) < MaxLine + N
        /\ relay' = [a \in Addr |-> IF a \in Addressed(m.addr) THEN m.type = "on" ELSE relay[a]]
        /\ up' = up \o SetToSeq({Msg("switch", a, OnOff(m.type = "on")) :
                                   a \in {b \in Addressed(m.addr) : relay'[b] # relay[b]}})
        /\ cut' = (cut \/ (emerg /\ m.type = "off" /\ m.addr \in {0, culprit}))
        /\ UNCHANGED <<told, asked>>
  /\ UNCHANGED <<core, pop, load, reported, events>>

\* A rise a module may not keep to itself.
Rise(a) == Draw(a) > reported[a] /\ Draw(a) >= reported[a] + told[a]

\* A report a module need not make, and one to a core that knows no module,
\* is among the bounded events.
Report(a) ==
  /\ Rise(a) \/ a \in asked \/ Draw(a) # reported[a]
  /\ \A i \in DOMAIN up : up[i].addr # a \/ up[i].type # "current"
  /\ up' = Append(up, Msg("current", a, Draw(a)))
  /\ reported' = [reported EXCEPT ![a] = Draw(a)] /\ asked' = asked \ {a}
  /\ IF num > 0 /\ (Rise(a) \/ a \in asked) THEN UNCHANGED events ELSE Event
  /\ UNCHANGED <<core, pop, down, load, relay, told, cut>>

LoadChanges ==
  /\ Event
  /\ \E a \in Addr, l \in Loads : load' = [load EXCEPT ![a] = l]
  /\ UNCHANGED <<core, pop, down, up, relay, told, reported, asked, cut>>

-----------------------------------------------------------------------------
UartStep == Link \/ SwitchState \/ ReceiveCurrent \/ DivideByZero

Next ==
  \/ UartStep \/ LiveCheckFails \/ DoModulesAction \/ Configure \/ Second
  \/ Deliver \/ LoadChanges \/ \E a \in Addr : Report(a)

Spec == Init /\ [][Next]_vars

\* The SPI loop and the bus go on, and a module says what it has to say.
FairSpec ==
  /\ Spec /\ WF_vars(UartStep) /\ WF_vars(Deliver) /\ WF_vars(Second)
  /\ \A a \in Addr : WF_vars((Rise(a) \/ a \in asked) /\ Report(a))

-----------------------------------------------------------------------------
(* Properties *)

Silent == down = <<>> /\ up = <<>> /\ asked = {} /\ \A a \in Addr : ~Rise(a)

\* The promise of mcub: while no message is under way and no module has a rise
\* to report, all of them together draw no more than MAX_CURRENT, although the
\* core does not know what they draw; or the emergency is known.
SilenceIsSafe == TypeOK /\ (Silent => TotalDraw <= MAX_CURRENT \/ emerg)

\* Without POP, and when the sum the core acts on is that of the modules it has,
\* the module turned off is the one whose report exceeded the limit.
CulpritRose ==
  [][ReceiveCurrent /\ emerg' /\ ~emerg /\ ~pop /\ sum = SumOf(modules)
       => culprit' = Head(up).addr]_vars

\* An overload does not last unless the one turn-off of the emergency was used
\* up: it was obeyed, and the core will turn off no other module.
Contained == <>[](TotalDraw > MAX_CURRENT) => <>[](emerg /\ cut)
=============================================================================
