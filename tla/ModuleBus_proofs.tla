-------------------------- MODULE ModuleBus_proofs --------------------------
(***************************************************************************)
(* Proofs about ModuleBus, for every number of modules and heap blocks and *)
(* every interleaving of the two tasks that rebuild the accessory with the *)
(* bus, the HomeKit loop, a controller and restarts.  The inductive        *)
(* invariants:                                                             *)
(*   TypeInv   types, and which steps each task has;                       *)
(*   RoundInv  while every link message parses, each follows the one of    *)
(*             the next higher address, to the first of its round, and the *)
(*             accessory is not initialized in between;                    *)
(*   HeapInv   while rebuilds do not overlap either, modules are counted   *)
(*             as they are linked, the accessory the core was given is     *)
(*             alive and has their services, and it is the one a rebuild   *)
(*             counts from unless a round was cut off;                     *)
(*   CacheInv  a controller that remembers the current number, and not     *)
(*             from a rebuild, knows these services, or the number is      *)
(*             about to change.                                            *)
(***************************************************************************)
EXTENDS ModuleBus, SequenceTheorems, TLAPS

-----------------------------------------------------------------------------
(* Types *)

UartSteps == Removal \cup {"idle", "add", "ready"}
LiveSteps == Removal \cup {"idle", "mark", "wait", "reload"}

\* What each task runs.
Programs == pc["uart"] \in UartSteps /\ pc["live"] \in LiveSteps
CountType == count \in [Counters -> Nat]
TypeInv == TypeOK /\ Programs /\ CountType

\* The number of modules is a number.
LEMMA ModsType == MaxMods \in Nat \ {0} /\ MaxMods \in 1..254 /\ EventQ \in Nat \ {0}
BY ModuleBusAssumption DEF MaxMods

\* A message from the bus, of whatever type.
LEMMA MessageTypes ==
  ASSUME NEW m \in Messages
  PROVE  /\ m.type \in {"link", "req", "hi", "bad"}
         /\ m.addr \in 1..MaxMods /\ m.total \in 1..MaxMods
         /\ m.type = "link" => m.name \in Mods
BY ModsType DEF Messages, Link, Signal

\* A signal is a message.
LEMMA SignalTypes ==
  ASSUME NEW t \in {"req", "hi", "bad"}
  PROVE  Signal(t) \in Messages /\ Signal(t).type = t
BY DEF Messages, Signal

\* A chain and the messages in which its modules answer LOAD.
LEMMA ChainTypes ==
  ASSUME NEW c \in Chains
  PROVE  /\ c \in Seq(Mods) /\ Len(c) \in 0..MaxMods
         /\ Round(c) \in Seq(Messages) /\ Len(Round(c)) = Len(c)
         /\ \A i \in 1..Len(c) : /\ Round(c)[i].type = "link" /\ Round(c)[i].total = Len(c)
                                 /\ Round(c)[i].addr = Len(c) + 1 - i
<1>1. PICK n \in 0..MaxMods : c \in [1..n -> Mods]
  BY DEF Chains
<1>2. n \in Nat /\ n <= MaxMods
  BY ModsType
<1>3. c \in Seq(Mods) /\ Len(c) = n
  BY <1>1, <1>2
<1> DEFINE r(i) == [type |-> "link", addr |-> n + 1 - i, total |-> n, name |-> c[n + 1 - i]]
<1>4. \A i \in 1..n : r(i) \in Messages
  <2> SUFFICES ASSUME NEW i \in 1..n PROVE r(i) \in Messages
    OBVIOUS
  <2>1. n + 1 - i \in 1..MaxMods /\ n \in 1..MaxMods /\ n + 1 - i \in 1..n
    BY <1>2, ModsType
  <2>2. c[n + 1 - i] \in Mods
    BY <1>1, <2>1
  <2> QED
    BY <2>1, <2>2 DEF Messages, Link
<1>5. Round(c) = [i \in 1..n |-> r(i)]
  BY <1>3 DEF Round
<1>6. Round(c) \in [1..n -> Messages]
  BY <1>4, <1>5
<1>7. Round(c) \in Seq(Messages) /\ Len(Round(c)) = n
  BY <1>2, <1>6
<1>8. \A i \in 1..n : Round(c)[i] = r(i)
  BY <1>5
<1> HIDE DEF r
<1>9. \A i \in 1..n : r(i).type = "link" /\ r(i).total = n /\ r(i).addr = n + 1 - i
  BY DEF r
<1> QED
  BY <1>3, <1>7, <1>8, <1>9

\* What beginAccessory() finds in the table.
LEMMA LinkedType ==
  ASSUME TypeOK
  PROVE  Linked \in Seq(Names) /\ Len(Linked) = num
<1>1. num \in Nat /\ \A i \in 1..num : i \in Nat /\ i >= 1
  <2>1. num \in 0..255
    BY Zenon DEF TypeOK
  <2> QED
    BY <2>1
<1>2. Linked \in [1..num -> Names]
  BY <1>1, ModsType DEF Linked, TypeOK, Names
<1> QED
  BY <1>1, <1>2

\* What starts the program again.
Restarts == Boot \/ CountFaults \/ ReadFaults

\* A step of the system is a step of one of its actions.
LEMMA Actions ==
  ASSUME [Next]_vars
  PROVE  \/ UNCHANGED vars
         \/ \E t \in Tasks : TaskStep(t)
         \/ RecvSignal \/ RecvLink \/ AddModule \/ Ready
         \/ SendHi \/ Mark \/ Check \/ Reload
         \/ BusTake \/ LoopConfigNum \/ Plug \/ Unplug \/ Garble \/ Read \/ Restarts
BY Zenon DEF Next, UartStep, LiveStep, Tasks, Restarts

\* However it starts again, it starts in the same state.
LEMMA Restarting == Restarts => Restart
BY Zenon DEF Restarts, Boot, CountFaults, ReadFaults

\* The RAM after a start has its types.
LEMMA TypeInit == Init => TypeInv
<1> SUFFICES ASSUME Init PROVE TypeInv
  OBVIOUS
<1> USE DEF Init
<1>1. tx \in Seq({"load", "hi"}) /\ rx \in Seq(Messages) /\ msg \in Messages
  BY SignalTypes
<1>2. mods \in [1..MaxMods -> Names]
  BY DEF NoModules, Names
<1>3. acc \in [Objs -> [live : BOOLEAN, servs : Seq(Names)]]
  BY DEF NoObjects
<1>4. pc \in [Tasks -> Steps] /\ Programs
  BY DEF AllIdle, Tasks, Steps, Programs, UartSteps, LiveSteps
<1>5. shown \in [cfg : Nat, servs : Seq(Names), sure : BOOLEAN]
  BY DEF Unsure
<1>6. CountType /\ \A c \in Counters : count[c] \in 0..Bound[c]
  <2>1. \A c \in Counters : Bound[c] \in Nat
    BY ModuleBusAssumption DEF Bound, Counters
  <2> QED
    BY <2>1 DEF CountType
<1>7. num \in 0..255 /\ events \in 0..EventQ /\ cfg \in Nat \ {0}
  BY ModsType
<1>8. /\ chain \in Chains /\ init \in BOOLEAN /\ connected \in BOOLEAN /\ started \in BOOLEAN
      /\ cur \in Objs \cup {None} /\ prim \in Objs \cup {None}
      /\ removed \in BOOLEAN /\ overlap \in BOOLEAN /\ cut \in BOOLEAN
      /\ stale \in BOOLEAN /\ ub \in BOOLEAN
  OBVIOUS
<1> QED
  BY <1>1, <1>2, <1>3, <1>4, <1>5, <1>6, <1>7, <1>8, Zenon DEF TypeInv, TypeOK

\* A bounded event is counted within its bound.
LEMMA OnceType ==
  ASSUME TypeInv, NEW c \in Counters, Once(c) \/ UNCHANGED count
  PROVE  /\ CountType' /\ \A d \in Counters : count'[d] \in 0..Bound[d]
         /\ \A d \in Counters : count'[d] >= count[d]
<1>1. \A d \in Counters : Bound[d] \in Nat
  BY ModuleBusAssumption DEF Bound, Counters
<1>2. count \in [Counters -> Nat] /\ \A d \in Counters : count[d] \in 0..Bound[d]
  BY DEF TypeInv, TypeOK, CountType
<1>3. CASE UNCHANGED count
  BY <1>2, <1>3 DEF CountType
<1>4. CASE Once(c)
  <2>1. count' = [count EXCEPT ![c] = count[c] + 1] /\ count[c] < Bound[c]
    BY <1>4 DEF Once
  <2>2. count[c] + 1 \in Nat /\ count[c] + 1 \in 0..Bound[c] /\ count[c] + 1 >= count[c]
    BY <1>1, <1>2, <2>1
  <2>3. \A d \in Counters : count'[d] = IF d = c THEN count[c] + 1 ELSE count[d]
    BY <1>2, <2>1
  <2>4. \A d \in Counters : count'[d] \in 0..Bound[d] /\ count'[d] >= count[d]
    BY <1>2, <2>2, <2>3
  <2> QED
    BY <1>2, <2>1, <2>2, <2>4 DEF CountType
<1> QED
  BY <1>3, <1>4

\* Where a task may go.
LEMMA GoType ==
  ASSUME TypeInv, NEW t \in Tasks, NEW step, Go(t, step),
         t = "uart" => step \in UartSteps, t = "live" => step \in LiveSteps
  PROVE  pc' \in [Tasks -> Steps] /\ Programs'
<1>1. pc \in [Tasks -> Steps] /\ Programs /\ pc' = [pc EXCEPT ![t] = step]
  BY DEF TypeInv, TypeOK, Go
<1>2. UartSteps \subseteq Steps /\ LiveSteps \subseteq Steps
  BY DEF UartSteps, LiveSteps, Steps
<1>3. step \in Steps
  BY <1>2 DEF Tasks
<1> QED
  BY <1>1, <1>3 DEF Programs, Tasks

\* The calls that rebuild the accessory keep the types.
LEMMA TaskTypes ==
  ASSUME TypeInv, NEW t \in Tasks, TaskStep(t)
  PROVE  TypeInv'
<1>u. /\ UNCHANGED <<chain, tx, rx, mods, init, connected, cfg, msg, shown, overlap, cut, count>>
  BY Zenon DEF TaskStep, DeleteAccessory, ZeroModules, CreateAccessory, AddServices, Publish,
               bus, table, flags, hist
<1>a. /\ acc \in [Objs -> [live : BOOLEAN, servs : Seq(Names)]]
      /\ cur \in Objs \cup {None} /\ prim \in Objs \cup {None} /\ events \in 0..EventQ
      /\ Linked \in Seq(Names) /\ EventQ \in Nat
  BY LinkedType, ModsType DEF TypeInv, TypeOK
<1>p. pc' \in [Tasks -> Steps] /\ Programs'
  <2>1. ASSUME NEW step \in Removal \cup {"add", "ready", "reload"}, Go(t, step),
               step = "reload" => t = "live", step \in {"add", "ready"} => t = "uart"
        PROVE  pc' \in [Tasks -> Steps] /\ Programs'
    BY <2>1, GoType DEF UartSteps, LiveSteps, Tasks
  <2>2. CASE DeleteAccessory(t)
    BY <2>1, <2>2 DEF DeleteAccessory, Removal
  <2>3. CASE ZeroModules(t)
    BY <2>1, <2>3 DEF ZeroModules, Removal
  <2>4. CASE CreateAccessory(t)
    BY <2>1, <2>4 DEF CreateAccessory, Removal
  <2>5. CASE AddServices(t)
    BY <2>1, <2>5 DEF AddServices, Removal
  <2>6. CASE Publish(t)
    BY <2>1, <2>6 DEF Publish, Tasks
  <2> QED
    BY <2>2, <2>3, <2>4, <2>5, <2>6 DEF TaskStep
<1>e. /\ [live |-> FALSE, servs |-> <<>>] \in [live : BOOLEAN, servs : Seq(Names)]
      /\ [live |-> TRUE, servs |-> <<>>] \in [live : BOOLEAN, servs : Seq(Names)]
  OBVIOUS
<1>1. acc' \in [Objs -> [live : BOOLEAN, servs : Seq(Names)]]
  <2>1. CASE DeleteAccessory(t)
    <3>1. acc' = acc \/ (cur # None /\ acc' = [acc EXCEPT ![cur] = [live |-> FALSE, servs |-> <<>>]])
      BY <2>1, Zenon DEF DeleteAccessory
    <3> QED
      BY <3>1, <1>a, <1>e
  <2>2. CASE ZeroModules(t)
    BY <2>2, <1>a DEF ZeroModules, heap
  <2>3. CASE CreateAccessory(t)
    <3>1. PICK o \in Objs : acc' = [acc EXCEPT ![o] = [live |-> TRUE, servs |-> <<>>]]
      BY <2>3 DEF CreateAccessory, Blocks
    <3> QED
      BY <3>1, <1>a, <1>e
  <2>4. CASE AddServices(t)
    <3>1. acc' = acc \/ (cur \in Objs /\ acc' = [acc EXCEPT ![cur].servs = acc[cur].servs \o Linked])
      BY <2>4, <1>a DEF AddServices
    <3>2. ASSUME cur \in Objs PROVE acc[cur].servs \o Linked \in Seq(Names)
      BY <3>2, <1>a, ConcatProperties
    <3> QED
      BY <3>1, <3>2, <1>a
  <2>5. CASE Publish(t)
    BY <2>5, <1>a DEF Publish
  <2> QED
    BY <2>1, <2>2, <2>3, <2>4, <2>5 DEF TaskStep
<1>2. cur' \in Objs \cup {None} /\ prim' \in Objs \cup {None}
  BY <1>a DEF TaskStep, DeleteAccessory, ZeroModules, CreateAccessory, AddServices, Publish, heap, Blocks
<1>3. events' \in 0..EventQ
  <2>1. hap_update_config_number => events' \in 0..EventQ
    BY <1>a DEF hap_update_config_number
  <2>2. events' = events \/ hap_update_config_number
    BY Zenon DEF TaskStep, DeleteAccessory, ZeroModules, CreateAccessory, AddServices, Publish, heap
  <2> QED
    BY <2>1, <2>2, <1>a
<1>4. num' \in 0..255
  <2>1. num' = num \/ num' = 0
    BY Zenon DEF TaskStep, DeleteAccessory, ZeroModules, CreateAccessory, AddServices, Publish, table
  <2>2. num \in 0..255 /\ 0 \in 0..255
    BY DEF TypeInv, TypeOK
  <2> QED
    BY <2>1, <2>2
<1>5. started' \in BOOLEAN /\ removed' \in BOOLEAN /\ stale' \in BOOLEAN /\ ub' \in BOOLEAN
  <2>1. started \in BOOLEAN /\ removed \in BOOLEAN /\ stale \in BOOLEAN /\ ub \in BOOLEAN
    BY DEF TypeInv, TypeOK
  <2>2. CASE DeleteAccessory(t)
    BY <2>1, <2>2 DEF DeleteAccessory, Dangling
  <2>3. CASE ZeroModules(t) \/ CreateAccessory(t) \/ AddServices(t) \/ Publish(t)
    BY <2>1, <2>3 DEF ZeroModules, CreateAccessory, AddServices, Publish, heap, hist
  <2> QED
    BY <2>2, <2>3 DEF TaskStep
<1>6. /\ chain \in Chains
      /\ tx \in Seq({"load", "hi"}) /\ rx \in Seq(Messages)
      /\ mods \in [1..MaxMods -> Names] /\ init \in BOOLEAN /\ connected \in BOOLEAN
      /\ cfg \in Nat \ {0} /\ msg \in Messages /\ overlap \in BOOLEAN /\ cut \in BOOLEAN
      /\ shown \in [cfg : Nat, servs : Seq(Names), sure : BOOLEAN]
      /\ (\A c \in Counters : count[c] \in 0..Bound[c]) /\ CountType
  BY DEF TypeInv, TypeOK
<1>7. TypeOK'
  BY <1>u, <1>p, <1>1, <1>2, <1>3, <1>4, <1>5, <1>6, Zenon DEF TypeOK
<1> QED
  BY <1>u, <1>p, <1>6, <1>7 DEF TypeInv, CountType

\* A queue that is appended to, or has its head taken off.
LEMMA Queues ==
  ASSUME NEW S, NEW q \in Seq(S), NEW e \in S
  PROVE  /\ Append(q, e) \in Seq(S) /\ Len(Append(q, e)) = Len(q) + 1
         /\ \A i \in 1..Len(q) : Append(q, e)[i] = q[i]
         /\ Append(q, e)[Len(q) + 1] = e
         /\ \A n \in 0..Len(q) : /\ SubSeq(q, 1, n) \in Seq(S) /\ Len(SubSeq(q, 1, n)) = n
                                 /\ \A i \in 1..n : SubSeq(q, 1, n)[i] = q[i]
         /\ q # <<>> => /\ Tail(q) \in Seq(S) /\ Len(Tail(q)) = Len(q) - 1
                        /\ \A i \in 1..(Len(q) - 1) : Tail(q)[i] = q[i + 1]
                        /\ Head(q) = q[1] /\ Head(q) \in S /\ Len(q) >= 1
<1>1. \A n \in 0..Len(q) : SubSeq(q, 1, n) \in Seq(S) /\ Len(SubSeq(q, 1, n)) = n
                           /\ \A i \in 1..n : SubSeq(q, 1, n)[i] = q[i]
  OBVIOUS
<1> QED
  BY <1>1

\* What the bus and the two tasks do besides keeps the types as well.
LEMMA TypeStep == TypeInv /\ [Next]_vars => TypeInv'
<1> SUFFICES ASSUME TypeInv, [Next]_vars PROVE TypeInv'
  OBVIOUS
<1>t. /\ chain \in Chains /\ tx \in Seq({"load", "hi"}) /\ rx \in Seq(Messages)
      /\ mods \in [1..MaxMods -> Names] /\ num \in 0..255
      /\ init \in BOOLEAN /\ connected \in BOOLEAN
      /\ acc \in [Objs -> [live : BOOLEAN, servs : Seq(Names)]]
      /\ cur \in Objs \cup {None} /\ prim \in Objs \cup {None}
      /\ started \in BOOLEAN /\ events \in 0..EventQ
      /\ cfg \in Nat \ {0}
      /\ pc \in [Tasks -> Steps] /\ msg \in Messages
      /\ removed \in BOOLEAN /\ overlap \in BOOLEAN /\ cut \in BOOLEAN
      /\ stale \in BOOLEAN /\ ub \in BOOLEAN
      /\ shown \in [cfg : Nat, servs : Seq(Names), sure : BOOLEAN]
      /\ \A c \in Counters : count[c] \in 0..Bound[c]
  BY DEF TypeInv, TypeOK
<1>p. Programs /\ CountType
  BY DEF TypeInv
<1>c. (\A c \in Counters : count'[c] \in 0..Bound[c]) /\ CountType'
  <2>1. \/ UNCHANGED count
        \/ \E c \in Counters : Once(c)
    BY Actions DEF vars, TaskStep, DeleteAccessory, ZeroModules, CreateAccessory, AddServices, Publish,
       RecvSignal, RecvLink, AddModule, Ready, SendHi, Mark, Check, Reload, BusTake,
       LoopConfigNum, Plug, Unplug, Garble, Read, Restarts, Boot, CountFaults, ReadFaults, Counters
  <2> QED
    BY <2>1, OnceType, <1>t, <1>p DEF CountType
<1>m. Append(tx, "load") \in Seq({"load", "hi"}) /\ Append(tx, "hi") \in Seq({"load", "hi"})
  BY <1>t
<1>s. \A t \in {"req", "hi", "bad"} : Append(rx, Signal(t)) \in Seq(Messages)
  BY <1>t, SignalTypes, Queues
<1>r. rx # <<>> => Tail(rx) \in Seq(Messages) /\ Head(rx) \in Messages
  BY <1>t, Queues
<1>0. CASE UNCHANGED vars
  BY <1>0, <1>t, <1>p, <1>c DEF vars, bus, table, flags, heap, hist, TypeInv, TypeOK, Programs
<1>1. ASSUME NEW t \in Tasks, TaskStep(t)
      PROVE  TypeInv'
  BY <1>1, TaskTypes
<1>2. CASE RecvSignal
  <2>1. /\ rx' = Tail(rx) /\ rx # <<>> /\ tx' \in {tx, Append(tx, "load")}
        /\ connected' \in BOOLEAN
        /\ UNCHANGED <<chain, mods, num, init, acc, cur, prim, started, events, cfg, pc, msg,
                       removed, shown, overlap, cut, stale, ub>>
    BY <1>2, <1>t DEF RecvSignal, table, heap, hist
  <2>2. tx' \in Seq({"load", "hi"}) /\ rx' \in Seq(Messages)
    BY <2>1, <1>t, <1>m, <1>r
  <2> QED
    BY <2>1, <2>2, <1>t, <1>p, <1>c DEF TypeInv, TypeOK, Programs
<1>3. CASE RecvLink
  <2>1. /\ rx' = Tail(rx) /\ rx # <<>> /\ msg' = Head(rx) /\ init' \in BOOLEAN /\ overlap' \in BOOLEAN
        /\ cut' \in BOOLEAN
        /\ UNCHANGED <<chain, tx, mods, num, connected, acc, cur, prim, started, events, cfg,
                       removed, shown, stale, ub>>
    BY <1>3, <1>t DEF RecvLink, table, heap
  <2>2. pc' \in [Tasks -> Steps] /\ Programs'
    <3>1. Go("uart", "del") \/ Go("uart", "add")
      BY <1>3 DEF RecvLink
    <3> QED
      BY <3>1, GoType DEF Tasks, UartSteps, Removal
  <2> QED
    BY <2>1, <2>2, <1>t, <1>c, <1>r DEF TypeInv, TypeOK
<1>4. CASE AddModule
  <2>1. /\ mods' = [mods EXCEPT ![msg.addr] = msg.name] /\ num' = (num + 1) % 256
        /\ UNCHANGED <<chain, tx, rx, init, connected, acc, cur, prim, started, events, cfg,
                       msg, removed, shown, overlap, cut, stale, ub>>
    BY <1>4 DEF AddModule, bus, flags, heap, hist
  <2>2. pc' \in [Tasks -> Steps] /\ Programs'
    <3>1. Go("uart", "serv") \/ Go("uart", "idle")
      BY <1>4 DEF AddModule
    <3> QED
      BY <3>1, GoType DEF Tasks, UartSteps, Removal
  <2>3. msg.name \in Names
    BY <1>t DEF Messages, Link, Signal, Names
  <2>4. mods' \in [1..MaxMods -> Names]
    BY <2>1, <2>3, <1>t
  <2>5. num' \in 0..255
    BY <2>1, <1>t
  <2> QED
    BY <2>1, <2>2, <2>4, <2>5, <1>t, <1>c DEF TypeInv, TypeOK
<1>5. CASE Ready \/ Mark \/ Check
  <2>1. /\ init' \in BOOLEAN /\ connected' \in BOOLEAN /\ removed' \in BOOLEAN /\ overlap' \in BOOLEAN
        /\ UNCHANGED <<chain, tx, rx, mods, num, acc, cur, prim, started, events, cfg, msg, shown,
                       cut, stale, ub>>
    BY <1>5, <1>t DEF Ready, Mark, Check, bus, table, flags, heap, hist
  <2>2. pc' \in [Tasks -> Steps] /\ Programs'
    <3>1. \/ Go("uart", "idle")
          \/ \E step \in {"idle", "del", "reload", "wait"} : Go("live", step)
      BY <1>5 DEF Ready, Mark, Check
    <3> QED
      BY <3>1, GoType DEF Tasks, UartSteps, LiveSteps, Removal
  <2> QED
    BY <2>1, <2>2, <1>t, <1>c DEF TypeInv, TypeOK
<1>6. CASE SendHi \/ Reload
  <2>1. /\ tx' \in {Append(tx, "hi"), Append(tx, "load")}
        /\ UNCHANGED <<chain, rx, mods, num, init, connected, acc, cur, prim, started, events, cfg,
                       msg, removed, shown, overlap, cut, stale, ub>>
    BY <1>6 DEF SendHi, Reload, table, flags, heap, hist
  <2>2. pc' \in [Tasks -> Steps] /\ Programs'
    <3>1. \E step \in {"idle", "mark"} : Go("live", step)
      BY <1>6 DEF SendHi, Reload
    <3> QED
      BY <3>1, GoType DEF Tasks, LiveSteps
  <2>3. tx' \in Seq({"load", "hi"})
    BY <2>1, <1>m
  <2> QED
    BY <2>1, <2>2, <2>3, <1>t, <1>c DEF TypeInv, TypeOK
<1>7. CASE BusTake
  <2>1. /\ tx' = Tail(tx) /\ tx # <<>> /\ rx' \in {rx, rx \o Round(chain), Append(rx, Signal("hi"))}
        /\ UNCHANGED <<chain, mods, num, init, connected, acc, cur, prim, started, events, cfg,
                       pc, msg, removed, shown, overlap, cut, stale, ub>>
    BY <1>7 DEF BusTake, table, flags, heap, hist
  <2>2. tx' \in Seq({"load", "hi"})
    BY <2>1, <1>t, Queues
  <2>3. rx' \in Seq(Messages)
    <3>1. Round(chain) \in Seq(Messages)
      BY <1>t, ChainTypes
    <3>2. rx \o Round(chain) \in Seq(Messages)
      BY <1>t, <3>1, ConcatProperties
    <3> QED
      BY <2>1, <1>t, <1>s, <3>2
  <2> QED
    BY <2>1, <2>2, <2>3, <1>t, <1>p, <1>c DEF TypeInv, TypeOK, Programs
<1>8. CASE Plug \/ Unplug \/ Garble
  <2>1. /\ chain' \in Chains
        /\ UNCHANGED <<tx, mods, num, init, connected, acc, cur, prim, started, events, cfg,
                       pc, msg, removed, shown, overlap, cut, stale, ub>>
    <3>1. <<>> \in Chains
      <4>1. <<>> \in [1..0 -> Mods] /\ 0 \in 0..MaxMods /\ \A i, j \in 1..0 : <<>>[i] = <<>>[j] => i = j
        BY ModsType
      <4> QED
        BY <4>1 DEF Chains
    <3> QED
      BY <1>8, <1>t, <3>1 DEF Plug, Unplug, Garble, table, flags, heap, hist
  <2>2. rx' \in Seq(Messages)
    <3>1. CASE Plug
      BY <3>1, <1>s DEF Plug
    <3>2. CASE Unplug
      BY <3>2, <1>t, Queues DEF Unplug
    <3>3. CASE Garble
      <4>1. rx' = <<Signal("bad")>> \o Tail(rx) /\ Tail(rx) \in Seq(Messages)
        BY <3>3, <1>r DEF Garble
      <4>2. <<Signal("bad")>> \in Seq(Messages)
        BY SignalTypes
      <4> QED
        BY <4>1, <4>2, ConcatProperties
    <3> QED
      BY <1>8, <3>1, <3>2, <3>3
  <2> QED
    BY <2>1, <2>2, <1>t, <1>p, <1>c DEF TypeInv, TypeOK, Programs
<1>9. CASE LoopConfigNum \/ Read
  <2>1. /\ events' \in 0..EventQ /\ cfg' \in Nat \ {0} /\ shown' \in [cfg : Nat, servs : Seq(Names), sure : BOOLEAN]
        /\ UNCHANGED <<chain, tx, rx, mods, num, init, connected, acc, cur, prim, started, pc, msg,
                       removed, overlap, cut, stale, ub>>
    <3>1. Services \in Seq(Names)
      BY <1>t DEF Services
    <3>2. [cfg |-> cfg, servs |-> Services, sure |-> TRUE] \in [cfg : Nat, servs : Seq(Names), sure : BOOLEAN]
      BY <1>t, <3>1
    <3>5. Unsure \in [cfg : Nat, servs : Seq(Names), sure : BOOLEAN]
      BY DEF Unsure
    <3>3. CASE LoopConfigNum
      BY <3>3, <1>t, ModsType DEF LoopConfigNum, bus, table, flags, hist
    <3>4. CASE Read
      BY <3>4, <1>t, <3>2, <3>5 DEF Read, bus, table, flags, heap, hist
    <3> QED
      BY <1>9, <3>3, <3>4
  <2> QED
    BY <2>1, <1>t, <1>p, <1>c DEF TypeInv, TypeOK, Programs
<1>10. CASE Restarts
  <2>0. Restart
    BY <1>10, Restarting
  <2>1. tx' \in Seq({"load", "hi"}) /\ rx' \in Seq(Messages) /\ msg' \in Messages
    BY <2>0, SignalTypes DEF Restart
  <2>2. mods' \in [1..MaxMods -> Names] /\ acc' \in [Objs -> [live : BOOLEAN, servs : Seq(Names)]]
    BY <2>0 DEF Restart, NoModules, Names, NoObjects
  <2>3. pc' \in [Tasks -> Steps] /\ Programs'
    BY <2>0 DEF Restart, AllIdle, Tasks, Steps, Programs, UartSteps, LiveSteps
  <2>4. /\ num' \in 0..255 /\ init' \in BOOLEAN /\ connected' \in BOOLEAN
        /\ cur' \in Objs \cup {None} /\ prim' \in Objs \cup {None}
        /\ started' \in BOOLEAN /\ events' \in 0..EventQ
        /\ removed' \in BOOLEAN /\ overlap' \in BOOLEAN /\ cut' \in BOOLEAN
        /\ stale' \in BOOLEAN /\ ub' \in BOOLEAN
        /\ shown' \in [cfg : Nat, servs : Seq(Names), sure : BOOLEAN]
        /\ UNCHANGED <<chain, cfg>>
    <3>1. 0 \in 0..EventQ /\ 0 \in 0..255
      BY ModsType
    <3>2. shown' = Unsure /\ Unsure \in [cfg : Nat, servs : Seq(Names), sure : BOOLEAN]
      <4>1. shown' = Unsure
        BY <2>0, Zenon DEF Restart
      <4> QED
        BY <4>1 DEF Unsure
    <3> QED
      BY <2>0, <3>1, <3>2 DEF Restart
  <2> QED
    BY <2>1, <2>2, <2>3, <2>4, <1>t, <1>c, Zenon DEF TypeInv, TypeOK
<1> QED
  BY Actions, <1>0, <1>1, <1>2, <1>3, <1>4, <1>5, <1>6, <1>7, <1>8, <1>9, <1>10, Zenon

\* The types of all variables, in every reachable state.
THEOREM TypeCorrect == Spec => []TypeInv
BY TypeInit, TypeStep, PTL DEF Spec

-----------------------------------------------------------------------------
(* The answers to LOAD *)

\* A link message that is not the first of its round follows the one of the next
\* higher address, and is handled after it.
Parses == count["garbles"] = 0
Later(m) == m.type = "link" /\ m.addr # m.total
Follows(a, b) == a.type = "link" /\ a.total = b.total /\ a.addr = b.addr + 1
InOrder ==
  \A i \in DOMAIN rx : Later(rx[i]) => Follows(IF i = 1 THEN msg ELSE rx[i - 1], rx[i])

\* From the first message of a round to the last the accessory is not initialized.
Mid == rx # <<>> /\ Later(rx[1])
Handling ==
  /\ Mid \/ pc["uart"] # "idle" => ~init
  /\ pc["uart"] # "idle" => msg.type = "link"
  /\ pc["uart"] \in {"del", "zero", "create"} => msg.addr = msg.total
  /\ pc["uart"] \in {"serv", "publish", "ready"} => msg.addr = 1
RoundInv == Parses => InOrder /\ Handling

\* Nothing was received at first.
LEMMA RoundInit == Init => RoundInv
BY DEF Init, AllIdle, Tasks, RoundInv, InOrder, Mid, Handling

\* Messages are only added behind those that wait, a round of them when no other
\* round is left.
LEMMA Received ==
  ASSUME TypeInv, BusTake \/ Plug \/ Unplug
  PROVE  /\ InOrder => InOrder'
         /\ Mid' => Mid /\ rx'[1] = rx[1]
         /\ UNCHANGED <<mods, num, init, acc, cur, prim, started, events, cfg, pc, msg, shown,
                        overlap, cut, stale, ub>>
<1>t. rx \in Seq(Messages) /\ rx' \in Seq(Messages) /\ chain \in Chains
  BY TypeStep DEF Next, TypeInv, TypeOK
<1>u. UNCHANGED <<mods, num, init, acc, cur, prim, started, events, cfg, pc, msg, shown, overlap, cut,
                  stale, ub>>
  BY Zenon DEF BusTake, Plug, Unplug, table, flags, heap, hist
\* Every message is an old one, or no later one of a round, or follows its predecessor.
<1>1. ASSUME NEW k \in 0..Len(rx), k <= Len(rx'), \A i \in 1..k : rx'[i] = rx[i],
             \A i \in (k + 1)..Len(rx') :
                Later(rx'[i]) => i > 1 /\ Follows(rx'[i - 1], rx'[i])
      PROVE  (InOrder => InOrder') /\ (Mid' => Mid /\ rx'[1] = rx[1])
  <2>1. ASSUME InOrder PROVE InOrder'
    <3> SUFFICES ASSUME NEW i \in 1..Len(rx'), Later(rx'[i])
                 PROVE  Follows(IF i = 1 THEN msg ELSE rx'[i - 1], rx'[i])
      BY <1>t, <1>u DEF InOrder
    <3>1. CASE i <= k
      <4>1. i \in 1..Len(rx) /\ rx'[i] = rx[i] /\ (i # 1 => rx'[i - 1] = rx[i - 1])
        BY <1>1, <1>t, <3>1
      <4> QED
        BY <4>1, <2>1, <1>t DEF InOrder
    <3>2. CASE ~(i <= k)
      BY <1>1, <3>2
    <3> QED
      BY <3>1, <3>2
  <2>2. ASSUME Mid' PROVE Mid /\ rx'[1] = rx[1]
    <3>1. 1 \in 1..Len(rx') /\ Later(rx'[1])
      BY <1>t, <2>2 DEF Mid
    <3>2. 1 <= k
      BY <1>1, <3>1
    <3>3. rx'[1] = rx[1] /\ rx # <<>>
      BY <1>1, <1>t, <3>2
    <3> QED
      BY <3>1, <3>3 DEF Mid
  <2> QED
    BY <2>1, <2>2
<1>l. Len(rx) \in 0..Len(rx)
  BY <1>t
<1>2. CASE rx' = rx
  <2>1. /\ Len(rx) <= Len(rx') /\ \A i \in 1..Len(rx) : rx'[i] = rx[i]
        /\ \A i \in (Len(rx) + 1)..Len(rx') : Later(rx'[i]) => i > 1 /\ Follows(rx'[i - 1], rx'[i])
    BY <1>2, <1>t
  <2> QED
    BY <2>1, <1>1, <1>l, <1>u, Zenon
<1>3. ASSUME NEW s \in {"req", "hi"}, rx' = Append(rx, Signal(s))
      PROVE  (InOrder => InOrder') /\ (Mid' => Mid /\ rx'[1] = rx[1])
  <2>1. Len(rx') = Len(rx) + 1 /\ rx'[Len(rx) + 1].type = s /\ \A i \in 1..Len(rx) : rx'[i] = rx[i]
    BY <1>3, <1>t, SignalTypes, Queues
  <2>2. \A i \in (Len(rx) + 1)..Len(rx') : ~Later(rx'[i])
    BY <2>1, <1>t DEF Later
  <2>3. Len(rx) <= Len(rx')
    BY <2>1, <1>t
  <2> QED
    BY <2>1, <2>2, <2>3, <1>1, <1>l, Zenon
<1>4. CASE BusTake /\ RoundOver /\ rx' = rx \o Round(chain)
  <2> DEFINE n == Len(rx)
             m == Len(Round(chain))
  <2>1. /\ n \in Nat /\ m \in Nat /\ Len(rx') = n + m /\ Round(chain) \in Seq(Messages)
        /\ \A i \in 1..m : /\ Round(chain)[i].type = "link" /\ Round(chain)[i].total = m
                           /\ Round(chain)[i].addr = m + 1 - i
        /\ \A i \in 1..(n + m) : rx'[i] = IF i <= n THEN rx[i] ELSE Round(chain)[i - n]
    BY <1>4, <1>t, ChainTypes, ConcatProperties
  <2> HIDE DEF n, m
  <2>2. ASSUME NEW i \in (n + 1)..(n + m) PROVE Later(rx'[i]) => i > 1 /\ Follows(rx'[i - 1], rx'[i])
    <3>1. i - n \in 1..m /\ i \in 1..(n + m) /\ rx'[i] = Round(chain)[i - n]
      BY <2>1, <2>2
    <3>2. rx'[i].type = "link" /\ rx'[i].total = m /\ rx'[i].addr = m + 1 - (i - n)
      BY <2>1, <3>1
    <3>3. CASE i = n + 1
      BY <2>1, <3>2, <3>3 DEF Later
    <3>4. CASE i # n + 1
      <4>1. i - 1 \in 1..(n + m) /\ ~(i - 1 <= n) /\ (i - 1) - n \in 1..m /\ i > 1
        BY <2>1, <2>2, <3>4
      <4>2. rx'[i - 1] = Round(chain)[(i - 1) - n]
        BY <2>1, <4>1
      <4>3. rx'[i - 1].type = "link" /\ rx'[i - 1].total = m /\ rx'[i - 1].addr = m + 1 - ((i - 1) - n)
        BY <2>1, <4>1, <4>2
      <4> QED
        BY <2>1, <3>2, <4>1, <4>3 DEF Follows
    <3> QED
      BY <3>3, <3>4
  <2>3. n \in 0..Len(rx) /\ n <= Len(rx') /\ \A i \in 1..n : rx'[i] = rx[i]
    BY <2>1, <1>t DEF n
  <2>4. \A i \in (n + 1)..Len(rx') : Later(rx'[i]) => i > 1 /\ Follows(rx'[i - 1], rx'[i])
    BY <2>1, <2>2
  <2> QED
    BY <2>3, <2>4, <1>1, <1>u, Zenon
<1>5. CASE Unplug
  <2>1. PICK n \in 0..Len(rx) : rx' = SubSeq(rx, 1, n)
    BY <1>5 DEF Unplug
  <2>2. Len(rx') = n /\ \A i \in 1..n : rx'[i] = rx[i]
    BY <2>1, <1>t, Queues
  <2>3. /\ n <= Len(rx')
        /\ \A i \in (n + 1)..Len(rx') : Later(rx'[i]) => i > 1 /\ Follows(rx'[i - 1], rx'[i])
    BY <2>2
  <2> QED
    BY <2>2, <2>3, <1>1, <1>u, Zenon
<1>6. CASE Plug
  BY <1>6, <1>3, <1>u, Zenon DEF Plug
<1>7. CASE BusTake
  <2>1. rx' = rx \/ rx' = Append(rx, Signal("hi")) \/ (RoundOver /\ rx' = rx \o Round(chain))
    BY <1>7 DEF BusTake
  <2> QED
    BY <2>1, <1>2, <1>3, <1>4, <1>7, <1>u, Zenon
<1> QED
  BY <1>5, <1>6, <1>7, <1>u

\* What a task does leaves the other one where it is.
LEMMA Moves ==
  ASSUME TypeInv
  PROVE  /\ \A t \in Tasks : TaskStep(t) =>
                /\ UNCHANGED <<rx, msg, mods, init, cfg, shown, overlap, cut, count>>
                /\ \A u \in Tasks : u # t => pc'[u] = pc[u]
         /\ SendHi \/ Mark \/ Check \/ Reload =>
              /\ UNCHANGED <<rx, msg, mods, num, init, acc, cur, prim, started, events, cfg, shown, cut, stale, ub>>
              /\ pc'["uart"] = pc["uart"]
              /\ pc["live"] \notin Removal
              /\ pc'["live"] \in {"idle", "mark", "wait", "del", "reload"}
         /\ RecvSignal \/ RecvLink \/ AddModule \/ Ready =>
              /\ UNCHANGED <<acc, cur, prim, started, events, cfg, shown, stale, ub, count>>
              /\ pc'["live"] = pc["live"]
         /\ LoopConfigNum \/ Read =>
              UNCHANGED <<rx, msg, mods, num, init, acc, cur, prim, started, pc, overlap, cut, stale, ub, count>>
<1>p. pc \in [Tasks -> Steps] /\ Tasks = {"uart", "live"}
  BY DEF TypeInv, TypeOK, Tasks
<1>1. ASSUME NEW t \in Tasks, TaskStep(t)
      PROVE  /\ UNCHANGED <<rx, msg, mods, init, cfg, shown, overlap, cut, count>>
             /\ \A u \in Tasks : u # t => pc'[u] = pc[u]
  <2>1. UNCHANGED <<rx, msg, mods, init, cfg, shown, overlap, cut, count>>
    BY <1>1, Zenon DEF TaskStep, DeleteAccessory, ZeroModules, CreateAccessory, AddServices, Publish,
                       bus, table, flags, hist
  <2>2. \E step : Go(t, step)
    BY <1>1, Zenon DEF TaskStep, DeleteAccessory, ZeroModules, CreateAccessory, AddServices, Publish
  <2> QED
    BY <1>p, <2>1, <2>2 DEF Go
<1>2. ASSUME SendHi \/ Mark \/ Check \/ Reload
      PROVE  /\ UNCHANGED <<rx, msg, mods, num, init, acc, cur, prim, started, events, cfg, shown, cut, stale, ub>>
             /\ pc'["uart"] = pc["uart"] /\ pc["live"] \notin Removal
             /\ pc'["live"] \in {"idle", "mark", "wait", "del", "reload"}
  <2>1. UNCHANGED <<rx, msg, mods, num, init, acc, cur, prim, started, events, cfg, shown, cut, stale, ub>>
    BY <1>2, Zenon DEF SendHi, Mark, Check, Reload, bus, table, flags, heap, hist
  <2>2. /\ pc["live"] \in {"idle", "mark", "wait", "reload"}
        /\ \E step \in {"idle", "mark", "wait", "del", "reload"} : Go("live", step)
    BY <1>2 DEF SendHi, Mark, Check, Reload
  <2> QED
    BY <1>p, <2>1, <2>2 DEF Go, Removal
<1>3. ASSUME RecvSignal \/ RecvLink \/ AddModule \/ Ready
      PROVE  /\ UNCHANGED <<acc, cur, prim, started, events, cfg, shown, stale, ub, count>>
             /\ pc'["live"] = pc["live"]
  <2>1. UNCHANGED <<acc, cur, prim, started, events, cfg, shown, stale, ub, count>>
    BY <1>3, Zenon DEF RecvSignal, RecvLink, AddModule, Ready, heap, hist
  <2>2. UNCHANGED pc \/ \E step : Go("uart", step)
    BY <1>3, Zenon DEF RecvSignal, RecvLink, AddModule, Ready
  <2> QED
    BY <1>p, <2>1, <2>2 DEF Go
<1>4. ASSUME LoopConfigNum \/ Read
      PROVE  UNCHANGED <<rx, msg, mods, num, init, acc, cur, prim, started, pc, overlap, cut, stale, ub, count>>
  BY <1>4, Zenon DEF LoopConfigNum, Read, bus, table, flags, heap, hist
<1> QED
  BY <1>1, <1>2, <1>3, <1>4, Zenon

\* A signal ends a round; a link message becomes the one that the next follows.
LEMMA Fetched ==
  ASSUME TypeInv, InOrder
  PROVE  /\ RecvSignal => InOrder' /\ ~Mid' /\ ~Mid
         /\ RecvLink => /\ InOrder' /\ msg' = rx[1] /\ msg'.type = "link"
                        /\ Mid' => Follows(rx[1], rx'[1])
                        /\ Mid <=> rx[1].addr # rx[1].total
<1>t. rx \in Seq(Messages)
  BY DEF TypeInv, TypeOK
<1>1. ASSUME rx # <<>>, rx' = Tail(rx)
      PROVE  /\ Len(rx') = Len(rx) - 1 /\ rx' \in Seq(Messages) /\ Head(rx) = rx[1]
             /\ \A i \in DOMAIN rx' : Later(rx'[i]) => Follows(rx[i], rx'[i])
             /\ \A i \in DOMAIN rx' : i # 1 => rx'[i - 1] = rx[i]
             /\ rx' # <<>> => 1 \in DOMAIN rx'
  <2>1. /\ rx' \in Seq(Messages) /\ Len(rx') = Len(rx) - 1 /\ Len(rx) \in Nat
        /\ \A i \in 1..(Len(rx) - 1) : rx'[i] = rx[i + 1]
        /\ Head(rx) = rx[1]
    BY <1>1, <1>t, Queues
  <2>2. ASSUME NEW i \in 1..(Len(rx) - 1)
        PROVE  (Later(rx'[i]) => Follows(rx[i], rx'[i])) /\ (i # 1 => rx'[i - 1] = rx[i])
    <3>1. i + 1 \in DOMAIN rx /\ i + 1 # 1 /\ (i + 1) - 1 = i /\ rx'[i] = rx[i + 1]
      BY <1>t, <2>1
    <3>2. Later(rx'[i]) => Follows(rx[i], rx'[i])
      BY <3>1 DEF InOrder
    <3>3. i # 1 => i - 1 \in 1..(Len(rx) - 1) /\ (i - 1) + 1 = i
      BY <2>1
    <3> QED
      BY <2>1, <3>2, <3>3
  <2>3. DOMAIN rx' = 1..(Len(rx) - 1) /\ (rx' # <<>> => Len(rx') > 0)
    BY <2>1
  <2> QED
    BY <2>1, <2>2, <2>3
<1>2. CASE RecvSignal
  <2>1. rx # <<>> /\ rx' = Tail(rx) /\ Head(rx).type # "link" /\ UNCHANGED msg
    BY <1>2 DEF RecvSignal
  <2>2. rx[1].type # "link" /\ ~Mid
    BY <2>1, <1>1 DEF Mid, Later
  <2>3. ASSUME NEW i \in DOMAIN rx', Later(rx'[i])
        PROVE  i # 1 /\ Follows(rx'[i - 1], rx'[i])
    <3>1. Follows(rx[i], rx'[i])
      BY <1>1, <2>1, <2>3
    <3>2. i # 1
      BY <3>1, <2>2 DEF Follows
    <3> QED
      BY <1>1, <2>1, <2>3, <3>1, <3>2
  <2>4. InOrder'
    BY <2>3 DEF InOrder
  <2>5. ~Mid'
    BY <2>1, <2>3, <1>1 DEF Mid
  <2> QED
    BY <2>2, <2>4, <2>5, <1>2 DEF RecvLink, RecvSignal
<1>3. CASE RecvLink
  <2>1. rx # <<>> /\ rx' = Tail(rx) /\ Head(rx).type = "link" /\ msg' = Head(rx)
    BY <1>3 DEF RecvLink
  <2>2. rx[1].type = "link" /\ msg' = rx[1]
    BY <2>1, <1>1
  <2>3. ASSUME NEW i \in DOMAIN rx', Later(rx'[i])
        PROVE  Follows(IF i = 1 THEN msg' ELSE rx'[i - 1], rx'[i])
    BY <1>1, <2>1, <2>2, <2>3
  <2>4. InOrder'
    BY <2>3 DEF InOrder
  <2>5. Mid' => Follows(rx[1], rx'[1])
    BY <2>1, <1>1 DEF Mid
  <2>6. Mid <=> rx[1].addr # rx[1].total
    BY <2>1, <2>2 DEF Mid, Later
  <2> QED
    BY <2>2, <2>4, <2>5, <2>6, <1>3 DEF RecvLink, RecvSignal
<1> QED
  BY <1>2, <1>3

\* What was counted stays counted.
LEMMA Counting ==
  ASSUME TypeInv, [Next]_vars
  PROVE  Parses' => Parses /\ ~Garble
<1>c. count \in [Counters -> Nat] /\ "garbles" \in Counters
  BY DEF TypeInv, CountType, Counters
<1>1. UNCHANGED count \/ \E c \in Counters : Once(c)
  BY Actions DEF vars, TaskStep, DeleteAccessory, ZeroModules, CreateAccessory, AddServices, Publish,
     RecvSignal, RecvLink, AddModule, Ready, SendHi, Mark, Check, Reload, BusTake,
     LoopConfigNum, Plug, Unplug, Garble, Read, Restarts, Boot, CountFaults, ReadFaults, Counters
<1>2. \A d \in Counters : count[d] \in Nat /\ count'[d] \in Nat /\ count'[d] >= count[d]
  <2>1. CountType' /\ \A d \in Counters : count'[d] >= count[d]
    BY <1>1, OnceType DEF Counters
  <2> QED
    BY <2>1, <1>c DEF CountType
<1>3. Garble => count'["garbles"] # 0
  BY <1>c DEF Garble, Once
<1> QED
  BY <1>c, <1>2, <1>3 DEF Parses

\* Every step keeps the rounds in order, as long as every message parses.
LEMMA RoundStep == TypeInv /\ RoundInv /\ [Next]_vars => RoundInv'
<1> SUFFICES ASSUME TypeInv, RoundInv, [Next]_vars, Parses' PROVE InOrder' /\ Handling'
  BY DEF RoundInv
<1>g. Parses /\ ~Garble /\ InOrder /\ Handling
  BY Counting DEF RoundInv
<1>t. /\ rx \in Seq(Messages) /\ msg \in Messages /\ pc \in [Tasks -> Steps]
      /\ Tasks = {"uart", "live"} /\ TypeInv'
  BY TypeStep DEF TypeInv, TypeOK, Tasks
\* A step of the other task or the HomeKit loop.
<1>q. ASSUME UNCHANGED <<rx, msg, init>>, pc'["uart"] = pc["uart"]
      PROVE  InOrder' /\ Handling'
  BY <1>q, <1>g DEF InOrder, Handling, Mid
<1>0. CASE UNCHANGED vars
  BY <1>0, <1>q DEF vars, bus, flags
<1>1. ASSUME NEW t \in Tasks, TaskStep(t)
      PROVE  InOrder' /\ Handling'
  <2>1. UNCHANGED <<rx, msg, init>> /\ \A u \in Tasks : u # t => pc'[u] = pc[u]
    BY <1>1, Moves
  <2>2. CASE t = "live"
    BY <2>1, <2>2, <1>q, <1>t
  <2>3. CASE t = "uart"
    <3>1. InOrder' /\ Mid' = Mid
      BY <2>1, <1>g DEF InOrder, Mid
    <3>2. pc["uart"] # "idle" /\ ~init /\ msg.type = "link"
      BY <1>1, <2>3, <1>g DEF TaskStep, DeleteAccessory, ZeroModules, CreateAccessory, AddServices, Publish,
                              Handling
    <3>3. pc'["uart"] \in {"zero", "create"} => pc["uart"] \in {"del", "zero"}
      BY <1>1, <2>3, <1>t DEF TaskStep, DeleteAccessory, ZeroModules, CreateAccessory, AddServices, Publish, Go
    <3>4. pc'["uart"] \in {"serv", "publish", "ready"} => pc["uart"] \in {"serv", "publish"}
      BY <1>1, <2>3, <1>t DEF TaskStep, DeleteAccessory, ZeroModules, CreateAccessory, AddServices, Publish, Go
    <3>5. pc'["uart"] # "del"
      BY <1>1, <2>3, <1>t DEF TaskStep, DeleteAccessory, ZeroModules, CreateAccessory, AddServices, Publish, Go
    <3> QED
      BY <2>1, <3>1, <3>2, <3>3, <3>4, <3>5, <1>g DEF Handling
  <2> QED
    BY <1>t, <2>2, <2>3
<1>2. CASE RecvSignal
  <2>1. InOrder' /\ ~Mid' /\ UNCHANGED <<msg, init, pc>> /\ pc["uart"] = "idle"
    BY <1>2, <1>g, Fetched DEF RecvSignal
  <2> QED
    BY <2>1, <1>g DEF Handling
<1>3. CASE RecvLink
  <2>1. InOrder' /\ msg' = rx[1] /\ msg'.type = "link" /\ (Mid <=> rx[1].addr # rx[1].total)
    BY <1>3, <1>g, Fetched
  <2>2. Head(rx) = rx[1] /\ rx # <<>>
    BY <1>3, <1>t DEF RecvLink
  <2>3. CASE rx[1].addr = rx[1].total
    <3>1. ~init' /\ pc'["uart"] = "del"
      BY <1>3, <2>2, <2>3, <1>t DEF RecvLink, Go
    <3> QED
      BY <2>1, <2>3, <3>1 DEF Handling
  <2>4. CASE rx[1].addr # rx[1].total
    <3>1. UNCHANGED init /\ pc'["uart"] = "add"
      BY <1>3, <2>2, <2>4, <1>t DEF RecvLink, Go
    <3>2. ~init
      BY <2>1, <2>4, <1>g DEF Handling
    <3> QED
      BY <2>1, <3>1, <3>2 DEF Handling
  <2> QED
    BY <2>3, <2>4
<1>4. CASE AddModule
  <2>1. UNCHANGED <<rx, msg, init>> /\ pc["uart"] = "add"
    BY <1>4 DEF AddModule, bus, flags
  <2>2. pc'["uart"] = IF msg.addr = 1 THEN "serv" ELSE "idle"
    BY <1>4, <1>t DEF AddModule, Go
  <2>3. InOrder' /\ ~init /\ msg.type = "link"
    BY <2>1, <1>g DEF InOrder, Handling
  <2> QED
    BY <2>1, <2>2, <2>3 DEF Handling
<1>5. CASE Ready
  <2>1. UNCHANGED <<rx, msg>> /\ pc["uart"] = "ready" /\ pc'["uart"] = "idle"
    BY <1>5, <1>t DEF Ready, Go, bus
  <2>2. InOrder' /\ msg.addr = 1
    BY <2>1, <1>g DEF InOrder, Handling
  <2>3. ASSUME Mid PROVE FALSE
    <3>1. rx # <<>> /\ 1 \in DOMAIN rx /\ Later(rx[1])
      BY <2>3, <1>t DEF Mid
    <3>2. Follows(msg, rx[1])
      BY <3>1, <1>g DEF InOrder
    <3>3. rx[1].addr \in 1..MaxMods
      BY <3>1, <1>t, MessageTypes
    <3> QED
      BY <2>2, <3>2, <3>3, ModsType DEF Follows
  <2>4. ~Mid'
    BY <2>1, <2>3 DEF Mid
  <2> QED
    BY <2>1, <2>2, <2>4 DEF Handling
<1>6. CASE SendHi \/ Mark \/ Check \/ Reload
  BY <1>6, <1>q, Moves
<1>7. CASE BusTake \/ Plug \/ Unplug
  <2>1. InOrder' /\ (Mid' => Mid) /\ UNCHANGED <<init, pc, msg>>
    BY <1>7, <1>g, Received
  <2> QED
    BY <2>1, <1>g DEF Handling
<1>8. CASE LoopConfigNum \/ Read
  BY <1>8, <1>q, Moves
<1>9. CASE Restarts
  <2>1. rx' = <<>> /\ pc'["uart"] = "idle"
    BY <1>9, Restarting DEF Restart, AllIdle, Tasks
  <2> QED
    BY <2>1 DEF InOrder, Handling, Mid
<1> QED
  BY Actions, <1>g, <1>0, <1>1, <1>2, <1>3, <1>4, <1>5, <1>6, <1>7, <1>8, <1>9, Zenon

-----------------------------------------------------------------------------
(* The accessory *)

\* Short of an overlap moduleLiveCheck() rebuilds while nothing is linked.
Apart == pc["live"] \in Removal => pc["uart"] = "idle" /\ init

\* The accessory is taking up modules; it has its services, or is published.
Building == pc["uart"] \in {"add", "serv"} \/ pc["live"] = "serv" \/ (pc["uart"] = "idle" /\ Mid)
Built == pc["uart"] \in {"publish", "ready"} \/ pc["live"] = "publish" \/ Standing

\* The modules are counted as they are linked.
Numbered ==
  /\ pc["uart"] = "create" => num = 0
  /\ pc["uart"] = "add" => num = msg.total - msg.addr
  /\ pc["uart"] \in {"serv", "publish", "ready"} => num = msg.total
  /\ pc["uart"] = "idle" /\ Mid => num = msg.total - rx[1].addr
  /\ pc["live"] \in {"create", "serv", "publish"} => num = 0
  /\ Standing => num \in 0..MaxMods

\* The object that cur points to lives, but between its deletion and the creation
\* of the next, and has no service until it gets all of them.  It is the one the
\* core has when it is to be deleted, unless a round was cut off: only then is a
\* freed accessory followed, and only from it may a rebuild run astray.
Cleared == \E t \in Tasks : pc[t] \in {"zero", "create"}
Alive ==
  /\ (ub => stale) /\ (stale => cut)
  /\ cur = None => prim = None
  /\ ~cut => \A t \in Tasks : pc[t] = "del" => prim \in {None, cur}
  /\ cur = None \/ acc[cur].live \/ Cleared
  /\ Building => cur # None /\ acc[cur] = [live |-> TRUE, servs |-> <<>>]
  /\ Built => cur # None /\ acc[cur] = [live |-> TRUE, servs |-> Linked]
  /\ pc["uart"] = "ready" \/ Standing => prim = cur /\ started

HeapInv == Parses /\ ~overlap => Apart /\ Numbered /\ Alive

\* No accessory at first.
LEMMA HeapInit == Init => HeapInv
BY DEF Init, AllIdle, Tasks, Removal, HeapInv, Apart, Standing, Building, Built, Mid, Numbered,
       Cleared, Alive

\* The calls of a rebuild, whichever task makes them.
LEMMA TaskHeap ==
  ASSUME TypeInv, Handling, Apart, Numbered, Alive, NEW t \in Tasks, TaskStep(t)
  PROVE  Apart' /\ Numbered' /\ Alive'
<1>t. /\ pc \in [Tasks -> Steps] /\ Tasks = {"uart", "live"}
      /\ acc \in [Objs -> [live : BOOLEAN, servs : Seq(Names)]]
      /\ cur \in Objs \cup {None} /\ None \notin Objs
      /\ Linked \in Seq(Names) /\ MaxMods \in Nat
  BY LinkedType, ModsType, ModuleBusAssumption DEF TypeInv, TypeOK, Tasks
<1>u. UNCHANGED <<rx, msg, mods, init>> /\ \A u \in Tasks : u # t => pc'[u] = pc[u]
  BY Moves
<1>v. UNCHANGED cut /\ (stale' = stale \/ DeleteAccessory(t))
  BY Zenon DEF TaskStep, DeleteAccessory, ZeroModules, CreateAccessory, AddServices, Publish, hist
<1>m. Mid' = Mid
  BY <1>u DEF Mid
<1>p. pc[t] \in Removal
  BY DEF TaskStep, DeleteAccessory, ZeroModules, CreateAccessory, AddServices, Publish, Removal
\* The other task is not among them, and no accessory is published.
<1>o. /\ t = "uart" => pc["live"] \notin Removal /\ ~init
      /\ t = "live" => pc["uart"] = "idle" /\ init /\ ~Mid
      /\ ~Standing
  <2>1. CASE t = "uart"
    <3>1. pc["uart"] # "idle"
      BY <1>p, <2>1 DEF Removal
    <3> QED
      BY <3>1, <2>1 DEF Apart, Handling, Standing
  <2>2. CASE t = "live"
    <3>1. pc["uart"] = "idle" /\ init
      BY <1>p, <2>2 DEF Apart
    <3> QED
      BY <3>1, <1>p, <2>2 DEF Handling, Standing
  <2> QED
    BY <1>t, <2>1, <2>2
<1>a. Apart'
  BY <1>t, <1>u, <1>o DEF Apart
<1>s. Standing' <=> t = "live" /\ pc'["live"] \notin Removal
  BY <1>t, <1>u, <1>o DEF Standing
<1>d. \A u \in Tasks : pc'[u] # "del"
  <2>1. pc'[t] # "del"
    BY <1>t DEF TaskStep, DeleteAccessory, ZeroModules, CreateAccessory, AddServices, Publish, Go
  <2>2. \A u \in Tasks : u # t => pc[u] # "del"
    BY <1>o, <1>t DEF Removal
  <2> QED
    BY <1>u, <2>1, <2>2
<1>1. CASE DeleteAccessory(t)
  <2>1. pc[t] = "del" /\ pc'[t] = "zero" /\ UNCHANGED <<num, cur>>
    BY <1>1, <1>t DEF DeleteAccessory, Go, table
  <2>2. cur = None \/ acc[cur].live
    BY <2>1, <1>t, <1>o DEF Alive, Cleared, Removal
  <2>7. Dangling => cut
    BY <2>1, <2>2 DEF Alive, Dangling
  <2>3. (ub' => stale') /\ (stale' => cut') /\ UNCHANGED prim
    <3>1. stale' = (stale \/ Dangling) /\ UNCHANGED <<prim, cut>>
      BY <1>1, Zenon DEF DeleteAccessory
    <3>2. ub' => ub \/ (cur # None /\ ~acc[cur].live) \/ Dangling
      BY <1>1, Zenon DEF DeleteAccessory
    <3>3. (ub => stale) /\ (stale => cut)
      BY Zenon DEF Alive
    <3> QED
      BY <2>2, <2>7, <3>1, <3>2, <3>3, Zenon
  <2>4. ~Standing' /\ ~Building' /\ ~Built' /\ Cleared'
    BY <2>1, <1>t, <1>u, <1>m, <1>o, <1>s DEF Building, Built, Cleared, Removal
  <2>5. Numbered'
    BY <2>1, <2>4, <1>t, <1>u, <1>m, <1>o DEF Numbered, Removal
  <2>6. Alive'
    BY <1>d, <1>v, <2>1, <2>3, <2>4, <1>t, <1>u, <1>o DEF Alive, Removal
  <2> QED
    BY <1>a, <2>5, <2>6
<1>2. CASE ZeroModules(t)
  <2>1. pc[t] = "zero" /\ pc'[t] = "create" /\ num' = 0 /\ UNCHANGED <<stale, ub, cur, acc, prim, started>>
    BY <1>2, <1>t DEF ZeroModules, Go, heap, hist
  <2>2. ~Standing' /\ ~Building' /\ ~Built' /\ Cleared'
    BY <2>1, <1>t, <1>u, <1>m, <1>o, <1>s DEF Building, Built, Cleared, Removal
  <2>3. Numbered'
    BY <2>1, <2>2, <1>t, <1>u, <1>m, <1>o DEF Numbered, Removal
  <2>4. Alive'
    BY <1>d, <1>v, <2>1, <2>2, <1>t, <1>u, <1>o DEF Alive, Removal
  <2> QED
    BY <1>a, <2>3, <2>4
<1>3. CASE CreateAccessory(t)
  <2>1. /\ pc[t] = "create" /\ pc'[t] = (IF t = "uart" THEN "add" ELSE "serv")
        /\ UNCHANGED <<num, stale, ub, prim, started>>
    BY <1>3, <1>t DEF CreateAccessory, Go, table, hist
  <2>2. PICK o \in Objs : cur' = o /\ acc' = [acc EXCEPT ![o] = [live |-> TRUE, servs |-> <<>>]]
    BY <1>3 DEF CreateAccessory, Blocks
  <2>3. cur' # None /\ acc'[cur'] = [live |-> TRUE, servs |-> <<>>]
    BY <2>2, <1>t
  <2>4. ~Standing' /\ ~Built'
    BY <2>1, <1>t, <1>u, <1>m, <1>o, <1>s DEF Built, Removal
  <2>5. Numbered'
    <3>1. t = "uart" => num = 0 /\ msg.total = msg.addr
      BY <2>1 DEF Numbered, Handling
    <3>2. t = "live" => num = 0
      BY <2>1 DEF Numbered
    <3>3. msg.total \in 1..MaxMods
      BY MessageTypes DEF TypeInv, TypeOK
    <3> QED
      BY <2>1, <2>4, <3>1, <3>2, <3>3, <1>t, <1>u, <1>m, <1>o DEF Numbered, Removal
  <2>6. pc'["uart"] # "ready"
    BY <2>1, <1>t, <1>u, <1>o
  <2>7. Alive'
    BY <1>d, <1>v, <2>1, <2>3, <2>4, <2>6, <1>t DEF Alive
  <2> QED
    BY <1>a, <2>5, <2>7
<1>4. CASE AddServices(t)
  <2>1. pc[t] = "serv" /\ pc'[t] = "publish" /\ UNCHANGED <<num, stale, cur, prim, started>>
    BY <1>4, <1>t DEF AddServices, Go, table
  <2>2. cur \in Objs /\ acc[cur] = [live |-> TRUE, servs |-> <<>>]
    <3>1. Building
      BY <2>1, <1>t DEF Building
    <3> QED
      BY <3>1, <1>t DEF Alive
  <2>3. UNCHANGED ub /\ acc' = [acc EXCEPT ![cur].servs = acc[cur].servs \o Linked]
    BY <1>4, <2>2, <1>t DEF AddServices
  <2>4. acc'[cur] = [live |-> TRUE, servs |-> Linked]
    <3>1. acc'[cur] = [acc[cur] EXCEPT !.servs = acc[cur].servs \o Linked]
      BY <2>2, <2>3, <1>t
    <3>2. acc[cur].servs = <<>> /\ <<>> \o Linked = Linked
      BY <2>2, <1>t
    <3>3. acc'[cur].live = TRUE /\ acc'[cur].servs = Linked
      BY <2>2, <3>1, <3>2, <1>t
    <3>4. acc'[cur] \in [live : BOOLEAN, servs : Seq(Names)]
      BY <2>2, <1>t, TaskTypes DEF TypeInv, TypeOK
    <3> QED
      BY <3>3, <3>4
  <2>5. Linked' = Linked
    BY <2>1, <1>u DEF Linked
  <2>6. ~Standing' /\ ~Building'
    BY <2>1, <1>t, <1>u, <1>m, <1>o, <1>s DEF Building, Removal
  <2>7. Numbered'
    BY <2>1, <2>6, <1>t, <1>u, <1>m, <1>o DEF Numbered, Removal
  <2>8. pc'["uart"] # "ready"
    BY <2>1, <1>t, <1>u, <1>o
  <2>9. Alive'
    BY <1>d, <1>v, <2>1, <2>2, <2>3, <2>4, <2>5, <2>6, <2>8, <1>t DEF Alive
  <2> QED
    BY <1>a, <2>7, <2>9
<1>5. CASE Publish(t)
  <2>1. /\ pc[t] = "publish" /\ pc'[t] = (IF t = "uart" THEN "ready" ELSE "reload")
        /\ UNCHANGED <<num, cur, acc, stale, ub>> /\ started' /\ prim' = (IF cur = None THEN prim ELSE cur)
    BY <1>5, <1>t DEF Publish, Go, table, hist
  <2>2. cur # None /\ acc[cur] = [live |-> TRUE, servs |-> Linked]
    <3>1. Built
      BY <2>1, <1>t DEF Built
    <3> QED
      BY <3>1 DEF Alive
  <2>3. Linked' = Linked
    BY <2>1, <1>u DEF Linked
  <2>4. ~Building'
    BY <2>1, <1>t, <1>u, <1>m, <1>o DEF Building, Removal
  <2>5. Numbered'
    BY <2>1, <1>t, <1>u, <1>m, <1>o, <1>s DEF Numbered, Removal
  <2>6. Alive'
    BY <1>d, <1>v, <2>1, <2>2, <2>3, <2>4, <1>t DEF Alive
  <2> QED
    BY <1>a, <2>5, <2>6
<1> QED
  BY <1>1, <1>2, <1>3, <1>4, <1>5 DEF TaskStep

\* A restart forgets an overlap, nothing else does.
LEMMA Overlapping ==
  ASSUME [Next]_vars, ~Restarts, ~overlap'
  PROVE  ~overlap
<1>1. overlap' = overlap \/ RecvLink \/ Check
  BY Actions, Zenon DEF vars, hist, TaskStep, DeleteAccessory, ZeroModules, CreateAccessory, AddServices,
     Publish, RecvSignal, AddModule, Ready, SendHi, Mark, Reload, BusTake,
     LoopConfigNum, Plug, Unplug, Garble, Read
<1>2. ASSUME RecvLink PROVE ~overlap
  BY <1>2, Zenon DEF RecvLink
<1>3. ASSUME Check PROVE ~overlap
  BY <1>3, Zenon DEF Check
<1> QED
  BY <1>1, <1>2, <1>3, Zenon

\* Every step keeps the accessory whole, while rebuilds do not overlap.
LEMMA HeapStep == TypeInv /\ RoundInv /\ HeapInv /\ [Next]_vars => HeapInv'
<1> SUFFICES ASSUME TypeInv, RoundInv, HeapInv, [Next]_vars, Parses', ~overlap'
             PROVE  Apart' /\ Numbered' /\ Alive'
  BY Zenon DEF HeapInv
<1>b. CASE Restarts
  BY <1>b, Restarting, ModsType DEF Restart, AllIdle, Tasks, Removal, Apart, Standing, Building, Built, Mid,
                        Numbered, Cleared, Alive
<1> SUFFICES ASSUME ~Restarts PROVE Apart' /\ Numbered' /\ Alive'
  BY <1>b
<1>g. Parses /\ ~Garble /\ InOrder /\ Handling /\ Apart /\ Numbered /\ Alive
  BY Counting, Overlapping, Zenon DEF RoundInv, HeapInv
<1>h. TypeInv' /\ Handling'
  BY TypeStep, RoundStep DEF RoundInv
<1>t. /\ pc \in [Tasks -> Steps] /\ Tasks = {"uart", "live"}
      /\ rx \in Seq(Messages) /\ msg \in Messages
      /\ msg.addr \in 1..MaxMods /\ msg.total \in 1..MaxMods /\ MaxMods \in 1..254
  BY ModsType, MessageTypes DEF TypeInv, TypeOK, Tasks
<1>k. ASSUME UNCHANGED <<acc, cur, prim, started, stale, ub, num, mods>>
      PROVE  Linked' = Linked
  BY <1>k DEF Linked
\* A step that touches neither the table nor the accessory.
<1>q. ASSUME UNCHANGED <<acc, cur, prim, started, cut, stale, ub, num, mods, init, msg>>,
             pc'["uart"] = pc["uart"], Mid' => Mid /\ rx'[1] = rx[1],
             \/ pc'["live"] = pc["live"]
             \/ pc["live"] \notin Removal /\ pc'["live"] \notin Removal
             \/ pc["live"] \notin Removal /\ pc'["live"] = "del" /\ pc["uart"] = "idle" /\ init
      PROVE  Apart' /\ Numbered' /\ Alive'
  <2>1. Apart'
    BY <1>q, <1>g DEF Apart
  <2>2. (Standing' => Standing) /\ (Building' => Building) /\ (Built' => Built)
    BY <1>q DEF Standing, Building, Built, Removal
  <2>3. Numbered'
    BY <1>q, <1>g, <2>2 DEF Numbered, Removal
  <2>4. Cleared => Cleared'
    BY <1>q, <1>t DEF Cleared, Removal
  <2>6. \A u \in Tasks : pc'[u] = "del" /\ ~cut' => prim' \in {None, cur'}
    <3>1. ASSUME Standing PROVE prim = cur
      BY <3>1, <1>g DEF Alive
    <3>2. pc["live"] \notin Removal /\ pc["uart"] = "idle" /\ init => Standing
      BY DEF Standing
    <3> QED
      BY <1>q, <1>g, <1>t, <3>1, <3>2 DEF Alive, Removal
  <2>5. Alive'
    BY <1>q, <1>g, <1>k, <2>2, <2>4, <2>6 DEF Alive
  <2> QED
    BY <2>1, <2>3, <2>5
<1>0. CASE UNCHANGED vars
  <2>1. UNCHANGED <<acc, cur, prim, started, cut, stale, ub, num, mods, init, msg, pc, rx>>
    BY <1>0, Zenon DEF vars, bus, table, flags, heap, hist
  <2> QED
    BY <2>1, <1>q DEF Mid
<1>1. ASSUME NEW t \in Tasks, TaskStep(t)
      PROVE  Apart' /\ Numbered' /\ Alive'
  BY <1>1, <1>g, TaskHeap
<1>2. CASE RecvSignal
  <2>1. UNCHANGED <<acc, cur, prim, started, cut, stale, ub, num, mods, init, msg, pc>> /\ ~Mid'
    BY <1>2, <1>g, Fetched DEF RecvSignal, table, heap, hist
  <2> QED
    BY <2>1, <1>q
<1>3. CASE RecvLink
  <2>1. /\ UNCHANGED <<acc, cur, prim, started, stale, ub, num, mods>> /\ pc["uart"] = "idle"
        /\ pc'["live"] = pc["live"] /\ Head(rx) = rx[1] /\ rx # <<>> /\ rx[1] \in Messages
    <3>1. UNCHANGED <<num, mods>> /\ pc["uart"] = "idle" /\ rx # <<>>
      BY <1>3 DEF RecvLink, table
    <3>2. UNCHANGED <<acc, cur, prim, started, stale, ub>> /\ pc'["live"] = pc["live"]
      BY <1>3, Moves
    <3> QED
      BY <3>1, <3>2, <1>t
  <2>2. pc["live"] \notin Removal
    BY <1>3 DEF RecvLink
  <2>3. Apart'
    BY <2>1, <2>2 DEF Apart
  <2>4. msg' = rx[1] /\ (Mid <=> rx[1].addr # rx[1].total)
    BY <1>3, <1>g, Fetched
  <2>5. cur = None \/ acc[cur].live
    BY <2>1, <2>2, <1>g, <1>t DEF Alive, Cleared, Removal
  <2>6. CASE rx[1].addr = rx[1].total
    <3>1. pc'["uart"] = "del"
      BY <1>3, <2>1, <2>6, <1>t DEF RecvLink, Go
    <3>2. ~Standing' /\ ~Building' /\ ~Built'
      BY <2>1, <2>2, <3>1 DEF Standing, Building, Built, Removal
    <3>3. Numbered'
      BY <2>1, <2>2, <3>1, <3>2 DEF Numbered, Removal
    <3>5. cut' = (cut \/ (~init /\ cur # None))
      BY <1>3, <2>1, <2>6 DEF RecvLink
    <3>6. init => prim = cur
      <4>1. init => Standing
        BY <2>1, <2>2 DEF Standing
      <4> QED
        BY <4>1, <1>g DEF Alive
    <3>7. ~cut' => prim' \in {None, cur'}
      BY <2>1, <3>5, <3>6, <1>g DEF Alive
    <3>8. \A u \in Tasks : pc'[u] = "del" /\ ~cut' => prim' \in {None, cur'}
      BY <3>7
    <3>9. (ub' => stale') /\ (stale' => cut') /\ (cur' = None => prim' = None)
      BY <2>1, <3>5, <1>g DEF Alive
    <3>4. Alive'
      BY <2>1, <2>5, <3>1, <3>2, <3>8, <3>9, <1>g DEF Alive
    <3> QED
      BY <2>3, <3>3, <3>4
  <2>7. CASE rx[1].addr # rx[1].total
    <3>1. pc'["uart"] = "add" /\ Mid
      BY <1>3, <2>1, <2>4, <2>7, <1>t DEF RecvLink, Go
    <3>2. Follows(msg, rx[1])
      BY <3>1, <1>g, <1>t DEF Mid, InOrder
    <3>3. num = msg'.total - msg'.addr
      BY <2>1, <2>4, <3>1, <3>2, <1>g DEF Numbered, Follows
    <3>4. ~Standing' /\ ~Built'
      BY <2>1, <2>2, <3>1 DEF Standing, Built, Removal
    <3>5. Numbered'
      BY <2>1, <2>2, <3>1, <3>3, <3>4 DEF Numbered, Removal
    <3>6. cur # None /\ acc[cur] = [live |-> TRUE, servs |-> <<>>]
      BY <2>1, <3>1, <1>g DEF Alive, Building
    <3>8. cut' = cut
      <4>1. cut' = (cut \/ (Head(rx).addr = Head(rx).total /\ ~init /\ cur # None))
        BY <1>3, Zenon DEF RecvLink
      <4>2. cut \in BOOLEAN
        BY Zenon DEF TypeInv, TypeOK
      <4> QED
        BY <4>1, <4>2, <2>1, <2>7
    <3>7. Alive'
      BY <2>1, <2>2, <2>5, <3>1, <3>4, <3>6, <3>8, <1>g, <1>t DEF Alive, Removal
    <3> QED
      BY <2>3, <3>5, <3>7
  <2> QED
    BY <2>6, <2>7
<1>4. CASE AddModule
  <2>1. /\ UNCHANGED <<acc, cur, prim, started, cut, stale, ub, init, msg, rx>> /\ pc["uart"] = "add"
        /\ pc'["live"] = pc["live"] /\ num' = (num + 1) % 256
        /\ pc'["uart"] = (IF msg.addr = 1 THEN "serv" ELSE "idle")
    BY <1>4, <1>t, Moves DEF AddModule, Go, bus, flags, hist
  <2>2. pc["live"] \notin Removal /\ ~init /\ Apart'
    BY <2>1, <1>g DEF Apart, Handling
  <2>3. num' = msg.total - msg.addr + 1
    <3>1. num = msg.total - msg.addr
      BY <2>1, <1>g DEF Numbered
    <3>2. num \in 0..255 /\ num < 254
      <4>1. \A a \in 1..254, b \in 1..254 : a - b < 254
        OBVIOUS
      <4>2. msg.total \in 1..254 /\ msg.addr \in 1..254
        <5>1. \A n \in 1..MaxMods : n \in 1..254
          BY ModsType
        <5> QED
          BY <5>1, <1>t, Zenon
      <4>3. msg.total - msg.addr < 254
        BY <4>1, <4>2
      <4> QED
        BY <3>1, <4>3 DEF TypeInv, TypeOK
    <3>3. num' = num + 1
      BY <2>1, <3>2
    <3> QED
      BY <3>1, <3>3
  <2>4. Mid' = Mid /\ (Mid => msg.total = rx[1].total /\ msg.addr = rx[1].addr + 1)
    BY <2>1, <1>g, <1>t DEF Mid, InOrder, Follows
  <2>5. ~Standing' /\ ~Built'
    BY <2>1, <2>2 DEF Standing, Built, Removal
  <2>6. Mid => rx[1].addr \in 1..MaxMods
    BY <1>t, MessageTypes DEF Mid
  <2>7. Numbered'
    BY <2>1, <2>2, <2>3, <2>4, <2>5, <2>6, <1>t DEF Numbered, Removal
  <2>8. cur # None /\ acc[cur] = [live |-> TRUE, servs |-> <<>>]
    BY <2>1, <1>g DEF Alive, Building
  <2>9. Alive'
    BY <2>1, <2>2, <2>5, <2>8, <1>g, <1>t DEF Alive, Removal
  <2> QED
    BY <2>2, <2>7, <2>9
<1>5. CASE Ready
  <2>1. /\ UNCHANGED <<acc, cur, prim, started, cut, stale, ub, num, mods, msg, rx>> /\ pc["uart"] = "ready"
        /\ pc'["live"] = pc["live"] /\ pc'["uart"] = "idle" /\ init'
    BY <1>5, <1>t, Moves DEF Ready, Go, table, heap, hist, bus
  <2>2. pc["live"] \notin Removal /\ ~Mid'
    BY <2>1, <1>g, <1>h DEF Apart, Handling
  <2>3. Standing' /\ ~Building'
    BY <2>1, <2>2 DEF Standing, Building, Removal
  <2>4. num = msg.total
    BY <2>1, <1>g DEF Numbered
  <2>5. Numbered'
    BY <2>1, <2>2, <2>4, <1>t DEF Numbered, Removal
  <2>6. Built /\ prim = cur /\ started
    BY <2>1, <1>g DEF Built, Alive
  <2>7. Alive'
    BY <2>1, <2>2, <2>3, <2>6, <1>g, <1>k, <1>t DEF Alive, Removal
  <2> QED
    BY <2>1, <2>2, <2>5, <2>7 DEF Apart
<1>6. CASE SendHi \/ Mark \/ Check \/ Reload
  <2>1. /\ UNCHANGED <<acc, cur, prim, started, cut, stale, ub, num, mods, init, msg, rx>>
        /\ pc'["uart"] = pc["uart"] /\ pc["live"] \notin Removal
        /\ pc'["live"] \in {"idle", "mark", "wait", "del", "reload"}
    BY <1>6, Moves
  <2>2. pc'["live"] = "del" => pc["uart"] = "idle" /\ init
    <3>1. ASSUME pc'["live"] = "del" PROVE Check /\ Go("live", "del")
      BY <3>1, <1>6, <1>t DEF SendHi, Mark, Check, Reload, Go
    <3>2. ASSUME Check, Go("live", "del") PROVE overlap' = (overlap \/ ~init \/ pc["uart"] # "idle")
      BY <3>2, <1>t DEF Check, Go
    <3> QED
      BY <3>1, <3>2
  <2> QED
    BY <2>1, <2>2, <1>q DEF Mid, Removal
<1>7. CASE BusTake \/ Plug \/ Unplug
  BY <1>7, <1>q, Received
<1>8. CASE LoopConfigNum \/ Read
  BY <1>8, <1>q, Moves DEF Mid
<1> QED
  BY Actions, <1>g, <1>0, <1>1, <1>2, <1>3, <1>4, <1>5, <1>6, <1>7, <1>8, Zenon

\* The three invariants together.
BusInv == TypeInv /\ RoundInv /\ HeapInv

\* They hold in every reachable state.
LEMMA BusInvariant == Spec => []BusInv
<1>1. Init => BusInv
  BY TypeInit, RoundInit, HeapInit DEF BusInv
<1>2. BusInv /\ [Next]_vars => BusInv'
  BY TypeStep, RoundStep, HeapStep DEF BusInv
<1> QED
  BY <1>1, <1>2, PTL DEF Spec

\* An accessory that stands offers the table's modules.
LEMMA Offered ==
  ASSUME BusInv, Parses, ~overlap, Standing
  PROVE  /\ Services = Linked /\ started
         /\ Len(Services) = num /\ \A i \in 1..num : Services[i] = mods[i]
<1>1. prim = cur /\ started /\ cur # None /\ acc[cur] = [live |-> TRUE, servs |-> Linked]
  BY DEF BusInv, HeapInv, Alive, Built
<1>2. Services = Linked
  BY <1>1 DEF Services
<1>3. num \in 0..MaxMods /\ MaxMods \in Nat
  BY ModsType DEF BusInv, HeapInv, Numbered
<1>4. Len(Linked) = num
  BY LinkedType DEF BusInv, TypeInv
<1>5. \A i \in 1..num : Linked[i] = mods[i]
  BY <1>3 DEF Linked
<1> QED
  BY <1>1, <1>2, <1>4, <1>5

\* The accessory is always a whole one, and the right one: no freed accessory is
\* used, and it offers each of the modules that were linked once.
THEOREM AccessoryCorrect == Spec => []AccessorySound
<1>1. BusInv => AccessorySound
  <2> SUFFICES ASSUME BusInv PROVE AccessorySound
    OBVIOUS
  <2>1. TypeOK
    BY DEF BusInv, TypeInv
  <2>2. MemorySafe
    BY Zenon DEF BusInv, HeapInv, Alive, MemorySafe, Parses
  <2>3. ServicesAreModules
    BY Offered, Zenon DEF ServicesAreModules, Standing, Parses
  <2> QED
    BY <2>1, <2>2, <2>3 DEF AccessorySound
<1> QED
  BY <1>1, BusInvariant, PTL

-----------------------------------------------------------------------------
(* The configuration number *)

\* A controller never remembers a number to come; if it remembers this one, and not
\* from a rebuild, it knows the services, or a rebuild is about to change the number.
Removing == \E t \in Tasks : pc[t] \in {"del", "zero", "create"}
Noticed ==
  shown.sure /\ shown.cfg = cfg => started /\ (events > 0 \/ Removing \/ (Standing /\ shown.servs = Services))
CacheInv == shown.cfg <= cfg /\ (Parses /\ ~overlap => Noticed)

\* Every creation of an accessory between two reads changes the number.
LEMMA CacheStep == BusInv /\ CacheInv /\ [Next]_vars => CacheInv'
<1> SUFFICES ASSUME BusInv, CacheInv, [Next]_vars PROVE CacheInv'
  OBVIOUS
<1>t. /\ pc \in [Tasks -> Steps] /\ Tasks = {"uart", "live"}
      /\ cfg \in Nat /\ shown \in [cfg : Nat, servs : Seq(Names), sure : BOOLEAN] /\ shown.cfg <= cfg
      /\ events \in 0..EventQ /\ EventQ \in Nat \ {0} /\ TypeInv
  BY ModsType DEF BusInv, TypeInv, TypeOK, Tasks, CacheInv
<1>1. shown'.cfg <= cfg'
  <2>1. \/ UNCHANGED <<cfg, shown>>
        \/ UNCHANGED shown /\ cfg' = cfg + 1
        \/ UNCHANGED cfg /\ shown' = [cfg |-> cfg, servs |-> Services, sure |-> TRUE]
        \/ UNCHANGED cfg /\ shown' = Unsure
    BY Actions, Restarting, Zenon DEF vars, TaskStep, DeleteAccessory, ZeroModules, CreateAccessory, AddServices, Publish,
       RecvSignal, RecvLink, AddModule, Ready, SendHi, Mark, Check, Reload, BusTake,
       LoopConfigNum, Plug, Unplug, Garble, Read, Restart
  <2> QED
    BY <2>1, <1>t DEF Unsure
<1>r. Restarts \/ shown' = Unsure => ~shown'.sure
  BY Restarting DEF Restart, Unsure
<1> SUFFICES ASSUME Parses', ~overlap', shown'.sure, shown'.cfg = cfg'
             PROVE  started' /\ (events' > 0 \/ Removing' \/ (Standing' /\ shown'.servs = Services'))
  BY <1>1, Zenon DEF CacheInv, Noticed
<1>g. Parses /\ ~overlap /\ ~Restarts /\ ~Garble
  BY <1>t, <1>r, Counting, Overlapping
<1>h. Apart /\ Handling /\ Alive /\ Noticed
  BY <1>g, Zenon DEF BusInv, HeapInv, RoundInv, CacheInv
\* A step that leaves both the accessory and what is known of it.
<1>q. ASSUME UNCHANGED <<acc, prim, started, events, cfg, shown>>,
             (Standing /\ ~Removing) => (Standing' \/ Removing'),
             Removing => Removing'
      PROVE  started' /\ (events' > 0 \/ Removing' \/ (Standing' /\ shown'.servs = Services'))
  BY <1>q, <1>h DEF Noticed, Services
<1>2. ASSUME NEW t \in Tasks, TaskStep(t)
      PROVE  started' /\ (events' > 0 \/ Removing' \/ (Standing' /\ shown'.servs = Services'))
  <2>1. UNCHANGED <<cfg, shown, init>> /\ \A u \in Tasks : u # t => pc'[u] = pc[u]
    BY <1>2, <1>t, Moves
  <2>2. started /\ (events > 0 \/ Removing \/ Standing)
    BY <2>1, <1>h DEF Noticed
  <2>3. CASE DeleteAccessory(t) \/ ZeroModules(t)
    <3>1. pc'[t] \in {"zero", "create"} /\ UNCHANGED started
      BY <2>3, <1>t DEF TaskStep, DeleteAccessory, ZeroModules, Go, heap
    <3> QED
      BY <2>2, <3>1 DEF Removing
  <2>4. CASE CreateAccessory(t)
    <3>1. hap_update_config_number /\ UNCHANGED started
      BY <2>4 DEF CreateAccessory
    <3>2. events' > 0
      BY <2>2, <3>1, <1>t DEF hap_update_config_number
    <3> QED
      BY <2>2, <3>1, <3>2
  <2>5. CASE AddServices(t) \/ Publish(t)
    <3>1. pc[t] \in {"serv", "publish"} /\ UNCHANGED events /\ started'
      BY <2>5, <2>2 DEF AddServices, Publish
    <3>2. ~Standing /\ ~Removing
      BY <3>1, <1>t, <1>h DEF Standing, Removing, Apart, Removal
    <3> QED
      BY <2>2, <3>1, <3>2
  <2> QED
    BY <1>2, <2>3, <2>4, <2>5 DEF TaskStep
<1>0. CASE UNCHANGED vars
  <2>1. UNCHANGED <<acc, prim, started, events, cfg, shown, init, pc>>
    BY <1>0, Zenon DEF vars, flags, heap
  <2> QED
    BY <2>1, <1>q DEF Standing, Removing
<1>3. CASE RecvSignal
  <2>1. UNCHANGED <<acc, prim, started, events, cfg, shown, init, pc>>
    BY <1>3, Zenon DEF RecvSignal, heap
  <2> QED
    BY <2>1, <1>q DEF Standing, Removing
<1>4. CASE RecvLink
  <2>1. /\ UNCHANGED <<acc, prim, started, events, cfg, shown>> /\ pc'["live"] = pc["live"]
        /\ pc["uart"] = "idle" /\ pc["live"] \notin Removal
    BY <1>4, <1>t, Moves DEF RecvLink
  <2>2. ~Removing
    BY <2>1, <1>t DEF Removing, Removal
  <2>3. Standing => pc'["uart"] = "del"
    <3>1. InOrder /\ (Mid <=> rx[1].addr # rx[1].total)
      BY <1>4, <1>t, <1>g, Fetched DEF BusInv, RoundInv
    <3>2. Standing => ~Mid
      BY <1>h DEF Standing, Handling
    <3>3. Head(rx) = rx[1]
      BY <1>4 DEF RecvLink, BusInv, TypeInv, TypeOK
    <3> QED
      BY <1>4, <1>t, <3>1, <3>2, <3>3 DEF RecvLink, Go
  <2> QED
    BY <2>1, <2>2, <2>3, <1>q, <1>t DEF Removing
<1>5. CASE AddModule \/ Ready
  <2>1. /\ UNCHANGED <<acc, prim, started, events, cfg, shown>> /\ pc'["live"] = pc["live"]
        /\ pc["uart"] \in {"add", "ready"}
    BY <1>5, <1>t, Moves DEF AddModule, Ready
  <2>2. ~Standing /\ ~Removing
    BY <2>1, <1>t, <1>h DEF Standing, Removing, Apart, Removal
  <2> QED
    BY <2>1, <2>2, <1>q
<1>6. CASE SendHi \/ Mark \/ Check \/ Reload
  <2>1. /\ UNCHANGED <<acc, prim, started, events, cfg, shown, init>>
        /\ pc'["uart"] = pc["uart"] /\ pc["live"] \notin Removal
        /\ pc'["live"] \in {"idle", "mark", "wait", "del", "reload"}
    BY <1>6, <1>t, Moves
  <2> QED
    BY <2>1, <1>q, <1>t DEF Standing, Removing, Removal
<1>7. CASE BusTake \/ Plug \/ Unplug
  <2>1. UNCHANGED <<acc, prim, started, events, cfg, shown, init, pc>>
    BY <1>7, <1>t, Received
  <2> QED
    BY <2>1, <1>q DEF Standing, Removing
<1>8. CASE LoopConfigNum
  <2>1. UNCHANGED shown /\ cfg' = cfg + 1
    BY <1>8 DEF LoopConfigNum
  <2> QED
    BY <2>1, <1>t
<1>9. CASE Read
  <2>1. /\ UNCHANGED <<acc, prim, started, init, pc>> /\ shown'.servs = Services /\ Standing
    <3>1. Standing /\ shown' = [cfg |-> cfg, servs |-> Services, sure |-> TRUE]
      BY <1>9, <1>r, Zenon DEF Read
    <3>2. UNCHANGED <<acc, prim, started, init, pc>>
      BY <1>9, Zenon DEF Read, flags, heap
    <3> QED
      BY <3>1, <3>2
  <2>2. Standing' /\ Services' = Services
    BY <2>1 DEF Standing, Services
  <2>3. started
    BY <2>1, <1>g, Offered
  <2> QED
    BY <2>1, <2>2, <2>3
<1> QED
  BY Actions, <1>g, <1>0, <1>2, <1>3, <1>4, <1>5, <1>6, <1>7, <1>8, <1>9, Zenon

\* A configuration number keeps naming the services that were read with it, but from
\* a rebuild, from one hap_start() to the next restart, however often both tasks
\* rebuild the accessory.
THEOREM CacheCorrect == Spec => []CacheValidSinceStart
<1>1. Init => BusInv /\ CacheInv
  <2>1. Init => CacheInv
    BY DEF Init, CacheInv, Noticed, Unsure
  <2> QED
    BY <2>1, TypeInit, RoundInit, HeapInit DEF BusInv
<1>2. BusInv /\ CacheInv /\ [Next]_vars => BusInv' /\ CacheInv'
  BY TypeStep, RoundStep, HeapStep, CacheStep DEF BusInv
<1>3. BusInv /\ CacheInv => CacheValidSinceStart
  <2> SUFFICES ASSUME BusInv, CacheInv, Parses, ~overlap,
                      Standing, events = 0, shown.sure, shown.cfg = cfg
               PROVE  shown.servs = Services
    BY Zenon DEF CacheValidSinceStart, CacheValid, Parses
  <2>1. events = 0 /\ pc["uart"] = "idle" /\ pc["live"] \notin Removal
    BY DEF Standing
  <2>2. ~Removing
    BY <2>1 DEF Removing, Removal, Tasks
  <2>3. Noticed
    BY Zenon DEF CacheInv
  <2> QED
    BY <2>1, <2>2, <2>3 DEF Noticed
<1> QED
  BY <1>1, <1>2, <1>3, PTL DEF Spec

=============================================================================
