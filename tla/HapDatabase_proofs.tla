-------------------------- MODULE HapDatabase_proofs --------------------------
(***************************************************************************)
(* Proofs about HapDatabase, for every range of the numbers, every length  *)
(* of the loop's queue, and any number of firmware revisions, losses of    *)
(* power, failures and operations.  The inductive invariants:              *)
(*   TypeInv    types, and which task can run when;                        *)
(*   KeyInv     identity, keys and the controller that knows them;         *)
(*   MetInv     which task announces when, and with whom;                  *)
(*   RecordInv  what is announced;                                         *)
(*   NumberInv  how far the configuration number is from the one read.     *)
(***************************************************************************)
EXTENDS HapDatabase, TLAPS

-----------------------------------------------------------------------------
(* Types *)

Events == Resets \cup {"config", "announce"}
Areas  == {"ctrl", "main", "net", "all"}
Booting == {"keystore", "id", "ska", "pka", "ctrl", "config", "aid", "state", "setting",
            "linked", "fw", "fwsave", "httpd", "loop"}
Phases == Booting \cup {"mdns", "services", "running", "failed"}

Records == [how : {"no", "alone", "met"}, cfg : Nat, paired : BOOLEAN]
MdnsTypes ==
  /\ txt \in [cfg : Nat, paired : BOOLEAN] /\ first_announce_done \in BOOLEAN
  /\ announcing \in [Tasks -> Records]

\* TypeOK with its set of steps spelled out; a setting is one of two values,
\* and the loop has nothing to do before its task has created the queue.
TypeInv ==
  /\ flash \in [Keys -> Nat] /\ priv \in [Ram -> Nat]
  /\ flash["config_num"] <= CfgMax /\ priv["config_num"] <= CfgMax
  /\ flash["state_num"] <= StateMax /\ priv["state_num"] <= StateMax
  /\ flash["setting"] <= 3 /\ priv["setting"] <= 3
  /\ pc \in Phases
  /\ loop \in {"no", "started", "created"} /\ queue \in Seq(Events) /\ Len(queue) <= EventQ
  /\ reset = None \/ reset \in Seq(Areas)
  /\ MdnsTypes /\ fw \in Versions /\ drawn \in Nat
  /\ known \in [id : Nat, pk : Nat] /\ seen \in [cfg : Nat, fw : Nat]
  /\ late \in BOOLEAN /\ torn \in BOOLEAN /\ dropped \in BOOLEAN
  /\ count \in [Counters -> Nat] /\ \A c \in Counters : count[c] <= Bound[c]
  /\ loop # "created" => reset = None /\ queue = <<>>
  /\ pc \in Booting => loop = "no"

\* What a step may do to the counters: it counts one thing at most.
Counting ==
  /\ count' \in [Counters -> Nat] /\ \A c \in Counters : count'[c] <= Bound[c]
  /\ \A c \in Counters : count[c] <= count'[c] /\ count'[c] <= count[c] + 1

\* Every counter has a bound.
LEMMA Bounds == \A c \in Counters : Bound[c] \in Nat
<1>1. MaxCrashes \in Nat /\ MaxFails \in Nat /\ MaxOps \in Nat
  BY HapDatabaseAssumption
<1>2. Bound["crashes"] \in Nat /\ Bound["fails"] \in Nat /\ Bound["ops"] \in Nat
  BY <1>1 DEF Bound
<1> QED
  BY <1>2, Zenon DEF Counters

\* Once() counts one thing.
LEMMA OnceCounts ==
  ASSUME TypeInv, NEW c \in Counters, Once(c)
  PROVE  Counting /\ count'[c] = count[c] + 1 /\ \A d \in Counters : d # c => count'[d] = count[d]
<1>1. count \in [Counters -> Nat] /\ Bound[c] \in Nat /\ count[c] < Bound[c]
  BY Bounds, Zenon DEF TypeInv, Once
<1>2. count' = [count EXCEPT ![c] = count[c] + 1]
  BY DEF Once
<1>3. count[c] + 1 \in Nat /\ count[c] + 1 <= Bound[c]
  BY <1>1
<1>4. count' \in [Counters -> Nat] /\ count'[c] = count[c] + 1
      /\ \A d \in Counters : d # c => count'[d] = count[d]
  BY <1>1, <1>2, <1>3
<1>5. \A d \in Counters : count[d] \in Nat /\ count[d] <= Bound[d]
  BY Zenon DEF TypeInv
<1>6. \A d \in Counters : count[d] <= count'[d] /\ count'[d] <= count[d] + 1
  BY <1>4, <1>5
<1>7. \A d \in Counters : count'[d] <= Bound[d]
  BY <1>3, <1>4, <1>5
<1> QED
  BY <1>4, <1>6, <1>7, Zenon DEF Counting

\* Nothing is counted.
LEMMA SameCounts == ASSUME TypeInv, count' = count PROVE Counting
BY DEF TypeInv, Counting

\* A write of v to the key k: it is there, or a failure was counted and the old
\* value is.
Stored(k, v) ==
  /\ flash' \in [Keys -> Nat] /\ \A j \in Keys : j # k => flash'[j] = flash[j]
  /\ \/ flash'[k] = v /\ count' = count
     \/ /\ flash'[k] = flash[k] /\ count'["fails"] = count["fails"] + 1
        /\ \A d \in Counters : d # "fails" => count'[d] = count[d]
  /\ Counting

\* hap_keystore_set() writes one value or counts a failure.
LEMMA SetStores ==
  ASSUME TypeInv, NEW k \in Keys, NEW v \in Nat, hap_keystore_set(k, v)
  PROVE  Stored(k, v)
<1>1. CASE flash' = [flash EXCEPT ![k] = v] /\ count' = count
  <2>1. flash' \in [Keys -> Nat] /\ flash'[k] = v /\ \A j \in Keys : j # k => flash'[j] = flash[j]
    BY <1>1 DEF TypeInv
  <2> QED
    BY <1>1, <2>1, SameCounts, Zenon DEF Stored
<1>2. CASE Once("fails") /\ flash' = flash
  <2>1. "fails" \in Counters
    BY DEF Counters
  <2>2. flash' \in [Keys -> Nat]
    BY <1>2 DEF TypeInv
  <2> QED
    BY <1>2, <2>1, <2>2, OnceCounts DEF Stored
<1> QED
  BY <1>1, <1>2 DEF hap_keystore_set

\* The numbers stay in their range.
LEMMA FollowingRange ==
  ASSUME NEW m \in Nat \ {0}, NEW n \in Nat, n <= m
  PROVE  Following(n, m) \in 1..m
BY DEF Following

\* The rest of the types, which no step of the start touches but for the step.
Rest ==
  /\ MdnsTypes' /\ fw' \in Versions /\ drawn' \in Nat
  /\ known' \in [id : Nat, pk : Nat] /\ seen' \in [cfg : Nat, fw : Nat]
  /\ late' \in BOOLEAN /\ torn' \in BOOLEAN /\ dropped' \in BOOLEAN
Running ==
  /\ pc' \in Phases
  /\ loop' \in {"no", "started", "created"} /\ queue' \in Seq(Events) /\ Len(queue') <= EventQ
  /\ reset' = None \/ reset' \in Seq(Areas)
  /\ loop' # "created" => reset' = None /\ queue' = <<>>
  /\ pc' \in Booting => loop' = "no"
Flashed ==
  /\ flash' \in [Keys -> Nat]
  /\ flash'["config_num"] <= CfgMax /\ flash'["state_num"] <= StateMax /\ flash'["setting"] <= 3
Private ==
  /\ priv' \in [Ram -> Nat]
  /\ priv'["config_num"] <= CfgMax /\ priv'["state_num"] <= StateMax /\ priv'["setting"] <= 3

\* The parts of the types make up the whole.
LEMMA Parts == Flashed /\ Private /\ Running /\ Rest /\ Counting => TypeInv'
BY Zenon DEF Flashed, Private, Running, Rest, Counting, TypeInv

\* What a step leaves alone keeps its type.
LEMMA Unchanged ==
  ASSUME TypeInv
  PROVE  /\ flash' = flash => Flashed
         /\ priv' = priv => Private
         /\ UNCHANGED <<pc, running>> => Running
         /\ UNCHANGED mdns => MdnsTypes'
         /\ UNCHANGED <<mdns, fw, drawn, known, seen, late, torn, dropped>> => Rest
BY Zenon DEF Flashed, Private, Running, Rest, TypeInv, running, MdnsTypes, mdns

\* A write within the ranges.
LEMMA StoredTypes ==
  ASSUME TypeInv, NEW k \in Keys, NEW v \in Nat, Stored(k, v),
         k = "config_num" => v <= CfgMax, k = "state_num" => v <= StateMax, k = "setting" => v <= 3
  PROVE  Flashed /\ Counting
<1>1. Counting /\ flash' \in [Keys -> Nat]
  BY Zenon DEF Stored
<1>2. ASSUME NEW j \in Keys PROVE flash'[j] = flash[j] \/ (j = k /\ flash'[j] = v)
  <2>1. CASE j = k
    BY <2>1, Zenon DEF Stored
  <2>2. CASE j # k
    BY <2>2, Zenon DEF Stored
  <2> QED
    BY <2>1, <2>2
<1>3. /\ "config_num" \in Keys /\ "state_num" \in Keys /\ "setting" \in Keys
  BY DEF Keys
<1> QED
  BY <1>1, <1>2, <1>3 DEF Flashed, TypeInv

\* A value in RAM within the ranges.
LEMMA PutTypes ==
  ASSUME TypeInv, NEW k \in Ram, NEW v \in Nat, priv' = [priv EXCEPT ![k] = v],
         k = "config_num" => v <= CfgMax, k = "state_num" => v <= StateMax, k = "setting" => v <= 3
  PROVE  Private /\ priv'[k] = v /\ \A j \in Ram : j # k => priv'[j] = priv[j]
<1>1. priv' \in [Ram -> Nat] /\ priv'[k] = v /\ \A j \in Ram : j # k => priv'[j] = priv[j]
  BY DEF TypeInv
<1>2. /\ "config_num" \in Ram /\ "state_num" \in Ram /\ "setting" \in Ram
  BY DEF Keys, Ram
<1> QED
  BY <1>1, <1>2 DEF Private, TypeInv

\* A step of the start before the loop's task is created.
LEMMA BootStep ==
  ASSUME TypeInv, NEW p \in Booting, NEW q \in Phases, pc = p, pc' = q, UNCHANGED running
  PROVE  Running
BY DEF TypeInv, Running, running, Booting, Phases

\* The values that are drawn, found or computed are within their ranges.
LEMMA Ranges ==
  ASSUME TypeInv
  PROVE  /\ \A k \in Ram : k \in Keys /\ flash[k] \in Nat /\ priv[k] \in Nat
         /\ drawn + 1 \in Nat /\ 1 <= CfgMax /\ 1 <= StateMax
         /\ Following(priv["config_num"], CfgMax) \in 1..CfgMax
         /\ Following(priv["state_num"], StateMax) \in 1..StateMax
         /\ Following(flash["state_num"], StateMax) \in 1..StateMax
<1>1. \A k \in Ram : k \in Keys /\ flash[k] \in Nat /\ priv[k] \in Nat
  BY DEF TypeInv, Ram
<1>2. "config_num" \in Ram /\ "state_num" \in Ram
  BY DEF Keys, Ram
<1>3. CfgMax \in Nat \ {0} /\ StateMax \in Nat \ {0}
  BY HapDatabaseAssumption
<1>4. priv["config_num"] <= CfgMax /\ priv["state_num"] <= StateMax /\ flash["state_num"] <= StateMax
  BY DEF TypeInv
<1>5. drawn + 1 \in Nat
  BY DEF TypeInv
<1> QED
  BY <1>1, <1>2, <1>3, <1>4, <1>5, FollowingRange

\* What Format() leaves of p in RAM and in the keystore, and the record.
Formatted(task, p, changed) ==
  /\ Private /\ Flashed /\ Counting
  /\ \A j \in Ram : j # "state_num" => priv'[j] = p[j]
  /\ \A j \in Keys : j \notin changed \cup {"state_num"} => flash'[j] = flash[j]
  /\ ~Once("fails") => \A j \in changed : flash'[j] = priv'[j]
  /\ announcing' \in [Tasks -> Records]
  /\ announcing'[task].cfg = p["config_num"] /\ announcing'[task].paired = (p["ctrl"] # 0)
  /\ announcing'[task].how = IF \E t \in Tasks \ {task} : Announcing(t) THEN "met" ELSE "alone"
  /\ \A t \in Tasks \ {task} : announcing'[t].how # "alone" /\ (Announcing(t)' <=> Announcing(t))

\* Format() does that of any p within the ranges.
LEMMA FormatEffect ==
  ASSUME TypeInv, NEW task \in Tasks, NEW p \in [Ram -> Nat], NEW changed \in {{}, {"config_num"}},
         p["config_num"] <= CfgMax, p["state_num"] <= StateMax, p["setting"] <= 3,
         Format(task, p, changed)
  PROVE  Formatted(task, p, changed)
<1>1. /\ "state_num" \in Ram /\ "config_num" \in Ram /\ "ctrl" \in Ram /\ "setting" \in Ram
      /\ "state_num" \in Keys /\ "config_num" \in Keys /\ "setting" \in Keys
  BY DEF Keys, Ram
<1>2. PICK m \in 0..StateMax : priv' = [p EXCEPT !["state_num"] = m]
  <2>1. p["state_num"] \in 0..StateMax /\ Following(p["state_num"], StateMax) \in 0..StateMax
    BY <1>1, FollowingRange, HapDatabaseAssumption
  <2> QED
    BY <2>1, Zenon DEF Format
<1>3. m \in Nat /\ m <= StateMax
  BY HapDatabaseAssumption
<1>4. /\ priv' \in [Ram -> Nat] /\ priv'["state_num"] = m
      /\ \A j \in Ram : j # "state_num" => priv'[j] = p[j]
  BY <1>1, <1>2, <1>3
<1>5. Private
  BY <1>1, <1>3, <1>4 DEF Private
<1>6. PICK saved \in {changed, changed \cup {"state_num"}} :
        \E done \in SUBSET saved :
          /\ flash' = [k \in Keys |-> IF k \in done THEN priv'[k] ELSE flash[k]]
          /\ IF done # saved THEN Once("fails")
             ELSE IF task = "httpd" THEN Once("ops") ELSE UNCHANGED count
  BY Zenon DEF Format
<1>7. PICK done \in SUBSET saved :
          /\ flash' = [k \in Keys |-> IF k \in done THEN priv'[k] ELSE flash[k]]
          /\ IF done # saved THEN Once("fails")
             ELSE IF task = "httpd" THEN Once("ops") ELSE UNCHANGED count
  BY <1>6
<1>8. /\ done \subseteq {"config_num", "state_num"} /\ done \subseteq changed \cup {"state_num"}
      /\ changed \subseteq saved /\ changed \subseteq Keys
  BY <1>1, <1>6, <1>7
<1>9. /\ flash' \in [Keys -> Nat]
      /\ \A j \in Keys : flash'[j] = flash[j] \/ (j \in {"config_num", "state_num"} /\ flash'[j] = priv'[j])
      /\ \A j \in Keys : j \notin changed \cup {"state_num"} => flash'[j] = flash[j]
  <2>1. {"config_num", "state_num"} \subseteq Ram
    BY <1>1
  <2>2. flash \in [Keys -> Nat]
    BY DEF TypeInv
  <2> QED
    BY <1>4, <1>7, <1>8, <2>1, <2>2
<1>10. Flashed
  <2>1. /\ flash'["config_num"] \in {flash["config_num"], priv'["config_num"]}
        /\ flash'["state_num"] \in {flash["state_num"], priv'["state_num"]}
        /\ flash'["setting"] = flash["setting"]
    BY <1>1, <1>9
  <2> QED
    BY <1>5, <1>9, <2>1 DEF Flashed, TypeInv, Private
<1>11. Counting
  <2>1. "fails" \in Counters /\ "ops" \in Counters
    BY DEF Counters
  <2> QED
    BY <1>7, <2>1, OnceCounts, SameCounts, Zenon
<1>12. ~Once("fails") => \A j \in changed : flash'[j] = priv'[j]
  BY <1>7, <1>8
<1>13. /\ announcing' \in [Tasks -> Records]
       /\ announcing'[task].cfg = p["config_num"] /\ announcing'[task].paired = (p["ctrl"] # 0)
       /\ announcing'[task].how = IF \E t \in Tasks \ {task} : Announcing(t) THEN "met" ELSE "alone"
       /\ \A t \in Tasks \ {task} : announcing'[t].how # "alone" /\ (Announcing(t)' <=> Announcing(t))
  <2> DEFINE met == \E t \in Tasks \ {task} : Announcing(t)
             own == [how |-> IF met THEN "met" ELSE "alone",
                     cfg |-> p["config_num"], paired |-> p["ctrl"] # 0]
  <2>1. announcing' = [t \in Tasks |-> IF t = task THEN own
                       ELSE IF Announcing(t) THEN [announcing[t] EXCEPT !.how = "met"] ELSE announcing[t]]
    BY Zenon DEF Format
  <2>2. own \in Records /\ own.cfg = p["config_num"] /\ own.paired = (p["ctrl"] # 0)
        /\ own.how = IF met THEN "met" ELSE "alone"
    BY <1>1 DEF Records
  <2>3. \A t \in Tasks : announcing[t] \in Records
    BY DEF TypeInv, MdnsTypes
  <2>4. \A t \in Tasks : /\ [announcing[t] EXCEPT !.how = "met"] \in Records
                         /\ [announcing[t] EXCEPT !.how = "met"].how = "met"
    BY <2>3 DEF Records
  <2> HIDE DEF own
  <2>5. /\ \A t \in Tasks \ {task} : announcing'[t].how = IF Announcing(t) THEN "met" ELSE announcing[t].how
        /\ announcing'[task] = own /\ announcing' \in [Tasks -> Records]
    BY <2>1, <2>2, <2>3, <2>4
  <2>6. \A t \in Tasks : Announcing(t)' <=> announcing'[t].how # "no"
    BY DEF Announcing
  <2> QED
    BY <2>2, <2>5, <2>6 DEF Announcing
<1> QED
  BY <1>4, <1>5, <1>9, <1>10, <1>11, <1>12, <1>13, Zenon DEF Formatted

\* The start keeps the types.
LEMMA StartTypes == TypeInv /\ Start => TypeInv'
<1> SUFFICES ASSUME TypeInv, Start PROVE TypeInv'
  OBVIOUS
<1>1. CASE InitKeystore
  <2>1. Private /\ Rest
    BY <1>1, Unchanged, Zenon DEF InitKeystore, world
  <2>2. Running
    <3>1. pc = "keystore" /\ pc' \in {"id", "failed"} /\ UNCHANGED running
      BY <1>1 DEF InitKeystore
    <3> QED
      BY <3>1, BootStep DEF Booting, Phases
  <2>3. Flashed
    <3>1. CASE flash' = flash
      BY <3>1, Unchanged
    <3>2. CASE flash' = Empty
      BY <3>2, HapDatabaseAssumption DEF Flashed, Empty, Keys
    <3> QED
      BY <1>1, <3>1, <3>2, Zenon DEF InitKeystore
  <2>4. Counting
    BY <1>1, OnceCounts, SameCounts DEF InitKeystore, Counters
  <2> QED
    BY <2>1, <2>2, <2>3, <2>4, Parts, Zenon
<1>2. CASE GetIdentity
  <2>1. CASE flash["acc_id"] # 0
    <3>1. Flashed /\ Rest /\ Counting
      BY <1>2, <2>1, Unchanged, SameCounts, Zenon DEF GetIdentity, world
    <3>2. Running
      BY <1>2, <2>1, BootStep DEF GetIdentity, Booting, Phases
    <3>3. Private
      BY <1>2, <2>1 DEF GetIdentity, Private, TypeInv, Keys, Ram
    <3> QED
      BY <3>1, <3>2, <3>3, Parts, Zenon
  <2>2. CASE flash["acc_id"] = 0
    <3>1. drawn' = drawn + 1 /\ drawn + 1 \in Nat /\ UNCHANGED <<mdns, world>>
      BY <1>2, <2>2, Ranges DEF GetIdentity
    <3>2. Rest
      BY <3>1, Unchanged DEF Rest, TypeInv, world
    <3>3. Running
      BY <1>2, <2>2, BootStep DEF GetIdentity, Booting, Phases
    <3>4. "acc_id" \in Ram /\ "acc_id" \in Keys
      BY DEF Keys, Ram
    <3>5. Private
      BY <1>2, <2>2, <3>1, <3>4, PutTypes DEF GetIdentity
    <3>6. Stored("acc_id", drawn + 1)
      BY <1>2, <2>2, <3>1, <3>4, SetStores DEF GetIdentity
    <3>7. Flashed /\ Counting
      BY <3>1, <3>4, <3>6, StoredTypes
    <3> QED
      BY <3>2, <3>3, <3>5, <3>7, Parts, Zenon
  <2> QED
    BY <2>1, <2>2
<1>3. ASSUME NEW p \in {"ska", "pka"}, NEW k \in {"ltska", "ltpka"}, NEW q \in {"pka", "ctrl"},
             SaveKey(p, k, q)
      PROVE  TypeInv'
  <2>1. Rest
    BY <1>3, Unchanged, Zenon DEF SaveKey, world
  <2>2. Running
    BY <1>3, BootStep DEF SaveKey, Booting, Phases
  <2>3. Private
    BY <1>3 DEF SaveKey, Private, TypeInv, Keys, Ram
  <2>4. Flashed /\ Counting
    <3>1. k \in Keys /\ drawn \in Nat /\ hap_keystore_set(k, drawn)
      BY <1>3 DEF SaveKey, TypeInv, Keys
    <3> QED
      BY <3>1, SetStores, StoredTypes
  <2> QED
    BY <2>1, <2>2, <2>3, <2>4, Parts, Zenon
<1>4. CASE GetControllers
  <2>1. Flashed /\ Rest /\ Counting
    BY <1>4, Unchanged, SameCounts, Zenon DEF GetControllers, world
  <2>2. Running
    BY <1>4, BootStep DEF GetControllers, Booting, Phases
  <2>3. Private
    BY <1>4, PutTypes DEF GetControllers, TypeInv, Keys, Ram
  <2> QED
    BY <2>1, <2>2, <2>3, Parts, Zenon
<1>5. ASSUME NEW p \in Booting, NEW k \in {"config_num", "cur_aid", "setting"}, NEW q \in Booting,
             Restore(p, k, 1, q)
      PROVE  TypeInv'
  <2>1. Rest
    BY <1>5, Unchanged, Zenon DEF Restore, world
  <2>2. Running
    BY <1>5, BootStep DEF Restore, Booting, Phases
  <2>3. k \in Ram /\ k \in Keys /\ flash[k] \in Nat /\ (k = "config_num" => flash[k] <= CfgMax)
        /\ (k = "setting" => flash[k] <= 3) /\ 1 <= CfgMax /\ 1 <= 3
    <3>1. k \in Ram /\ k \in Keys
      BY DEF Keys, Ram
    <3>2. flash["config_num"] <= CfgMax /\ flash["setting"] <= 3
      BY DEF TypeInv
    <3> QED
      BY <3>1, <3>2, Ranges
  <2>4. CASE flash[k] # 0
    BY <1>5, <2>1, <2>2, <2>3, <2>4, PutTypes, Unchanged, SameCounts, Parts DEF Restore
  <2>5. CASE flash[k] = 0
    <3>1. Private
      BY <1>5, <2>3, <2>5, PutTypes DEF Restore
    <3>2. Flashed /\ Counting
      BY <1>5, <2>3, <2>5, SetStores, StoredTypes DEF Restore
    <3> QED
      BY <2>1, <2>2, <3>1, <3>2, Parts, Zenon
  <2> QED
    BY <2>4, <2>5
<1>6. CASE InitStateNumber
  <2>1. Rest
    BY <1>6, Unchanged, Zenon DEF InitStateNumber, world
  <2>2. Running
    BY <1>6, BootStep DEF InitStateNumber, Booting, Phases
  <2>3. PICK n \in 0..StateMax : /\ priv' = [priv EXCEPT !["state_num"] = n]
                               /\ (hap_keystore_set("state_num", n) \/ UNCHANGED <<flash, count>>)
    <3>1. flash["state_num"] \in 0..StateMax /\ 1 \in 0..StateMax
          /\ Following(flash["state_num"], StateMax) \in 0..StateMax
      BY Ranges DEF TypeInv, Keys
    <3> QED
      BY <1>6, <3>1, Zenon DEF InitStateNumber
  <2>4. n \in Nat /\ n <= StateMax /\ "state_num" \in Ram /\ "state_num" \in Keys
    BY HapDatabaseAssumption DEF Keys, Ram
  <2>5. Private
    <3>1. "state_num" # "config_num" /\ "state_num" # "setting"
      OBVIOUS
    <3> QED
      BY <2>3, <2>4, <3>1, PutTypes, Zenon
  <2>6. Flashed /\ Counting
    BY <2>3, <2>4, SetStores, StoredTypes, Unchanged, SameCounts
  <2> QED
    BY <2>1, <2>2, <2>5, <2>6, Parts, Zenon
<1>7. CASE CheckFirmware
  <2>1. Rest
    BY <1>7, Unchanged, Zenon DEF CheckFirmware, world
  <2>2. Running
    BY <1>7, BootStep DEF CheckFirmware, Step, Booting, Phases
  <2> DEFINE n == Following(priv["config_num"], CfgMax)
  <2>3. n \in Nat /\ n <= CfgMax /\ "config_num" \in Ram /\ "config_num" \in Keys
    BY Ranges, HapDatabaseAssumption DEF Keys, Ram
  <2>4. "config_num" # "state_num" /\ "config_num" # "setting"
    OBVIOUS
  <2> HIDE DEF n
  <2>5. ASSUME priv' = [priv EXCEPT !["config_num"] = n], hap_keystore_set("config_num", priv'["config_num"])
        PROVE  Private /\ Flashed /\ Counting
    <3>1. Private /\ priv'["config_num"] = n
      BY <2>3, <2>4, <2>5, PutTypes, Zenon
    <3>2. Stored("config_num", n)
      BY <2>3, <2>5, <3>1, SetStores, Zenon
    <3> QED
      BY <2>3, <2>4, <3>1, <3>2, StoredTypes, Zenon
  <2>6. ASSUME hap_keystore_set("fw_rev", fw), priv' = priv
        PROVE  Private /\ Flashed /\ Counting
    <3>1. fw \in Nat /\ "fw_rev" \in Keys
      BY HapDatabaseAssumption DEF TypeInv, Keys
    <3> QED
      BY <2>6, <3>1, SetStores, StoredTypes, Unchanged
  <2>7. ASSUME UNCHANGED <<priv, flash, count>> PROVE Private /\ Flashed /\ Counting
    BY <2>7, Unchanged, SameCounts
  <2> QED
    BY <1>7, <2>1, <2>2, <2>5, <2>6, <2>7, Parts, Zenon DEF CheckFirmware, n
<1>8. CASE SameFirmware
  <2>1. Running
    BY <1>8, BootStep DEF SameFirmware, Step, Booting, Phases
  <2> QED
    BY <1>8, <2>1, Unchanged, SameCounts, Parts, Zenon DEF SameFirmware, world
<1>9. CASE HapStart /\ UNCHANGED <<flash, priv, drawn, fw, known, seen, late, torn>>
  <2>1. Running
    <3>1. CASE UNCHANGED running /\ pc' \in Phases /\ (pc' \in Booting => pc \in Booting)
      BY <3>1 DEF Running, TypeInv, running
    <3>2. CASE Step("loop", "mdns") /\ loop' = "started" /\ UNCHANGED <<queue, reset>>
      BY <3>2 DEF Running, TypeInv, Step, Booting, Phases
    <3> QED
      BY <1>9, <3>1, <3>2 DEF HapStart, Step, Booting, Phases
  <2>2. Flashed /\ Private
    BY <1>9, Unchanged, Zenon
  <2>3. Counting
    <3>1. "fails" \in Counters
      BY DEF Counters
    <3>2. count' = count \/ Once("fails")
      BY <1>9, Zenon DEF HapStart
    <3> QED
      BY <3>1, <3>2, OnceCounts, SameCounts, Zenon
  <2>4. MdnsTypes' /\ dropped' \in BOOLEAN
    <3>1. CASE UNCHANGED <<mdns, dropped>>
      BY <3>1, Unchanged, Zenon DEF TypeInv
    <3>2. CASE /\ first_announce_done' = TRUE /\ dropped' = FALSE /\ UNCHANGED announcing
               /\ txt' = [cfg |-> priv["config_num"], paired |-> is_accessory_paired]
      <4>1. priv["config_num"] \in Nat
        BY DEF TypeInv, Keys, Ram
      <4>2. txt' \in [cfg : Nat, paired : BOOLEAN]
        BY <3>2, <4>1 DEF is_accessory_paired
      <4> QED
        BY <3>2, <4>2, Zenon DEF MdnsTypes, TypeInv
    <3>3. CASE first_announce_done' = (pc = "services") /\ UNCHANGED <<txt, announcing, dropped>>
      BY <3>3, Zenon DEF MdnsTypes, TypeInv
    <3> QED
      BY <1>9, <3>1, <3>2, <3>3, Zenon DEF HapStart
  <2>5. Rest
    BY <1>9, <2>4, Zenon DEF Rest, TypeInv
  <2> QED
    BY <2>1, <2>2, <2>3, <2>5, Parts, Zenon
<1>10. "ska" \in {"ska", "pka"} /\ "ltska" \in {"ltska", "ltpka"} /\ "pka" \in {"pka", "ctrl"}
       /\ "pka" \in {"ska", "pka"} /\ "ltpka" \in {"ltska", "ltpka"} /\ "ctrl" \in {"pka", "ctrl"}
  OBVIOUS
<1>11. /\ {"config", "aid", "setting", "state", "linked"} \subseteq Booting
       /\ "config_num" \in {"config_num", "cur_aid", "setting"}
       /\ "cur_aid" \in {"config_num", "cur_aid", "setting"}
       /\ "setting" \in {"config_num", "cur_aid", "setting"}
  BY DEF Booting
<1>12. \/ GetIdentity \/ SaveKey("ska", "ltska", "pka") \/ SaveKey("pka", "ltpka", "ctrl")
       \/ GetControllers \/ Restore("config", "config_num", 1, "aid")
       \/ Restore("aid", "cur_aid", 1, "state") \/ InitStateNumber
       \/ Restore("setting", "setting", 1, "linked")
       => TypeInv'
  BY <1>2, <1>3, <1>4, <1>5, <1>6, <1>10, <1>11
<1> QED
  BY <1>1, <1>7, <1>8, <1>9, <1>12, Zenon DEF Start, hap_database_init

\* hap_send_event() appends an event or refuses it.
LEMMA Sending ==
  ASSUME TypeInv, NEW e \in Events, hap_send_event(e)
  PROVE  /\ queue' \in Seq(Events) /\ Len(queue') <= EventQ /\ dropped' \in BOOLEAN
         /\ loop # "created" => queue' = <<>>
<1>1. CASE loop = "created" /\ Len(queue) < EventQ
  <2>1. queue' = Append(queue, e) /\ dropped' = dropped
    BY <1>1 DEF hap_send_event
  <2>2. Append(queue, e) \in Seq(Events) /\ Len(Append(queue, e)) = Len(queue) + 1
    BY DEF TypeInv
  <2>3. Len(queue) + 1 <= EventQ
    BY <1>1, HapDatabaseAssumption DEF TypeInv
  <2> QED
    BY <1>1, <2>1, <2>2, <2>3 DEF TypeInv
<1>2. CASE ~(loop = "created" /\ Len(queue) < EventQ)
  <2>1. queue' = queue /\ dropped' = TRUE
    BY <1>2, Zenon DEF hap_send_event
  <2> QED
    BY <2>1 DEF TypeInv
<1> QED
  BY <1>1, <1>2

\* The head of the queue is taken.
LEMMA Receiving ==
  ASSUME TypeInv, NEW S \in SUBSET Events, Receive(S)
  PROVE  /\ loop = "created" /\ reset = None /\ Head(queue) \in S /\ queue' = Tail(queue)
         /\ queue' \in Seq(Events) /\ Len(queue') <= EventQ
<1>1. queue \in Seq(Events) /\ queue # <<>> /\ queue' = Tail(queue) /\ Len(queue) <= EventQ /\ EventQ \in Nat
  BY HapDatabaseAssumption DEF Receive, TypeInv
<1>2. Tail(queue) \in Seq(Events) /\ Len(Tail(queue)) = Len(queue) - 1 /\ Len(queue) \in Nat
  BY <1>1
<1>3. Len(Tail(queue)) <= EventQ
  BY <1>1, <1>2
<1> QED
  BY <1>1, <1>2, <1>3 DEF Receive, Idle

\* An area or two are erased at a time.
LEMMA ErasuresTyped ==
  ASSUME NEW kind \in Resets PROVE Erasures(kind) \in Seq(Areas) /\ Erasures(kind) # None
<1>1. CASE kind = "pairings"
  BY <1>1 DEF Erasures, Areas, None
<1>2. CASE kind = "factory"
  BY <1>2 DEF Erasures, Areas, None
<1>3. CASE kind = "homekit"
  BY <1>3 DEF Erasures, Areas, None
<1>4. CASE kind = "network"
  BY <1>4 DEF Erasures, Areas, None
<1>5. CASE kind = "reboot"
  BY <1>5 DEF Erasures, Areas, None
<1> QED
  BY <1>1, <1>2, <1>3, <1>4, <1>5 DEF Resets

\* A namespace is erased, or a failure was counted.
Wiped(keys) ==
  \/ /\ \A k \in Keys : flash'[k] = IF k \in keys THEN 0 ELSE flash[k]
     /\ count' = count
  \/ /\ flash' = flash /\ count'["fails"] = count["fails"] + 1
     /\ \A d \in Counters : d # "fails" => count'[d] = count[d]

\* hap_keystore_delete_namespace() does that.
LEMMA WipeEffect ==
  ASSUME TypeInv, NEW keys, hap_keystore_delete_namespace(keys)
  PROVE  Flashed /\ Counting /\ Wiped(keys)
<1>1. CASE flash' = [k \in Keys |-> IF k \in keys THEN 0 ELSE flash[k]] /\ count' = count
  <2>1. flash' \in [Keys -> Nat] /\ \A k \in Keys : flash'[k] = IF k \in keys THEN 0 ELSE flash[k]
    BY <1>1 DEF TypeInv
  <2>2. \A k \in Keys : flash'[k] = 0 \/ flash'[k] = flash[k]
    BY <2>1
  <2>3. "config_num" \in Keys /\ "state_num" \in Keys /\ "setting" \in Keys
    BY DEF Keys
  <2>4. /\ flash'["config_num"] = 0 \/ flash'["config_num"] = flash["config_num"]
        /\ flash'["state_num"] = 0 \/ flash'["state_num"] = flash["state_num"]
        /\ flash'["setting"] = 0 \/ flash'["setting"] = flash["setting"]
    BY <2>2, <2>3
  <2>5. 0 <= CfgMax /\ 0 <= StateMax
    BY HapDatabaseAssumption
  <2>6. Flashed
    BY <2>1, <2>4, <2>5 DEF Flashed, TypeInv
  <2> QED
    BY <1>1, <2>1, <2>6, SameCounts, Zenon DEF Wiped
<1>2. CASE Once("fails") /\ flash' = flash
  <2>1. "fails" \in Counters
    BY DEF Counters
  <2> QED
    BY <1>2, <2>1, OnceCounts, Unchanged, Zenon DEF Wiped
<1> QED
  BY <1>1, <1>2, Zenon DEF hap_keystore_delete_namespace

\* A restart loses what is in RAM.
LEMMA RestartTypes ==
  ASSUME TypeInv, Restarted
  PROVE  Flashed /\ Private /\ Running /\ (fw' \in Versions => Rest)
<1>1. Flashed
  BY Unchanged, Zenon DEF Restarted
<1>2. Private
  BY HapDatabaseAssumption DEF Restarted, Private, Cleared, Keys, Ram
<1>3. Running
  <2>1. <<>> \in Seq(Events) /\ Len(<<>>) = 0 /\ 0 <= EventQ
    BY HapDatabaseAssumption
  <2> QED
    BY <2>1 DEF Restarted, Running, Phases, Booting
<1>4. fw' \in Versions => Rest
  <2>1. Silent \in Records
    BY DEF Silent, Records
  <2>2. MdnsTypes'
    BY <2>1 DEF Restarted, MdnsTypes
  <2> QED
    BY <2>2 DEF Restarted, Rest, TypeInv
<1> QED
  BY <1>1, <1>2, <1>3, <1>4

\* The loop formats hap_priv, or hap_priv with the next number, which it saves.
LEMMA FormatsLoop ==
  ASSUME TypeInv, hap_nw_configured_sm
  PROVE  \E p, changed : /\ Format("loop", p, changed) /\ p \in [Ram -> Nat]
                         /\ changed \in {{}, {"config_num"}}
                         /\ p["config_num"] <= CfgMax /\ p["state_num"] <= StateMax /\ p["setting"] <= 3
<1> DEFINE n == Following(priv["config_num"], CfgMax)
           q == [priv EXCEPT !["config_num"] = n]
<1>1. priv \in [Ram -> Nat] /\ priv["config_num"] <= CfgMax /\ priv["state_num"] <= StateMax /\ priv["setting"] <= 3
  BY DEF TypeInv
<1>2. n \in Nat /\ n <= CfgMax
  BY Ranges, HapDatabaseAssumption
<1>3. Format("loop", q, {"config_num"}) \/ Format("loop", priv, {})
  BY Zenon DEF hap_nw_configured_sm
<1> HIDE DEF n
<1>4. q \in [Ram -> Nat] /\ q["config_num"] <= CfgMax /\ q["state_num"] <= StateMax /\ q["setting"] <= 3
  <2>1. "config_num" \in Ram /\ "state_num" \in Ram /\ "setting" \in Ram
    BY DEF Keys, Ram
  <2>2. q \in [Ram -> Nat] /\ q["config_num"] = n /\ q["state_num"] = priv["state_num"]
        /\ q["setting"] = priv["setting"]
    BY <1>1, <1>2, <2>1
  <2> QED
    BY <1>1, <1>2, <2>2
<1>5. {} \in {{}, {"config_num"}} /\ {"config_num"} \in {{}, {"config_num"}}
  OBVIOUS
<1> HIDE DEF q
<1> QED
  BY <1>1, <1>3, <1>4, <1>5, Zenon

\* hap_mdns_deannounce() takes the record down or leaves it.
LEMMA DeannounceTypes ==
  ASSUME TypeInv, hap_mdns_deannounce, announcing' = announcing
  PROVE  MdnsTypes' /\ Counting /\ (txt' = txt \/ txt'.cfg = 0)
<1>1. "fails" \in Counters
  BY DEF Counters
<1>2. Counting
  <2>1. count' = count \/ Once("fails")
    BY Zenon DEF hap_mdns_deannounce
  <2> QED
    BY <1>1, <2>1, OnceCounts, SameCounts, Zenon
<1>3. txt \in [cfg : Nat, paired : BOOLEAN] /\ first_announce_done \in BOOLEAN
      /\ announcing \in [Tasks -> Records]
  BY DEF TypeInv, MdnsTypes
<1>4. /\ txt' = [txt EXCEPT !.cfg = 0] \/ txt' = txt
      /\ first_announce_done' = FALSE \/ first_announce_done' = first_announce_done
  BY Zenon DEF hap_mdns_deannounce
<1>5. txt' \in [cfg : Nat, paired : BOOLEAN] /\ (txt' = txt \/ txt'.cfg = 0)
  BY <1>3, <1>4
<1> QED
  BY <1>2, <1>3, <1>4, <1>5 DEF MdnsTypes

\* A task that has called mdns is silent again, and the record is its own, or
\* torn, or what it was.
LEMMA ServEffect ==
  ASSUME TypeInv, NEW task \in Tasks, hap_mdns_serv(task)
  PROVE  /\ MdnsTypes' /\ Counting /\ torn' \in BOOLEAN /\ dropped' \in BOOLEAN
         /\ announcing'[task] = Silent /\ \A t \in Tasks \ {task} : announcing'[t] = announcing[t]
         /\ \/ /\ announcing[task].how = "alone" /\ dropped' = FALSE /\ torn' = torn
               /\ txt' = [cfg |-> announcing[task].cfg, paired |-> announcing[task].paired]
            \/ torn' = TRUE /\ dropped' = TRUE
            \/ txt' = txt /\ torn' = torn /\ dropped' = TRUE
<1>1. "fails" \in Counters
  BY DEF Counters
<1>2. Counting
  <2>1. count' = count \/ Once("fails")
    BY Zenon DEF hap_mdns_serv
  <2> QED
    BY <1>1, <2>1, OnceCounts, SameCounts, Zenon
<1>3. /\ txt \in [cfg : Nat, paired : BOOLEAN] /\ announcing \in [Tasks -> Records]
      /\ torn \in BOOLEAN
  BY Zenon DEF TypeInv, MdnsTypes
<1>4. announcing' = [announcing EXCEPT ![task] = Silent] /\ first_announce_done' = TRUE
  BY Zenon DEF hap_mdns_serv
<1>5. Silent \in Records
  BY DEF Silent, Records
<1>6. /\ announcing' \in [Tasks -> Records] /\ announcing'[task] = Silent
      /\ \A t \in Tasks \ {task} : announcing'[t] = announcing[t]
  BY <1>3, <1>4, <1>5
<1>7. \/ /\ announcing[task].how = "alone" /\ dropped' = FALSE /\ torn' = torn
         /\ txt' = [cfg |-> announcing[task].cfg, paired |-> announcing[task].paired]
      \/ torn' = TRUE /\ dropped' = TRUE /\ txt' \in [cfg : 1..CfgMax, paired : BOOLEAN]
      \/ txt' = txt /\ torn' = torn /\ dropped' = TRUE
  BY Zenon DEF hap_mdns_serv
<1>8. txt' \in [cfg : Nat, paired : BOOLEAN]
  <2>1. announcing[task].cfg \in Nat /\ announcing[task].paired \in BOOLEAN
    BY <1>3 DEF Records
  <2>2. \A x \in Nat, b \in BOOLEAN : [cfg |-> x, paired |-> b] \in [cfg : Nat, paired : BOOLEAN]
    OBVIOUS
  <2>3. [cfg : 1..CfgMax, paired : BOOLEAN] \subseteq [cfg : Nat, paired : BOOLEAN]
    BY HapDatabaseAssumption
  <2> QED
    BY <1>3, <1>7, <2>1, <2>2, <2>3, Zenon
<1>9. MdnsTypes'
  BY <1>4, <1>6, <1>8, Zenon DEF MdnsTypes
<1>10. torn' \in BOOLEAN /\ dropped' \in BOOLEAN
  BY <1>3, <1>7, Zenon
<1> QED
  BY <1>2, <1>6, <1>7, <1>9, <1>10, Zenon

\* It keeps the types.
LEMMA ServTypes == ASSUME TypeInv, NEW task \in Tasks, hap_mdns_serv(task) PROVE TypeInv'
<1>1. UNCHANGED <<flash, priv, pc, running, drawn, fw, known, seen, late>>
  BY Zenon DEF hap_mdns_serv
<1>2. MdnsTypes' /\ Counting /\ torn' \in BOOLEAN /\ dropped' \in BOOLEAN
  BY ServEffect, Zenon
<1>3. Rest
  BY <1>1, <1>2, Zenon DEF Rest, TypeInv
<1> QED
  BY <1>1, <1>2, <1>3, Unchanged, Parts, Zenon

\* The loop keeps the types.
LEMMA LoopTypes == TypeInv /\ LoopStep => TypeInv'
<1> SUFFICES ASSUME TypeInv, LoopStep PROVE TypeInv'
  OBVIOUS
<1>0. pc \in Booting => loop = "no"
  BY DEF TypeInv
<1>1. CASE CreateQueue
  <2>1. Running
    BY <1>0, <1>1 DEF CreateQueue, Running, TypeInv
  <2> QED
    BY <1>1, <2>1, Unchanged, SameCounts, Parts, Zenon DEF CreateQueue, world
<1>2. CASE hap_nw_configured_sm
  <2>1. {"config", "announce"} \in SUBSET Events
    BY DEF Events
  <2>2. /\ loop = "created" /\ reset = None
        /\ queue' \in Seq(Events) /\ Len(queue') <= EventQ
    <3>1. Receive({"config"}) \/ Receive({"announce"})
      BY <1>2, Zenon DEF hap_nw_configured_sm
    <3>2. {"config"} \in SUBSET Events /\ {"announce"} \in SUBSET Events
      BY <2>1
    <3> QED
      BY <3>1, <3>2, Receiving
  <2>3. Running
    <3>1. UNCHANGED <<pc, loop, reset>>
      BY <1>2, Zenon DEF hap_nw_configured_sm
    <3> QED
      BY <1>0, <2>2, <3>1 DEF Running, TypeInv
  <2>4. PICK p, changed : /\ Format("loop", p, changed) /\ p \in [Ram -> Nat]
                          /\ changed \in {{}, {"config_num"}}
                          /\ p["config_num"] <= CfgMax /\ p["state_num"] <= StateMax /\ p["setting"] <= 3
    BY <1>2, FormatsLoop, Zenon
  <2>5. Formatted("loop", p, changed)
    BY <2>4, FormatEffect DEF Tasks
  <2>6. MdnsTypes'
    BY <1>2, <2>5, Zenon DEF hap_nw_configured_sm, Formatted, MdnsTypes, TypeInv
  <2>7. Rest
    BY <1>2, <2>6, Zenon DEF hap_nw_configured_sm, Rest, TypeInv, world
  <2> QED
    BY <2>3, <2>5, <2>7, Parts, Zenon DEF Formatted
<1>3. CASE ResetBegin
  <2>1. Resets \in SUBSET Events
    BY DEF Events
  <2>2. /\ loop = "created" /\ Head(queue) \in Resets
        /\ queue' \in Seq(Events) /\ Len(queue') <= EventQ
    BY <1>3, <2>1, Receiving DEF ResetBegin
  <2>3. Running
    BY <1>0, <1>3, <2>2, ErasuresTyped DEF ResetBegin, Running, TypeInv
  <2>4. MdnsTypes' /\ Counting
    <3>1. hap_mdns_deannounce /\ announcing' = announcing
      BY <1>3, Zenon DEF ResetBegin
    <3> QED
      BY <3>1, DeannounceTypes
  <2>5. Rest
    BY <1>3, <2>4, Zenon DEF ResetBegin, Rest, TypeInv, world
  <2> QED
    BY <1>3, <2>3, <2>4, <2>5, Unchanged, Parts, Zenon DEF ResetBegin
<1>4. CASE ResetErase
  <2>1. reset' \in Seq(Areas)
    BY <1>4 DEF ResetErase, TypeInv
  <2>2. loop = "created"
    BY <1>4 DEF ResetErase, TypeInv
  <2>3. Running
    BY <1>0, <1>4, <2>1, <2>2 DEF ResetErase, Running, TypeInv
  <2>4. Flashed /\ Counting
    BY <1>4, WipeEffect, Zenon DEF ResetErase
  <2> QED
    BY <1>4, <2>3, <2>4, Unchanged, Parts, Zenon DEF ResetErase, world
<1>5. CASE ResetRestart
  <2>1. fw' \in Versions /\ count' = count
    BY <1>5 DEF ResetRestart, TypeInv
  <2> QED
    BY <1>5, <2>1, RestartTypes, SameCounts, Parts, Zenon DEF ResetRestart
<1>6. CASE hap_mdns_serv("loop")
  BY <1>6, ServTypes DEF Tasks
<1> QED
  BY <1>1, <1>2, <1>3, <1>4, <1>5, <1>6 DEF LoopStep

\* Controllers and the application keep the types, and so does a loss of power.
LEMMA OtherTypes ==
  TypeInv /\ (Crash \/ Pair \/ Unpair \/ ReadDatabase \/ SendEvent \/ Configure \/ Notify) => TypeInv'
<1> SUFFICES ASSUME TypeInv, Crash \/ Pair \/ Unpair \/ ReadDatabase \/ SendEvent \/ Configure \/ Notify
             PROVE  TypeInv'
  OBVIOUS
<1>0. /\ "ops" \in Counters /\ "crashes" \in Counters
      /\ "announce" \in Events /\ "config" \in Events /\ Resets \subseteq Events
      /\ "ctrl" \in Ram /\ "ctrl" \in Keys /\ "setting" \in Ram /\ "setting" \in Keys
      /\ "config_num" \in Ram /\ "config_num" \in Keys /\ "acc_id" \in Ram /\ "ltpka" \in Ram
      /\ "state_num" \in Ram /\ "state_num" \in Keys
      /\ "running" \notin Booting
  BY DEF Counters, Events, Ram, Keys, Booting
<1>1. CASE Crash
  <2>1. Counting
    BY <1>0, <1>1, OnceCounts DEF Crash
  <2> QED
    BY <1>1, <2>1, RestartTypes, Parts, Zenon DEF Crash
<1>2. ASSUME Operation PROVE Counting /\ pc = "running"
  BY <1>0, <1>2, OnceCounts DEF Operation
\* An event is sent, and the rest of the loop stays.
<1>3. ASSUME NEW e \in Events, hap_send_event(e), UNCHANGED <<pc, loop, reset>>
      PROVE  Running /\ dropped' \in BOOLEAN
  BY <1>3, Sending DEF Running, TypeInv
\* The pairing is set or cleared in both copies.
<1>4. ASSUME NEW v \in {0, 1}, priv' = [priv EXCEPT !["ctrl"] = v], flash' = [flash EXCEPT !["ctrl"] = v]
      PROVE  Private /\ Flashed
  <2>1. v \in Nat
    OBVIOUS
  <2>2. /\ priv' \in [Ram -> Nat] /\ flash' \in [Keys -> Nat]
        /\ \A k \in Ram : k # "ctrl" => priv'[k] = priv[k]
        /\ \A k \in Keys : k # "ctrl" => flash'[k] = flash[k]
    BY <1>4, <2>1 DEF TypeInv
  <2> QED
    BY <1>0, <2>2 DEF Private, Flashed, TypeInv
<1>5. CASE Pair
  <2>1. Private /\ Flashed /\ Counting
    BY <1>2, <1>4, <1>5 DEF Pair
  <2>2. Running /\ dropped' \in BOOLEAN
    BY <1>0, <1>3, <1>5, Zenon DEF Pair
  <2>3. known' \in [id : Nat, pk : Nat] /\ seen' \in [cfg : Nat, fw : Nat]
    <3>1. priv["acc_id"] \in Nat /\ priv["ltpka"] \in Nat /\ priv["config_num"] \in Nat /\ fw \in Nat
      BY <1>0, HapDatabaseAssumption DEF TypeInv
    <3> QED
      BY <1>5, <3>1 DEF Pair
  <2>4. late' \in BOOLEAN
    BY <1>5, Zenon DEF Pair, TypeInv
  <2>5. MdnsTypes' /\ drawn' = drawn /\ fw' = fw /\ torn' = torn
    BY <1>5, Unchanged, Zenon DEF Pair
  <2>6. Rest
    BY <2>2, <2>3, <2>4, <2>5, Zenon DEF Rest, TypeInv
  <2> QED
    BY <2>1, <2>2, <2>6, Parts, Zenon
<1>6. CASE Unpair
  <2>1. Private /\ Flashed /\ Counting
    BY <1>2, <1>4, <1>6 DEF Unpair
  <2>2. Running /\ dropped' \in BOOLEAN
    BY <1>0, <1>3, <1>6, Zenon DEF Unpair
  <2>3. Rest
    BY <1>6, <2>2, Unchanged, Zenon DEF Unpair, Rest, TypeInv
  <2> QED
    BY <2>1, <2>2, <2>3, Parts, Zenon
<1>7. CASE ReadDatabase
  <2>1. txt.cfg \in Nat /\ fw \in Nat
    BY HapDatabaseAssumption DEF TypeInv, MdnsTypes
  <2>2. seen' \in [cfg : Nat, fw : Nat]
    BY <1>7, <2>1 DEF ReadDatabase
  <2>3. Rest
    BY <1>7, <2>2, Unchanged, Zenon DEF ReadDatabase, Rest, TypeInv
  <2> QED
    BY <1>7, <2>3, Unchanged, SameCounts, Parts, Zenon DEF ReadDatabase
<1>8. CASE SendEvent
  <2>1. PICK e \in Resets \cup {"config"} : hap_send_event(e)
    BY <1>8, Zenon DEF SendEvent
  <2>2. e \in Events
    BY <1>0
  <2>3. Running /\ dropped' \in BOOLEAN
    BY <1>3, <1>8, <2>1, <2>2, Zenon DEF SendEvent
  <2>4. Rest
    BY <1>8, <2>3, Unchanged, Zenon DEF SendEvent, Rest, TypeInv
  <2> QED
    BY <1>2, <1>8, <2>3, <2>4, Unchanged, Parts, Zenon DEF SendEvent
<1>9. CASE Configure
  <2>1. PICK v \in 0..3 : priv' = [priv EXCEPT !["setting"] = v]
    <3>1. priv["setting"] \in Nat /\ priv["setting"] <= 3
      BY <1>0 DEF TypeInv
    <3>2. 3 - priv["setting"] \in 0..3
      BY <3>1
    <3> QED
      BY <1>9, <3>2 DEF Configure
  <2>2. v \in Nat /\ v <= 3 /\ "setting" # "config_num" /\ "setting" # "state_num"
    OBVIOUS
  <2>3. Private /\ priv'["setting"] = v
    BY <1>0, <2>1, <2>2, PutTypes
  <2>4. flash' = [flash EXCEPT !["setting"] = v]
    BY <1>9, <2>3 DEF Configure
  <2>5. /\ flash' \in [Keys -> Nat] /\ flash'["setting"] = v
        /\ \A k \in Keys : k # "setting" => flash'[k] = flash[k]
    BY <1>0, <2>2, <2>4 DEF TypeInv
  <2>6. Flashed
    BY <1>0, <2>2, <2>5 DEF Flashed, TypeInv
  <2> QED
    BY <1>2, <1>9, <2>3, <2>6, Unchanged, Parts, Zenon DEF Configure, world
<1>10. CASE Notify
  <2>1. Format("httpd", priv, {})
    BY <1>10, Zenon DEF Notify
  <2>2. Formatted("httpd", priv, {})
    BY <2>1, FormatEffect DEF Tasks, TypeInv
  <2>3. MdnsTypes'
    BY <1>10, <2>2, Zenon DEF Notify, Formatted, MdnsTypes, TypeInv
  <2>4. Rest
    BY <1>10, <2>3, Zenon DEF Notify, Rest, TypeInv, world
  <2> QED
    BY <1>10, <2>2, <2>4, Unchanged, Parts, Zenon DEF Notify, Formatted
<1> QED
  BY <1>1, <1>5, <1>6, <1>7, <1>8, <1>9, <1>10

\* Every step keeps the types.
LEMMA TypeStep == TypeInv /\ [Next]_vars => TypeInv'
<1>1. TypeInv /\ UNCHANGED vars => TypeInv'
  BY DEF vars, running, world, TypeInv, mdns, MdnsTypes
<1>2. "httpd" \in Tasks
  BY DEF Tasks
<1> QED
  BY <1>1, <1>2, StartTypes, LoopTypes, OtherTypes, ServTypes, Zenon DEF Next

-----------------------------------------------------------------------------
(* Identity, keys and the controller that knows them *)

Sure == count["fails"] = 0
IdKeys == {"acc_id", "ltska", "ltpka", "ctrl"}
Later  == Phases \ {"keystore", "id", "ska", "pka", "ctrl", "failed"}

\* A reset erases the controllers before the identity they know.
ResetShape ==
  reset \in {None, <<>>, <<"net">>, <<"all">>, <<"main">>, <<"ctrl", "main">>, <<"net", "main">>,
            <<"ctrl", "net", "main">>}
Erasing == reset \in {<<"main">>, <<"net", "main">>}

\* A key pair that is being saved belongs to the identity saved before it.
Drawing ==
  /\ pc = "ska" => /\ drawn # 0 /\ flash["acc_id"] = drawn /\ priv["acc_id"] = drawn
                   /\ flash["ltpka"] = 0
  /\ pc = "pka" => /\ drawn # 0 /\ flash["acc_id"] = drawn /\ priv["acc_id"] = drawn
                   /\ flash["ltska"] = drawn /\ priv["ltpka"] = drawn

KeyInv ==
  /\ ResetShape
  /\ Sure =>
       /\ flash["ltpka"] # 0 => flash["ltska"] = flash["ltpka"] /\ flash["acc_id"] = flash["ltpka"]
       /\ pc # "failed" /\ Drawing
       /\ pc \in {"keystore", "id", "ska", "pka", "ctrl"} => priv["ctrl"] = 0
       /\ pc \in Later \cup {"ctrl"} /\ reset = None =>
            /\ priv["acc_id"] = flash["acc_id"] /\ flash["acc_id"] # 0
            /\ priv["ltpka"] = flash["ltpka"]
  /\ Sure /\ ~late =>
       /\ flash["ctrl"] # 0 => flash["acc_id"] # 0 /\ known = [id |-> flash["acc_id"], pk |-> flash["ltpka"]]
       /\ priv["ctrl"] # 0 => known = [id |-> priv["acc_id"], pk |-> priv["ltpka"]]
       /\ Erasing \/ pc \in {"ska", "pka"} => flash["ctrl"] = 0

\* A step that has nothing to do with the identity and those who know it.
Quiet ==
  /\ \A k \in IdKeys : flash'[k] = flash[k] /\ priv'[k] = priv[k]
  /\ known' = known /\ late' = late /\ drawn' = drawn /\ reset' = reset
  /\ pc' = pc \/ (pc \in Later /\ pc' \in Later)
  /\ Sure' => Sure

\* Such a step keeps identity and keys together.
LEMMA QuietKeeps == KeyInv /\ Quiet => KeyInv'
<1> SUFFICES ASSUME KeyInv, Quiet PROVE KeyInv'
  OBVIOUS
<1>1. /\ flash'["acc_id"] = flash["acc_id"] /\ flash'["ltska"] = flash["ltska"]
      /\ flash'["ltpka"] = flash["ltpka"] /\ flash'["ctrl"] = flash["ctrl"]
      /\ priv'["acc_id"] = priv["acc_id"] /\ priv'["ltpka"] = priv["ltpka"]
      /\ priv'["ctrl"] = priv["ctrl"]
  BY DEF Quiet, IdKeys
<1>2. /\ known' = known /\ late' = late /\ drawn' = drawn /\ reset' = reset
      /\ pc' = pc \/ (pc \in Later /\ pc' \in Later)
      /\ Sure' => Sure
  BY Zenon DEF Quiet
<1>3. ResetShape' /\ (Erasing' <=> Erasing)
  BY <1>2 DEF KeyInv, ResetShape, Erasing
<1>4. CASE pc' = pc
  BY <1>1, <1>2, <1>3, <1>4 DEF KeyInv, Drawing
<1>5. CASE pc \in Later /\ pc' \in Later
  <2>1. /\ pc' \notin {"ska", "pka", "keystore", "id", "ctrl", "failed"}
        /\ pc' \in Later \cup {"ctrl"} /\ pc \in Later \cup {"ctrl"}
    BY <1>5 DEF Later
  <2> QED
    BY <1>1, <1>2, <1>3, <2>1 DEF KeyInv, Drawing
<1> QED
  BY <1>2, <1>4, <1>5

\* No failure is taken back.
LEMMA SureBefore == ASSUME TypeInv, TypeInv', Counting, Sure' PROVE Sure
<1>1. "fails" \in Counters
  BY DEF Counters
<1>2. count["fails"] \in Nat /\ count["fails"] <= count'["fails"]
  BY <1>1 DEF TypeInv, Counting
<1> QED
  BY <1>2 DEF Sure

\* Every step counts one thing at most.
LEMMA Counts == TypeInv /\ [Next]_vars => Counting
<1> SUFFICES ASSUME TypeInv, [Next]_vars PROVE Counting
  OBVIOUS
<1>1. "fails" \in Counters /\ "crashes" \in Counters /\ "ops" \in Counters
  BY DEF Counters
<1>2. Once("fails") \/ Once("crashes") \/ Once("ops") \/ count' = count => Counting
  BY <1>1, OnceCounts, SameCounts
<1>3. CASE Start
  BY <1>2, <1>3, Zenon DEF Start, InitKeystore, hap_database_init, GetIdentity, SaveKey, GetControllers,
     Restore, InitStateNumber, CheckFirmware, SameFirmware, HapStart, hap_keystore_set
<1>4. CASE LoopStep
  BY <1>2, <1>4, Zenon DEF LoopStep, CreateQueue, hap_nw_configured_sm, ResetBegin, ResetErase, ResetRestart,
     Format, hap_mdns_serv, hap_mdns_deannounce, hap_keystore_delete_namespace
<1>5. CASE \/ Crash \/ Pair \/ Unpair \/ ReadDatabase \/ SendEvent \/ Configure
           \/ Notify \/ hap_mdns_serv("httpd") \/ UNCHANGED vars
  BY <1>2, <1>5, Zenon DEF Crash, Pair, Unpair, ReadDatabase, SendEvent, Configure, Operation, vars, Notify,
     Format, hap_mdns_serv
<1> QED
  BY <1>3, <1>4, <1>5, Zenon DEF Next

\* What is written while no failure has been counted is written.
LEMMA SureWrites ==
  ASSUME TypeInv, Sure'
  PROVE  /\ ~Once("fails")
         /\ \A k \in Keys, v \in Nat : Stored(k, v) => flash'[k] = v
<1>1. "fails" \in Counters /\ count["fails"] \in Nat
  BY DEF TypeInv, Counters
<1>2. count["fails"] + 1 # 0
  BY <1>1
<1>3. ~Once("fails")
  BY <1>1, <1>2, OnceCounts DEF Sure
<1> QED
  BY <1>2, <1>3 DEF Stored, Sure

\* The steps of a reset.
LEMMA ShapeStep == TypeInv /\ ResetShape /\ [Next]_vars => ResetShape'
<1> SUFFICES ASSUME TypeInv, ResetShape, [Next]_vars PROVE ResetShape'
  OBVIOUS
<1>1. CASE reset' = reset
  BY <1>1 DEF ResetShape
<1>2. CASE ResetBegin
  <2>1. Resets \in SUBSET Events
    BY DEF Events
  <2>2. Head(queue) \in Resets /\ reset' = Erasures(Head(queue))
    BY <1>2, <2>1, Receiving, Zenon DEF ResetBegin
  <2>3. \A e \in Resets : Erasures(e) \in {<<>>, <<"net">>, <<"all">>, <<"ctrl", "main">>, <<"ctrl", "net", "main">>}
    BY DEF Resets, Erasures
  <2> QED
    BY <2>2, <2>3 DEF ResetShape
<1>3. CASE ResetErase
  <2>1. reset' = Tail(reset) /\ reset \in {<<"net">>, <<"all">>, <<"main">>, <<"ctrl", "main">>,
                                         <<"net", "main">>, <<"ctrl", "net", "main">>}
    BY <1>3 DEF ResetErase, ResetShape
  <2>2. /\ Tail(<<"net">>) = <<>> /\ Tail(<<"all">>) = <<>> /\ Tail(<<"main">>) = <<>>
        /\ Tail(<<"ctrl", "main">>) = <<"main">> /\ Tail(<<"net", "main">>) = <<"main">>
        /\ Tail(<<"ctrl", "net", "main">>) = <<"net", "main">>
    OBVIOUS
  <2> QED
    BY <2>1, <2>2, Zenon DEF ResetShape
<1>4. CASE Restarted
  BY <1>4 DEF Restarted, ResetShape
<1>5. CASE Start
  BY <1>1, <1>5, Zenon DEF Start, InitKeystore, hap_database_init, GetIdentity, SaveKey, GetControllers,
     Restore, InitStateNumber, CheckFirmware, SameFirmware, HapStart, running
<1>6. CASE LoopStep
  BY <1>1, <1>2, <1>3, <1>4, <1>6, Zenon DEF LoopStep, CreateQueue, hap_nw_configured_sm, ResetRestart,
     hap_mdns_serv, running
<1>7. CASE \/ Crash \/ Pair \/ Unpair \/ ReadDatabase \/ SendEvent \/ Configure
           \/ Notify \/ hap_mdns_serv("httpd") \/ UNCHANGED vars
  BY <1>1, <1>4, <1>7, Zenon DEF Crash, Pair, Unpair, ReadDatabase, SendEvent, Configure, Notify, hap_mdns_serv,
     vars, running
<1> QED
  BY <1>5, <1>6, <1>7, Zenon DEF Next

\* Steps of the start, of the loop and of the application that are quiet.
LEMMA QuietSteps ==
  ASSUME TypeInv, TypeInv', Counting, Sure',
         \/ Restore("config", "config_num", 1, "aid") \/ Restore("aid", "cur_aid", 1, "state")
         \/ InitStateNumber \/ Restore("setting", "setting", 1, "linked")
         \/ CheckFirmware \/ SameFirmware \/ (HapStart /\ UNCHANGED <<flash, priv, drawn, fw, known, seen, late, torn>>)
         \/ CreateQueue \/ hap_nw_configured_sm \/ ReadDatabase \/ SendEvent \/ Configure
         \/ Notify \/ hap_mdns_serv("loop") \/ hap_mdns_serv("httpd") \/ UNCHANGED vars
  PROVE  Quiet
<1>1. Sure
  BY SureBefore
<1>2. /\ IdKeys \subseteq Keys /\ IdKeys \subseteq Ram
      /\ \A k \in IdKeys : k \notin {"config_num", "cur_aid", "state_num", "setting", "fw_rev"}
  BY DEF IdKeys, Keys, Ram
<1>3. \A k \in Keys : \A v : hap_keystore_set(k, v) => flash' = [flash EXCEPT ![k] = v]
  BY SureWrites, Zenon DEF hap_keystore_set
<1>4. ASSUME NEW k \in {"config_num", "cur_aid", "setting", "state_num", "fw_rev"}, NEW v,
             hap_keystore_set(k, v) \/ flash' = flash
      PROVE  \A j \in IdKeys : flash'[j] = flash[j]
  <2>1. k \in Keys
    BY DEF Keys
  <2>2. flash' = [flash EXCEPT ![k] = v] \/ flash' = flash
    BY <1>3, <1>4, <2>1, Zenon
  <2> QED
    BY <1>2, <2>2 DEF TypeInv
<1>5. ASSUME NEW k \in {"config_num", "cur_aid", "setting", "state_num"}, NEW v,
             priv' = [priv EXCEPT ![k] = v]
      PROVE  \A j \in IdKeys : priv'[j] = priv[j]
  BY <1>2, <1>5 DEF TypeInv
<1>6. ASSUME NEW p \in Later, NEW k \in {"config_num", "cur_aid", "setting"}, NEW q \in Later,
             Restore(p, k, 1, q)
      PROVE  Quiet
  <2>1. pc \in Later /\ pc' \in Later
    BY <1>6 DEF Restore
  <2>2. \A j \in IdKeys : priv'[j] = priv[j]
    BY <1>5, <1>6, Zenon DEF Restore
  <2>3. \A j \in IdKeys : flash'[j] = flash[j]
    BY <1>4, <1>6, Zenon DEF Restore
  <2> QED
    BY <1>1, <1>6, <2>1, <2>2, <2>3, Zenon DEF Restore, Quiet, world, running
<1>7. {"aid", "state", "setting", "linked", "fw", "fwsave", "httpd", "loop", "mdns", "services",
       "running", "config"} \subseteq Later
  BY DEF Later, Phases, Booting
<1>8. CASE InitStateNumber
  <2>1. PICK n : /\ priv' = [priv EXCEPT !["state_num"] = n]
                 /\ (hap_keystore_set("state_num", n) \/ flash' = flash)
    BY <1>8, Zenon DEF InitStateNumber
  <2>2. \A j \in IdKeys : flash'[j] = flash[j] /\ priv'[j] = priv[j]
    BY <1>4, <1>5, <2>1, Zenon
  <2>3. pc \in Later /\ pc' \in Later
    BY <1>7, <1>8 DEF InitStateNumber
  <2> QED
    BY <1>1, <1>8, <2>2, <2>3, Zenon DEF InitStateNumber, Quiet, world, running
<1>9. CASE CheckFirmware \/ SameFirmware
  <2>1. /\ priv' = priv \/ \E n : priv' = [priv EXCEPT !["config_num"] = n]
        /\ \/ flash' = flash
           \/ \E n : hap_keystore_set("config_num", n)
           \/ \E n : hap_keystore_set("fw_rev", n)
    BY <1>9, Zenon DEF CheckFirmware, SameFirmware
  <2>2. \A j \in IdKeys : flash'[j] = flash[j] /\ priv'[j] = priv[j]
    BY <1>4, <1>5, <2>1, Zenon
  <2>3. pc \in Later /\ pc' \in Later
    BY <1>7, <1>9 DEF CheckFirmware, SameFirmware, Step
  <2> QED
    BY <1>1, <1>9, <2>2, <2>3, Zenon DEF CheckFirmware, SameFirmware, Quiet, world, running
\* Format() of RAM with another configuration number at most.
<1>10. ASSUME NEW t \in Tasks, NEW p, NEW n, p = priv \/ p = [priv EXCEPT !["config_num"] = n],
              Format(t, p, {}) \/ Format(t, p, {"config_num"})
       PROVE  \A j \in IdKeys : flash'[j] = flash[j] /\ priv'[j] = priv[j]
  <2>1. PICK m : priv' = [p EXCEPT !["state_num"] = m]
    BY <1>10, Zenon DEF Format
  <2>2. \E done \in SUBSET {"config_num", "state_num"} :
          flash' = [k \in Keys |-> IF k \in done THEN priv'[k] ELSE flash[k]]
    <3>1. \E saved \in {{}, {"config_num"}, {"state_num"}, {"config_num", "state_num"}} : \E done \in SUBSET saved :
            flash' = [k \in Keys |-> IF k \in done THEN priv'[k] ELSE flash[k]]
      <4>1. /\ {} \cup {"state_num"} = {"state_num"}
            /\ {"config_num"} \cup {"state_num"} = {"config_num", "state_num"}
        OBVIOUS
      <4> QED
        BY <1>10, <4>1, Zenon DEF Format
    <3> QED
      BY <3>1
  <2>3. \A j \in IdKeys : flash'[j] = flash[j]
    BY <1>2, <2>2 DEF TypeInv
  <2>4. \A j \in IdKeys : priv'[j] = priv[j]
    BY <1>2, <1>10, <2>1 DEF TypeInv
  <2> QED
    BY <2>3, <2>4
<1>11. CASE HapStart /\ UNCHANGED <<flash, priv, drawn, fw, known, seen, late, torn>>
  <2>1. pc \in Later /\ pc' \in Later
    BY <1>7, <1>11, SureWrites, Zenon DEF HapStart, Step
  <2>2. reset' = reset
    BY <1>11, Zenon DEF HapStart, running
  <2> QED
    BY <1>1, <1>11, <2>1, <2>2, Zenon DEF Quiet
<1>12. CASE hap_nw_configured_sm \/ Notify
  <2>1. \E t \in Tasks : \E p, n : /\ p = priv \/ p = [priv EXCEPT !["config_num"] = n]
                                   /\ Format(t, p, {}) \/ Format(t, p, {"config_num"})
    <3>1. "loop" \in Tasks /\ "httpd" \in Tasks
      BY DEF Tasks
    <3> QED
      BY <1>12, <3>1, Zenon DEF hap_nw_configured_sm, Notify
  <2>2. \A j \in IdKeys : flash'[j] = flash[j] /\ priv'[j] = priv[j]
    BY <1>10, <2>1, Zenon
  <2> QED
    BY <1>1, <1>12, <2>2, Zenon DEF hap_nw_configured_sm, Notify, Quiet, world, running
<1>13. CASE \/ CreateQueue \/ ReadDatabase \/ SendEvent \/ hap_mdns_serv("loop") \/ hap_mdns_serv("httpd")
            \/ UNCHANGED vars
  BY <1>1, <1>13, Zenon DEF CreateQueue, ReadDatabase, SendEvent, hap_mdns_serv, vars, Quiet, world, running
<1>14. CASE Configure
  <2>1. \A j \in IdKeys : priv'[j] = priv[j]
    BY <1>5, <1>14, Zenon DEF Configure
  <2>2. \A j \in IdKeys : flash'[j] = flash[j]
    BY <1>2, <1>14 DEF Configure, TypeInv
  <2> QED
    BY <1>1, <1>14, <2>1, <2>2, Zenon DEF Configure, Quiet, world, running
<1>15. /\ "config_num" \in {"config_num", "cur_aid", "setting"}
       /\ "cur_aid" \in {"config_num", "cur_aid", "setting"}
       /\ "setting" \in {"config_num", "cur_aid", "setting"}
       /\ {"config", "aid", "setting", "state", "linked"} \subseteq Later
  BY <1>7
<1> QED
  BY <1>6, <1>8, <1>9, <1>11, <1>12, <1>13, <1>14, <1>15

\* Every step keeps identity and keys together, and those who know them.
LEMMA KeyStep == TypeInv /\ KeyInv /\ [Next]_vars => KeyInv'
<1> SUFFICES ASSUME TypeInv, KeyInv, [Next]_vars PROVE KeyInv'
  OBVIOUS
<1>1. TypeInv' /\ Counting /\ ResetShape'
  BY TypeStep, Counts, ShapeStep DEF KeyInv
<1> SUFFICES ASSUME Sure' PROVE KeyInv'
  BY <1>1, Zenon DEF KeyInv
<1>2. Sure /\ ~Once("fails")
  BY <1>1, SureBefore, SureWrites
<1>3. /\ "acc_id" \in Ram /\ "ltska" \in Ram /\ "ltpka" \in Ram /\ "ctrl" \in Ram
      /\ "acc_id" \in Keys /\ "ltska" \in Keys /\ "ltpka" \in Keys /\ "ctrl" \in Keys
  BY DEF Ram, Keys
<1>4. \A k \in Keys : \A v : hap_keystore_set(k, v) => flash' = [flash EXCEPT ![k] = v]
  BY <1>2, Zenon DEF hap_keystore_set
<1>5. pc \in Booting => reset = None
  BY DEF TypeInv
<1>6. reset = None => ~Erasing
  BY DEF Erasing, None
<1>7. CASE InitKeystore
  <2>1. /\ pc = "keystore" /\ pc' = "id" /\ priv' = priv /\ known' = known /\ late' = late /\ reset' = reset
        /\ flash' = flash \/ flash' = Empty
    BY <1>2, <1>7, Zenon DEF InitKeystore, world, running
  <2>2. /\ flash'["ltpka"] # 0 => flash["ltpka"] # 0 /\ flash' = flash
        /\ flash'["ctrl"] # 0 => flash["ctrl"] # 0 /\ flash' = flash
    BY <1>3, <2>1 DEF Empty
  <2>3. ~Erasing'
    BY <1>5, <1>6, <2>1 DEF Booting, Erasing
  <2> QED
    BY <1>1, <1>2, <2>1, <2>2, <2>3 DEF KeyInv, Drawing, Later
<1>8. CASE GetIdentity
  <2>1. CASE flash["acc_id"] # 0
    <3>1. /\ pc = "id" /\ pc' = "ctrl" /\ flash' = flash /\ known' = known /\ late' = late /\ reset' = reset
          /\ priv'["acc_id"] = flash["acc_id"] /\ priv'["ltpka"] = flash["ltpka"] /\ priv'["ctrl"] = priv["ctrl"]
      BY <1>3, <1>8, <2>1 DEF GetIdentity, world, running, TypeInv
    <3>2. ~Erasing'
      BY <1>5, <1>6, <3>1 DEF Booting, Erasing
    <3> QED
      BY <1>1, <1>2, <2>1, <3>1, <3>2 DEF KeyInv, Drawing, Later
  <2>2. CASE flash["acc_id"] = 0
    <3>1. /\ pc = "id" /\ pc' = "ska" /\ drawn' = drawn + 1 /\ known' = known /\ late' = late /\ reset' = reset
          /\ priv' = [priv EXCEPT !["acc_id"] = drawn'] /\ hap_keystore_set("acc_id", drawn')
      BY <1>8, <2>2 DEF GetIdentity, world, running
    <3>2. flash' = [flash EXCEPT !["acc_id"] = drawn']
      BY <1>3, <1>4, <3>1, Zenon
    <3>3. /\ flash'["acc_id"] = drawn' /\ flash'["ltpka"] = flash["ltpka"] /\ flash'["ctrl"] = flash["ctrl"]
          /\ priv'["acc_id"] = drawn' /\ priv'["ctrl"] = priv["ctrl"]
      BY <1>3, <3>1, <3>2 DEF TypeInv
    <3>4. drawn' # 0
      BY <3>1 DEF TypeInv
    <3>5. flash["ltpka"] = 0
      BY <1>2, <2>2 DEF KeyInv
    <3>6. ~Erasing'
      BY <1>5, <1>6, <3>1 DEF Booting, Erasing
    <3>7. CASE late
      BY <1>1, <1>2, <3>1, <3>3, <3>4, <3>5, <3>6, <3>7 DEF KeyInv, Drawing, Later
    <3>8. CASE ~late
      BY <1>1, <1>2, <2>2, <3>1, <3>3, <3>4, <3>5, <3>6, <3>8 DEF KeyInv, Drawing, Later
    <3> QED
      BY <3>7, <3>8
  <2> QED
    BY <2>1, <2>2
<1>9. CASE SaveKey("ska", "ltska", "pka")
  <2>1. /\ pc = "ska" /\ pc' = "pka" /\ known' = known /\ late' = late /\ reset' = reset /\ drawn' = drawn
        /\ priv' = [priv EXCEPT !["ltska"] = drawn, !["ltpka"] = drawn] /\ hap_keystore_set("ltska", drawn)
    BY <1>9, Zenon DEF SaveKey, world, running
  <2>2. flash' = [flash EXCEPT !["ltska"] = drawn]
    BY <1>3, <1>4, <2>1, Zenon
  <2>3. /\ flash'["acc_id"] = flash["acc_id"] /\ flash'["ltpka"] = flash["ltpka"] /\ flash'["ctrl"] = flash["ctrl"]
        /\ flash'["ltska"] = drawn
        /\ priv'["acc_id"] = priv["acc_id"] /\ priv'["ltpka"] = drawn /\ priv'["ctrl"] = priv["ctrl"]
    BY <1>3, <2>1, <2>2 DEF TypeInv
  <2>4. ~Erasing'
    BY <1>5, <1>6, <2>1 DEF Booting, Erasing
  <2> QED
    BY <1>1, <1>2, <2>1, <2>3, <2>4 DEF KeyInv, Drawing, Later
<1>10. CASE SaveKey("pka", "ltpka", "ctrl")
  <2>1. /\ pc = "pka" /\ pc' = "ctrl" /\ known' = known /\ late' = late /\ reset' = reset /\ drawn' = drawn
        /\ priv' = [priv EXCEPT !["ltska"] = drawn, !["ltpka"] = drawn] /\ hap_keystore_set("ltpka", drawn)
    BY <1>10, Zenon DEF SaveKey, world, running
  <2>2. flash' = [flash EXCEPT !["ltpka"] = drawn]
    BY <1>3, <1>4, <2>1, Zenon
  <2>3. /\ flash'["acc_id"] = flash["acc_id"] /\ flash'["ltska"] = flash["ltska"] /\ flash'["ctrl"] = flash["ctrl"]
        /\ flash'["ltpka"] = drawn
        /\ priv'["acc_id"] = priv["acc_id"] /\ priv'["ltpka"] = drawn /\ priv'["ctrl"] = priv["ctrl"]
    BY <1>3, <2>1, <2>2 DEF TypeInv
  <2>4. ~Erasing'
    BY <1>5, <1>6, <2>1 DEF Booting, Erasing
  <2> QED
    BY <1>1, <1>2, <2>1, <2>3, <2>4 DEF KeyInv, Drawing, Later
<1>11. CASE GetControllers
  <2>1. /\ pc = "ctrl" /\ pc' = "config" /\ flash' = flash /\ known' = known /\ late' = late /\ reset' = reset
        /\ priv'["acc_id"] = priv["acc_id"] /\ priv'["ltpka"] = priv["ltpka"] /\ priv'["ctrl"] = flash["ctrl"]
    BY <1>3, <1>11 DEF GetControllers, world, running, TypeInv
  <2>2. ~Erasing'
    BY <1>5, <1>6, <2>1 DEF Booting, Erasing
  <2>3. reset = None
    BY <1>5, <2>1 DEF Booting
  <2> QED
    BY <1>1, <1>2, <2>1, <2>2, <2>3 DEF KeyInv, Drawing, Later
<1>12. CASE Restarted
  <2>1. /\ pc' = "keystore" /\ priv'["ctrl"] = 0 /\ flash' = flash /\ known' = known /\ late' = late
        /\ reset' = None
    BY <1>3, <1>12 DEF Restarted, Cleared
  <2>2. ~Erasing'
    BY <2>1 DEF Erasing, None
  <2> QED
    BY <1>1, <1>2, <2>1, <2>2 DEF KeyInv, Drawing, Later
<1>13. CASE ResetBegin
  <2>1. /\ reset = None /\ reset' # None /\ ~Erasing'
    <3>1. Resets \in SUBSET Events
      BY DEF Events
    <3>2. reset = None /\ Head(queue) \in Resets /\ reset' = Erasures(Head(queue))
      BY <1>13, <3>1, Receiving, Zenon DEF ResetBegin
    <3>3. \A e \in Resets : Erasures(e) \in {<<>>, <<"net">>, <<"all">>, <<"ctrl", "main">>, <<"ctrl", "net", "main">>}
      BY DEF Resets, Erasures
    <3>4. reset' \in {<<>>, <<"net">>, <<"all">>, <<"ctrl", "main">>, <<"ctrl", "net", "main">>}
      BY <3>2, <3>3
    <3> QED
      BY <3>2, <3>4 DEF None, Erasing
  <2>2. UNCHANGED <<flash, priv, pc, known, late, drawn>>
    BY <1>13, Zenon DEF ResetBegin, world
  <2> QED
    BY <1>1, <1>2, <2>1, <2>2 DEF KeyInv, Drawing
<1>14. CASE ResetErase
  <2>1. UNCHANGED <<priv, pc, known, late, drawn>> /\ pc \notin Booting /\ reset \notin {None, <<>>}
    BY <1>14 DEF ResetErase, world, TypeInv
  <2>2. \A k \in Keys : flash'[k] = IF k \in Erased(Head(reset)) THEN 0 ELSE flash[k]
    BY <1>2, <1>14 DEF ResetErase, hap_keystore_delete_namespace
  <2>3. reset' # None
    <3>1. reset' = Tail(reset) /\ reset \in {<<"net">>, <<"all">>, <<"main">>, <<"ctrl", "main">>,
                                           <<"net", "main">>, <<"ctrl", "net", "main">>}
      BY <1>14 DEF ResetErase, KeyInv, ResetShape
    <3>2. /\ Tail(<<"net">>) = <<>> /\ Tail(<<"all">>) = <<>> /\ Tail(<<"main">>) = <<>>
          /\ Tail(<<"ctrl", "main">>) = <<"main">> /\ Tail(<<"net", "main">>) = <<"main">>
          /\ Tail(<<"ctrl", "net", "main">>) = <<"net", "main">>
      OBVIOUS
    <3>3. reset' \in {<<>>, <<"main">>, <<"net", "main">>}
      BY <3>1, <3>2
    <3> QED
      BY <3>3 DEF None
  <2>4. /\ flash'["ltpka"] # 0 => /\ flash'["ltpka"] = flash["ltpka"] /\ flash'["ltska"] = flash["ltska"]
                                 /\ flash'["acc_id"] = flash["acc_id"]
        /\ flash'["ctrl"] = 0 \/ flash'["ctrl"] = flash["ctrl"]
    <3>1. \A e \in {"ctrl", "main", "all", "net"} :
            \/ "ltpka" \in Erased(e)
            \/ "ltpka" \notin Erased(e) /\ "ltska" \notin Erased(e) /\ "acc_id" \notin Erased(e)
      BY DEF Erased, Main, Keys
    <3>2. Head(reset) \in {"ctrl", "main", "all", "net"}
      BY <2>1 DEF KeyInv, ResetShape
    <3> QED
      BY <1>3, <2>2, <3>1, <3>2
  <2>5. ~late /\ flash'["ctrl"] # 0 =>
          /\ flash'["acc_id"] = flash["acc_id"] /\ flash'["ltpka"] = flash["ltpka"]
          /\ flash'["ctrl"] = flash["ctrl"] /\ ~Erasing'
    <3>1. ASSUME ~late, flash'["ctrl"] # 0 PROVE reset = <<"net">>
      <4>1. reset \notin {<<"main">>, <<"net", "main">>}
        BY <1>2, <1>3, <2>2, <3>1 DEF KeyInv, Erasing
      <4>2. reset \notin {<<"all">>, <<"ctrl", "main">>, <<"ctrl", "net", "main">>}
        BY <1>3, <2>2, <3>1 DEF Erased
      <4> QED
        BY <2>1, <4>1, <4>2 DEF KeyInv, ResetShape
    <3>2. ASSUME reset = <<"net">> PROVE /\ flash'["acc_id"] = flash["acc_id"] /\ flash'["ltpka"] = flash["ltpka"]
                                         /\ flash'["ctrl"] = flash["ctrl"] /\ ~Erasing'
      BY <1>3, <1>14, <2>2, <3>2 DEF Erased, ResetErase, Erasing
    <3> QED
      BY <3>1, <3>2
  <2>6. pc \notin {"ska", "pka", "keystore", "id", "ctrl"}
    BY <2>1 DEF Booting
  <2> QED
    BY <1>1, <1>2, <2>1, <2>3, <2>4, <2>5, <2>6 DEF KeyInv, Drawing
<1>15. CASE Pair
  <2>1. /\ pc = "running" /\ pc' = pc /\ reset' = reset /\ drawn' = drawn /\ late' = (late \/ reset # None)
        /\ priv' = [priv EXCEPT !["ctrl"] = 1] /\ flash' = [flash EXCEPT !["ctrl"] = 1]
        /\ known' = [id |-> priv["acc_id"], pk |-> priv["ltpka"]]
    BY <1>15, Zenon DEF Pair, Operation
  <2>2. /\ flash'["acc_id"] = flash["acc_id"] /\ flash'["ltska"] = flash["ltska"] /\ flash'["ltpka"] = flash["ltpka"]
        /\ priv'["acc_id"] = priv["acc_id"] /\ priv'["ltpka"] = priv["ltpka"]
    BY <1>3, <2>1 DEF TypeInv
  <2>3. "running" \in Later /\ "running" \notin {"ska", "pka", "keystore", "id", "ctrl", "failed"}
    BY DEF Later, Phases
  <2>4. ~late' => ~late /\ reset = None
    BY <2>1
  <2>5. reset = None => ~Erasing'
    BY <1>6, <2>1 DEF Erasing
  <2>6. /\ flash'["ltpka"] # 0 => flash'["ltska"] = flash'["ltpka"] /\ flash'["acc_id"] = flash'["ltpka"]
        /\ pc' # "failed" /\ Drawing'
        /\ pc' \notin {"keystore", "id", "ska", "pka", "ctrl"}
        /\ reset' = None => /\ priv'["acc_id"] = flash'["acc_id"] /\ flash'["acc_id"] # 0
                            /\ priv'["ltpka"] = flash'["ltpka"]
    BY <1>2, <2>1, <2>2, <2>3 DEF KeyInv, Drawing
  <2>7. reset = None => flash["acc_id"] # 0 /\ known' = [id |-> flash["acc_id"], pk |-> flash["ltpka"]]
    BY <1>2, <2>1, <2>3 DEF KeyInv
  <2> QED
    BY <1>1, <2>1, <2>2, <2>4, <2>5, <2>6, <2>7 DEF KeyInv
<1>16. CASE Unpair
  <2>1. /\ pc = "running" /\ pc' = pc /\ reset' = reset /\ drawn' = drawn /\ late' = late /\ known' = known
        /\ priv' = [priv EXCEPT !["ctrl"] = 0] /\ flash' = [flash EXCEPT !["ctrl"] = 0]
    BY <1>16, Zenon DEF Unpair, Operation
  <2>2. /\ flash'["acc_id"] = flash["acc_id"] /\ flash'["ltska"] = flash["ltska"] /\ flash'["ltpka"] = flash["ltpka"]
        /\ priv'["acc_id"] = priv["acc_id"] /\ priv'["ltpka"] = priv["ltpka"]
        /\ flash'["ctrl"] = 0 /\ priv'["ctrl"] = 0
    BY <1>3, <2>1 DEF TypeInv
  <2> QED
    BY <1>1, <1>2, <2>1, <2>2 DEF KeyInv, Drawing
<1>17. Crash \/ ResetRestart => Restarted
  BY Zenon DEF Crash, ResetRestart
<1>18. ASSUME Quiet PROVE KeyInv'
  BY <1>18, QuietKeeps
<1>19. CASE Start
  BY <1>1, <1>7, <1>8, <1>9, <1>10, <1>11, <1>18, <1>19, QuietSteps, Zenon DEF Start, hap_database_init
<1>20. CASE LoopStep
  BY <1>1, <1>12, <1>13, <1>14, <1>17, <1>18, <1>20, QuietSteps, Zenon DEF LoopStep
<1>21. CASE \/ Crash \/ Pair \/ Unpair \/ ReadDatabase \/ SendEvent \/ Configure
            \/ Notify \/ hap_mdns_serv("httpd") \/ UNCHANGED vars
  BY <1>1, <1>12, <1>15, <1>16, <1>17, <1>18, <1>21, QuietSteps, Zenon
<1> QED
  BY <1>19, <1>20, <1>21, Zenon DEF Next

-----------------------------------------------------------------------------
(* What is announced *)

\* Only the running accessory has events and announces; the loop only when its
\* task has created the queue; a task that announces alone is the only one.
MetInv ==
  /\ pc # "running" => queue = <<>> /\ \A t \in Tasks : ~Announcing(t)
  /\ loop # "created" => ~Announcing("loop")
  /\ \A t, u \in Tasks : t # u /\ announcing[t].how = "alone" => ~Announcing(u)

\* Once nothing is left to be handled, the record announced tells the truth, and
\* so does one that a task announces alone.
RecordInv ==
  pc = "running" /\ reset = None /\ queue = <<>> =>
    /\ (\A t \in Tasks : ~Announcing(t)) /\ ~dropped =>
         txt = [cfg |-> priv["config_num"], paired |-> is_accessory_paired]
    /\ \A t \in Tasks : announcing[t].how = "alone" =>
         announcing[t].cfg = priv["config_num"] /\ announcing[t].paired = is_accessory_paired

\* What a task is doing, before and after a step that leaves the tasks alone.
LEMMA SameTasks ==
  ASSUME announcing' = announcing
  PROVE  \A t \in Tasks : (Announcing(t)' <=> Announcing(t)) /\ announcing'[t].how = announcing[t].how
BY DEF Announcing

\* A restart leaves no task announcing.
LEMMA Silenced ==
  ASSUME Restarted PROVE \A t \in Tasks : ~Announcing(t)' /\ announcing'[t].how = "no"
<1>1. announcing' = [t \in Tasks |-> Silent] /\ Silent.how = "no"
  BY DEF Restarted, Silent
<1> QED
  BY <1>1 DEF Announcing

\* A task that has formatted a record is alone, or everyone has met.
LEMMA FormatMeets ==
  ASSUME TypeInv, MetInv, NEW task \in Tasks, NEW p, NEW changed, Formatted(task, p, changed)
  PROVE  /\ \A t \in Tasks : announcing'[t].how = "alone" => t = task /\ \A u \in Tasks \ {t} : ~Announcing(u)'
         /\ \A t \in Tasks \ {task} : Announcing(t)' <=> Announcing(t)
         /\ Announcing(task)'
<1>1. /\ announcing'[task].how = IF \E t \in Tasks \ {task} : Announcing(t) THEN "met" ELSE "alone"
      /\ \A t \in Tasks \ {task} : announcing'[t].how # "alone" /\ (Announcing(t)' <=> Announcing(t))
  BY Zenon DEF Formatted
<1>2. Announcing(task)'
  BY <1>1 DEF Announcing
<1> QED
  BY <1>1, <1>2

\* A task that has called mdns is silent.
LEMMA ServMeets ==
  ASSUME TypeInv, MetInv, NEW task \in Tasks, hap_mdns_serv(task)
  PROVE  /\ ~Announcing(task)' /\ announcing'[task].how = "no"
         /\ \A t \in Tasks \ {task} : (Announcing(t)' <=> Announcing(t)) /\ announcing'[t] = announcing[t]
<1>1. announcing'[task] = Silent /\ \A t \in Tasks \ {task} : announcing'[t] = announcing[t]
  BY ServEffect, Zenon
<1> QED
  BY <1>1 DEF Announcing, Silent

\* Every step keeps the tasks apart, or lets them meet.
LEMMA MetStep == TypeInv /\ MetInv /\ [Next]_vars => MetInv'
<1> SUFFICES ASSUME TypeInv, MetInv, [Next]_vars PROVE MetInv'
  OBVIOUS
<1>1. "loop" \in Tasks /\ "httpd" \in Tasks
  BY DEF Tasks
<1>2. ASSUME announcing' = announcing, loop' = loop \/ loop' = "created",
             pc' # "running" => pc # "running" /\ queue' = queue
      PROVE  MetInv'
  BY <1>1, <1>2, SameTasks DEF MetInv
<1>3. CASE Start
  <2>1. /\ announcing' = announcing /\ UNCHANGED queue /\ pc # "running"
        /\ loop' = loop \/ (loop' = "started" /\ pc = "loop")
    BY <1>3, Zenon DEF Start, InitKeystore, hap_database_init, GetIdentity, SaveKey, GetControllers,
       Restore, InitStateNumber, CheckFirmware, SameFirmware, HapStart, Step, running, mdns
  <2>2. \A t \in Tasks : ~Announcing(t) /\ ~Announcing(t)' /\ announcing'[t].how = announcing[t].how
    BY <2>1, SameTasks, Zenon DEF MetInv
  <2>3. queue' = <<>>
    BY <2>1, Zenon DEF MetInv
  <2> QED
    BY <1>1, <2>2, <2>3, Zenon DEF MetInv, Announcing
<1>4. CASE hap_nw_configured_sm
  <2>1. PICK p, changed : Formatted("loop", p, changed)
    BY <1>1, <1>4, FormatsLoop, FormatEffect, Zenon
  <2>2. loop = "created" /\ loop' = loop /\ pc' = pc /\ queue # <<>>
    BY <1>4 DEF hap_nw_configured_sm, Receive, Idle
  <2>3. pc = "running"
    BY <2>2 DEF MetInv
  <2> QED
    BY <1>1, <2>1, <2>2, <2>3, FormatMeets DEF MetInv
<1>5. ASSUME NEW t \in Tasks, hap_mdns_serv(t) PROVE MetInv'
  <2>1. UNCHANGED <<pc, loop, queue>>
    BY <1>5, Zenon DEF hap_mdns_serv, running
  <2>2. /\ ~Announcing(t)' /\ announcing'[t].how = "no"
        /\ \A u \in Tasks \ {t} : (Announcing(u)' <=> Announcing(u)) /\ announcing'[u] = announcing[u]
    BY <1>5, ServMeets, Zenon
  <2> QED
    BY <1>1, <2>1, <2>2 DEF MetInv
<1>6. CASE Notify
  <2>1. Formatted("httpd", priv, {})
    BY <1>1, <1>6, FormatEffect DEF Notify, TypeInv
  <2>2. pc = "running" /\ UNCHANGED <<pc, loop, queue>>
    BY <1>6, Zenon DEF Notify, running
  <2> QED
    BY <1>1, <2>1, <2>2, FormatMeets DEF MetInv
<1>7. CASE Restarted
  <2>1. queue' = <<>>
    BY <1>7, Zenon DEF Restarted
  <2>2. \A t \in Tasks : ~Announcing(t)' /\ announcing'[t].how # "alone"
    BY <1>7, Silenced, Zenon DEF Announcing
  <2> QED
    BY <1>1, <2>1, <2>2, Zenon DEF MetInv
<1>8. CASE ResetBegin \/ ResetErase
  <2>1. announcing' = announcing /\ loop' = loop /\ pc' = pc /\ (queue' = queue \/ queue # <<>>)
    BY <1>8, Zenon DEF ResetBegin, ResetErase, Receive, mdns
  <2>2. pc' # "running" => pc # "running" /\ queue' = queue
    BY <2>1 DEF MetInv
  <2> QED
    BY <1>2, <2>1, <2>2, Zenon
<1>9. CASE CreateQueue \/ Pair \/ Unpair \/ ReadDatabase \/ SendEvent \/ Configure \/ UNCHANGED vars
  BY <1>2, <1>9, Zenon DEF CreateQueue, Pair, Unpair, ReadDatabase, SendEvent, Configure, Operation, vars,
     mdns, running
<1>10. Crash \/ ResetRestart => Restarted
  BY Zenon DEF Crash, ResetRestart
<1> QED
  BY <1>1, <1>3, <1>4, <1>5, <1>6, <1>7, <1>8, <1>9, <1>10, Zenon DEF Next, LoopStep

\* An event that is sent is queued, or refused where none waits for the loop to
\* create its queue.
LEMMA SendLeaves ==
  ASSUME TypeInv, NEW e, hap_send_event(e)
  PROVE  queue' # <<>> \/ (dropped' /\ loop # "created")
<1>1. CASE loop = "created" /\ Len(queue) < EventQ
  BY <1>1 DEF hap_send_event, TypeInv
<1>2. CASE ~(loop = "created" /\ Len(queue) < EventQ)
  <2>1. queue' = queue /\ dropped' = TRUE
    BY <1>2, Zenon DEF hap_send_event
  <2>2. CASE loop = "created"
    <3>1. Len(queue) >= EventQ /\ EventQ > 0
      BY <1>2, <2>2, HapDatabaseAssumption DEF TypeInv
    <3>2. queue # <<>>
      <4>1. Len(<<>>) = 0
        OBVIOUS
      <4> QED
        BY <3>1, <4>1, HapDatabaseAssumption
    <3> QED
      BY <2>1, <3>2
  <2> QED
    BY <2>1, <2>2
<1> QED
  BY <1>1, <1>2

\* Every step leaves the record true, or something to be handled.
LEMMA RecordStep == TypeInv /\ MetInv /\ RecordInv /\ [Next]_vars => RecordInv'
<1> SUFFICES ASSUME TypeInv, MetInv, RecordInv, [Next]_vars PROVE RecordInv'
  OBVIOUS
<1>1. /\ "config_num" \in Ram /\ "ctrl" \in Ram /\ "config_num" # "state_num" /\ "ctrl" # "state_num"
      /\ "setting" \in Ram /\ "loop" \in Tasks /\ "httpd" \in Tasks
      /\ Tasks = {"loop", "httpd"}
  BY DEF Ram, Keys, Tasks
<1>2. ASSUME NEW task \in Tasks, NEW p, NEW changed, Formatted(task, p, changed) PROVE RecordInv'
  <2>1. /\ announcing'[task].cfg = p["config_num"] /\ announcing'[task].paired = (p["ctrl"] # 0)
        /\ priv'["config_num"] = p["config_num"] /\ priv'["ctrl"] = p["ctrl"]
    BY <1>1, <1>2, Zenon DEF Formatted
  <2>2. /\ \A t \in Tasks : announcing'[t].how = "alone" => t = task
        /\ Announcing(task)'
    BY <1>2, FormatMeets, Zenon
  <2>3. (is_accessory_paired)' = (p["ctrl"] # 0)
    BY <2>1 DEF is_accessory_paired
  <2> QED
    BY <2>1, <2>2, <2>3, Zenon DEF RecordInv
<1>3. ASSUME pc' # "running" PROVE RecordInv'
  BY <1>3 DEF RecordInv
<1>4. CASE Start
  <2>1. ASSUME HapStart PROVE pc' # "running" \/ (txt' = [cfg |-> priv["config_num"], paired |-> is_accessory_paired]
                                                  /\ UNCHANGED announcing /\ pc # "running")
    BY <2>1 DEF HapStart, Step
  <2>2. ASSUME \/ InitKeystore \/ GetIdentity \/ SaveKey("ska", "ltska", "pka") \/ SaveKey("pka", "ltpka", "ctrl")
               \/ GetControllers \/ Restore("config", "config_num", 1, "aid")
               \/ Restore("aid", "cur_aid", 1, "state") \/ InitStateNumber
               \/ Restore("setting", "setting", 1, "linked") \/ CheckFirmware \/ SameFirmware
        PROVE  pc' # "running"
    BY <2>2 DEF InitKeystore, GetIdentity, SaveKey, GetControllers, Restore, InitStateNumber, CheckFirmware,
       SameFirmware, Step
  <2>3. CASE /\ txt' = [cfg |-> priv["config_num"], paired |-> is_accessory_paired]
             /\ UNCHANGED <<announcing, priv>> /\ pc # "running"
    <3>1. \A t \in Tasks : announcing'[t].how = "no"
      BY <2>3, Zenon DEF MetInv, Announcing
    <3> QED
      BY <2>3, <3>1 DEF RecordInv, is_accessory_paired
  <2> QED
    BY <1>3, <1>4, <2>1, <2>2, <2>3, Zenon DEF Start, hap_database_init
<1>5. CASE hap_nw_configured_sm
  <2>1. PICK p, changed : Formatted("loop", p, changed)
    BY <1>1, <1>5, FormatsLoop, FormatEffect, Zenon
  <2> QED
    BY <1>1, <1>2, <2>1
<1>6. CASE CreateQueue \/ UNCHANGED vars
  <2>1. UNCHANGED <<pc, reset, queue, txt, announcing, priv, dropped>>
    BY <1>6 DEF CreateQueue, vars, world, running, mdns
  <2> QED
    BY <2>1 DEF RecordInv, is_accessory_paired, Announcing
<1>7. CASE ResetBegin
  <2>1. Resets \in SUBSET Events
    BY DEF Events
  <2>2. Head(queue) \in Resets /\ reset' = Erasures(Head(queue))
    BY <1>7, <2>1, Receiving, Zenon DEF ResetBegin
  <2> QED
    BY <2>2, ErasuresTyped, Zenon DEF RecordInv
<1>8. CASE ResetErase
  <2>1. reset \in Seq(Areas) /\ reset # <<>> /\ reset' = Tail(reset) /\ reset # None
    BY <1>8 DEF ResetErase, TypeInv
  <2>2. reset' \in Seq(Areas)
    BY <2>1
  <2>3. \A q \in Seq(Areas) : q # None
    <3>1. ASSUME NEW q \in Seq(Areas), q = <<"none">> PROVE FALSE
      <4>1. q[1] \in Areas /\ q[1] = "none"
        BY <3>1
      <4> QED
        BY <4>1 DEF Areas
    <3> QED
      BY <3>1 DEF None
  <2> QED
    BY <2>2, <2>3 DEF RecordInv
<1>9. CASE ResetRestart \/ Crash
  BY <1>3, <1>9 DEF ResetRestart, Crash, Restarted
<1>10. CASE Pair \/ Unpair
  <2>1. \E e : hap_send_event(e)
    BY <1>10, Zenon DEF Pair, Unpair
  <2>2. announcing' = announcing /\ ~Announcing("httpd") /\ loop' = loop
    BY <1>10, Zenon DEF Pair, Unpair, mdns
  <2>3. queue' # <<>> \/ (dropped' /\ \A t \in Tasks : announcing'[t].how = "no")
    <3>1. loop # "created" => announcing["loop"].how = "no"
      BY Zenon DEF MetInv, Announcing
    <3>2. announcing["httpd"].how = "no"
      BY <2>2 DEF Announcing
    <3> QED
      BY <1>1, <2>1, <2>2, <3>1, <3>2, SendLeaves
  <2> QED
    BY <2>3 DEF RecordInv
<1>11. CASE SendEvent
  <2>1. \E e : hap_send_event(e)
    BY <1>11, Zenon DEF SendEvent
  <2>2. UNCHANGED <<pc, priv, announcing, txt, reset>>
    BY <1>11, Zenon DEF SendEvent, mdns
  <2>3. queue' # <<>> \/ (queue' = queue /\ dropped')
    BY <2>1, SendLeaves, Zenon DEF hap_send_event
  <2> QED
    BY <2>2, <2>3 DEF RecordInv, is_accessory_paired
<1>12. CASE ReadDatabase
  <2>1. UNCHANGED <<pc, reset, queue, txt, announcing, priv, dropped>>
    BY <1>12 DEF ReadDatabase, running, mdns
  <2> QED
    BY <2>1 DEF RecordInv, is_accessory_paired, Announcing
<1>13. CASE Configure
  <2>1. priv'["config_num"] = priv["config_num"] /\ priv'["ctrl"] = priv["ctrl"]
    BY <1>1, <1>13 DEF Configure, TypeInv
  <2>2. UNCHANGED <<pc, reset, queue, txt, announcing, dropped>>
    BY <1>13 DEF Configure, running, mdns, world
  <2> QED
    BY <2>1, <2>2 DEF RecordInv, is_accessory_paired, Announcing
<1>14. CASE Notify
  <2>1. Formatted("httpd", priv, {})
    BY <1>1, <1>14, FormatEffect DEF Notify, TypeInv
  <2> QED
    BY <1>1, <1>2, <2>1
<1>15. ASSUME NEW task \in Tasks, hap_mdns_serv(task) PROVE RecordInv'
  <2>1. UNCHANGED <<pc, reset, queue, priv>>
    BY <1>15, Zenon DEF hap_mdns_serv, running
  <2>2. /\ announcing'[task].how = "no"
        /\ \A t \in Tasks \ {task} : announcing'[t] = announcing[t]
    BY <1>15, ServMeets, Zenon
  <2>3. \/ /\ announcing[task].how = "alone"
           /\ txt' = [cfg |-> announcing[task].cfg, paired |-> announcing[task].paired]
        \/ dropped' = TRUE
    BY <1>15, ServEffect, Zenon
  <2>4. \A t \in Tasks : announcing'[t].how = "alone" => announcing[t].how = "alone" /\ announcing'[t] = announcing[t]
    BY <2>2
  <2>5. CASE announcing[task].how = "alone"
             /\ txt' = [cfg |-> announcing[task].cfg, paired |-> announcing[task].paired]
    BY <2>1, <2>4, <2>5 DEF RecordInv, is_accessory_paired
  <2>6. CASE dropped' = TRUE
    BY <2>1, <2>4, <2>6 DEF RecordInv, is_accessory_paired
  <2> QED
    BY <2>3, <2>5, <2>6
<1> QED
  BY <1>1, <1>4, <1>5, <1>6, <1>7, <1>8, <1>9, <1>10, <1>11, <1>12, <1>13, <1>14, <1>15, Zenon DEF Next, LoopStep

-----------------------------------------------------------------------------
(* The configuration number *)

\* How far the number n is ahead of the number s, in a range that starts again.
Ahead(n, s) == IF n >= s THEN n - s ELSE n - s + CfgMax

Unchecked == {"keystore", "id", "ska", "pka", "ctrl", "config", "aid", "state", "setting", "linked", "fw"}
Checked == {"httpd", "loop", "mdns", "services", "running"}

\* An upgrade whose number is still to be incremented, and how often the number
\* can have been incremented: by the firmware found at the first start, after a
\* loss of power, by an operation.
Pending == IF pc \in Unchecked /\ flash["fw_rev"] \notin {0, fw} THEN 1 ELSE 0
Used == count["crashes"] + count["ops"] + 1

\* RAM and keystore agree from the step that reads the value to the next reset.
Synced ==
  /\ pc \in Later => priv["ctrl"] = flash["ctrl"]
  /\ pc \in Later \ {"config"} => priv["config_num"] = flash["config_num"] /\ priv["config_num"] # 0
  /\ pc \in Checked => flash["fw_rev"] = fw

\* The events to come can increment the number to one the controller remembers
\* only by going through the whole range, and a number that it remembers is the
\* number of the firmware that was checked last.
Numbered ==
  /\ flash["config_num"] # 0 /\ seen.cfg # 0 /\ seen.cfg <= CfgMax
  /\ Ahead(flash["config_num"], seen.cfg) + Len(queue) + Pending <= Used
  /\ seen.cfg = flash["config_num"] => seen.fw = flash["fw_rev"] /\ seen.fw # 0
  /\ pc = "fwsave" => seen.cfg # flash["config_num"]

\* The record a controller may still find, while the loop announces another.
Lagging ==
  txt.cfg # 0 =>
    /\ pc = "running" /\ txt.cfg <= CfgMax
    /\ Ahead(priv["config_num"], txt.cfg) + Len(queue) <= Used

\* The keystore was written, and no torn record announced.
Clean == Sure /\ ~torn

NumberInv ==
  Clean =>
    /\ Len(queue) + Pending <= Used
    /\ queue # <<>> \/ reset # None => pc = "running"
    /\ pc = "running" => priv["config_num"] # 0
    /\ Lagging
    /\ \A t \in Tasks : announcing[t].how = "alone" =>
         pc = "running" /\ announcing[t].cfg = priv["config_num"]
    /\ reset = None \/ (~late /\ flash["ctrl"] # 0) => Synced
    /\ pc \in Checked => flash["fw_rev"] \in {0, fw}
    /\ ~late /\ flash["ctrl"] # 0 => Numbered
    /\ ~late /\ pc = "running" /\ is_accessory_paired /\ seen.cfg = priv["config_num"] => seen.fw = fw

\* The range is longer than the changes that can be made.
Roomy == MaxCrashes + MaxOps + 1 < CfgMax

\* The changes that can be made are bounded.
LEMMA UsedRoom == ASSUME TypeInv PROVE Used \in Nat /\ Used <= MaxCrashes + MaxOps + 1
<1>1. "crashes" \in Counters /\ "ops" \in Counters
  BY DEF Counters
<1>2. count["crashes"] \in Nat /\ count["ops"] \in Nat
      /\ count["crashes"] <= Bound["crashes"] /\ count["ops"] <= Bound["ops"]
  BY <1>1 DEF TypeInv
<1>3. Bound["crashes"] = MaxCrashes /\ Bound["ops"] = MaxOps /\ MaxCrashes \in Nat /\ MaxOps \in Nat
  BY HapDatabaseAssumption DEF Bound
<1> QED
  BY <1>2, <1>3 DEF Used

\* The number after the next is one further ahead, unless it has come round.
LEMMA AheadOne ==
  ASSUME NEW n \in 1..CfgMax, NEW m \in 1..CfgMax, Ahead(n, m) + 1 < CfgMax
  PROVE  /\ Ahead(n, m) \in Nat /\ Ahead(n, n) = 0
         /\ Ahead(Following(n, CfgMax), m) = Ahead(n, m) + 1
         /\ Following(n, CfgMax) # m
BY HapDatabaseAssumption DEF Ahead, Following

\* What the steps count of changes.
LEMMA UsedGrows ==
  ASSUME TypeInv, Counting
  PROVE  /\ Used' >= Used /\ Used' \in Nat /\ Used \in Nat
         /\ Once("crashes") \/ Once("ops") => Used' = Used + 1
<1>1. "crashes" \in Counters /\ "ops" \in Counters /\ "crashes" # "ops"
  BY DEF Counters
<1>2. /\ count["crashes"] \in Nat /\ count["ops"] \in Nat
      /\ count'["crashes"] \in Nat /\ count'["ops"] \in Nat
      /\ count["crashes"] <= count'["crashes"] /\ count["ops"] <= count'["ops"]
  BY <1>1 DEF TypeInv, Counting
<1>3. Once("crashes") => count'["crashes"] = count["crashes"] + 1 /\ count'["ops"] = count["ops"]
  BY <1>1, OnceCounts
<1>4. Once("ops") => count'["ops"] = count["ops"] + 1 /\ count'["crashes"] = count["crashes"]
  BY <1>1, OnceCounts
<1> QED
  BY <1>2, <1>3, <1>4 DEF Used

\* What the types say of the numbers.
LEMMA NumberTypes ==
  ASSUME TypeInv
  PROVE  /\ flash["config_num"] \in Nat /\ flash["config_num"] <= CfgMax /\ flash["fw_rev"] \in Nat
         /\ priv["config_num"] \in Nat /\ priv["config_num"] <= CfgMax
         /\ txt.cfg \in Nat /\ fw \in Nat /\ fw # 0 /\ seen.cfg \in Nat /\ seen.fw \in Nat /\ Len(queue) \in Nat
         /\ Pending \in {0, 1} /\ CfgMax \in Nat /\ CfgMax > 1
<1>1. "config_num" \in Keys /\ "config_num" \in Ram /\ "fw_rev" \in Keys
  BY DEF Keys, Ram
<1>2. fw \in Versions /\ Versions \subseteq Nat \ {0}
  BY HapDatabaseAssumption DEF TypeInv
<1>3. Pending \in {0, 1}
  BY DEF Pending
<1> QED
  BY <1>1, <1>2, <1>3, HapDatabaseAssumption DEF TypeInv, MdnsTypes

\* A step that leaves the numbers alone, and goes on in the start at most: what
\* it announces is the number in RAM.
Plain ==
  /\ flash'["config_num"] = flash["config_num"] /\ flash'["ctrl"] = flash["ctrl"]
  /\ flash'["fw_rev"] = flash["fw_rev"]
  /\ priv'["config_num"] = priv["config_num"] /\ priv'["ctrl"] = priv["ctrl"]
  /\ UNCHANGED <<reset, fw, seen, late>> /\ (Clean' => Clean)
  /\ Len(queue') \in Nat /\ Len(queue') <= Len(queue) /\ (queue' # <<>> => queue # <<>>)
  /\ pc' \in Later => pc \in Later
  /\ pc' \in Later \ {"config"} => pc \in Later \ {"config"}
  /\ pc' \in Checked => pc \in Checked
  /\ pc' \in Unchecked => pc \in Unchecked
  /\ pc' = "fwsave" => pc = "fwsave"
  /\ (pc' = "running") <=> (pc = "running")
  /\ txt'.cfg \in {0, txt.cfg} \/ (pc = "running" /\ txt'.cfg = priv["config_num"])
  /\ \A t \in Tasks : announcing'[t].how = "alone" =>
       \/ announcing[t].how = "alone" /\ announcing'[t].cfg = announcing[t].cfg
       \/ pc = "running" /\ announcing'[t].cfg = priv["config_num"]

\* Such a step keeps the numbers apart.
LEMMA PlainKeeps == ASSUME TypeInv, Counting, NumberInv, Plain PROVE NumberInv'
<1>1. Used \in Nat /\ Used' \in Nat /\ Used' >= Used
  BY UsedGrows
<1>2. Pending' <= Pending /\ Pending \in {0, 1} /\ Pending' \in {0, 1} /\ Len(queue) \in Nat
      /\ Len(queue') \in Nat /\ Len(queue') <= Len(queue)
  BY NumberTypes DEF Pending, Plain
<1>3. Synced => Synced'
  BY DEF Plain, Synced
<1>4. Ahead(flash["config_num"], seen.cfg) \in Int /\ Ahead(flash["config_num"], seen.cfg)' = Ahead(flash["config_num"], seen.cfg)
  BY NumberTypes DEF Plain, Ahead
<1>5. Numbered => Numbered'
  BY <1>1, <1>2, <1>4 DEF Plain, Numbered
<1>6. SUFFICES ASSUME Clean' PROVE NumberInv'
  BY DEF NumberInv
<1>7. Clean /\ Len(queue') + Pending' <= Used' /\ Len(queue) <= Used
  <2>1. Clean
    BY <1>6 DEF Plain
  <2>2. Len(queue) + Pending <= Used
    BY <2>1 DEF NumberInv
  <2> QED
    BY <1>1, <1>2, <2>1, <2>2
<1>8. Lagging'
  <2>1. Lagging /\ (pc = "running" => priv["config_num"] # 0)
    BY <1>7 DEF NumberInv
  <2>2. /\ priv'["config_num"] = priv["config_num"] /\ (pc = "running" => pc' = "running")
        /\ priv["config_num"] \in Nat /\ priv["config_num"] <= CfgMax /\ CfgMax \in Nat /\ txt.cfg \in Nat
    BY NumberTypes DEF Plain
  <2>3. CASE txt'.cfg = 0
    BY <2>3 DEF Lagging
  <2>4. CASE txt'.cfg = txt.cfg /\ txt.cfg # 0
    <3>1. Ahead(priv["config_num"], txt.cfg) \in Int
          /\ Ahead(priv["config_num"], txt.cfg)' = Ahead(priv["config_num"], txt.cfg)
      BY <2>2, <2>4 DEF Ahead
    <3> QED
      BY <1>1, <1>2, <2>1, <2>2, <2>4, <3>1 DEF Lagging
  <2>5. CASE pc = "running" /\ txt'.cfg = priv["config_num"]
    <3>1. Ahead(priv["config_num"], txt.cfg)' = 0
      BY <2>2, <2>5 DEF Ahead
    <3> QED
      BY <1>1, <1>2, <1>7, <2>2, <2>5, <3>1 DEF Lagging
  <2> QED
    BY <2>3, <2>4, <2>5 DEF Plain
<1>9. /\ queue # <<>> \/ reset # None => pc = "running"
      /\ pc = "running" => priv["config_num"] # 0
      /\ \A t \in Tasks : announcing[t].how = "alone" =>
           pc = "running" /\ announcing[t].cfg = priv["config_num"]
      /\ reset = None \/ (~late /\ flash["ctrl"] # 0) => Synced
      /\ pc \in Checked => flash["fw_rev"] \in {0, fw}
      /\ ~late /\ flash["ctrl"] # 0 => Numbered
      /\ ~late /\ pc = "running" /\ is_accessory_paired /\ seen.cfg = priv["config_num"] => seen.fw = fw
  BY <1>7, Zenon DEF NumberInv
<1>10. /\ queue' # <<>> \/ reset' # None => pc' = "running"
       /\ pc' = "running" => priv'["config_num"] # 0
       /\ reset' = None \/ (~late' /\ flash'["ctrl"] # 0) => Synced'
       /\ pc' \in Checked => flash'["fw_rev"] \in {0, fw'}
       /\ ~late' /\ flash'["ctrl"] # 0 => Numbered'
       /\ ~late' /\ pc' = "running" /\ (is_accessory_paired)' /\ seen'.cfg = priv'["config_num"] => seen'.fw = fw'
  BY <1>3, <1>5, <1>9 DEF Plain, is_accessory_paired
<1>11. \A t \in Tasks : announcing'[t].how = "alone" =>
         pc' = "running" /\ announcing'[t].cfg = priv'["config_num"]
  BY <1>9 DEF Plain
<1> QED
  BY <1>7, <1>8, <1>10, <1>11, Zenon DEF NumberInv

\* Sending makes the queue one longer at most, receiving one shorter.
LEMMA QueueLengths ==
  ASSUME TypeInv
  PROVE  /\ \A e \in Events : hap_send_event(e) => Len(queue') \in Nat /\ Len(queue') <= Len(queue) + 1
         /\ \A S \in SUBSET Events : Receive(S) => Len(queue') \in Nat /\ Len(queue') = Len(queue) - 1
<1>1. queue \in Seq(Events) /\ Len(queue) \in Nat
  BY DEF TypeInv
<1>2. ASSUME NEW e \in Events, hap_send_event(e) PROVE Len(queue') \in Nat /\ Len(queue') <= Len(queue) + 1
  <2>1. queue' = Append(queue, e) \/ queue' = queue
    BY <1>2, Zenon DEF hap_send_event
  <2> QED
    BY <1>1, <2>1
<1>3. ASSUME NEW S \in SUBSET Events, Receive(S) PROVE Len(queue') \in Nat /\ Len(queue') = Len(queue) - 1
  <2>1. queue' = Tail(queue) /\ queue # <<>>
    BY <1>3, Zenon DEF Receive
  <2> QED
    BY <1>1, <2>1
<1> QED
  BY <1>2, <1>3

\* A failure is not taken back, nor is a torn record.
LEMMA CleanBefore ==
  ASSUME TypeInv, TypeInv', Counting, Clean', torn' = torn PROVE Clean /\ Sure /\ ~Once("fails")
<1>1. Sure' /\ ~torn'
  BY Zenon DEF Clean
<1> QED
  BY <1>1, SureBefore, SureWrites, Zenon DEF Clean

\* These steps leave the numbers alone.
LEMMA PlainSteps ==
  ASSUME TypeInv, TypeInv', Counting, Clean',
         \/ GetIdentity \/ SaveKey("ska", "ltska", "pka") \/ SaveKey("pka", "ltpka", "ctrl")
         \/ Restore("aid", "cur_aid", 1, "state") \/ InitStateNumber
         \/ Restore("setting", "setting", 1, "linked")
         \/ (HapStart /\ UNCHANGED <<flash, priv, drawn, fw, known, seen, late, torn>> /\ pc # "services")
         \/ CreateQueue \/ Configure \/ UNCHANGED vars
  PROVE  Plain
<1>1. Sure /\ ~Once("fails")
  BY SureBefore, SureWrites DEF Clean
<1>2. /\ "config_num" \in Keys /\ "ctrl" \in Keys /\ "fw_rev" \in Keys
      /\ "config_num" \in Ram /\ "ctrl" \in Ram
      /\ \A k \in {"acc_id", "ltska", "ltpka", "cur_aid", "state_num", "setting"} : k \in Keys /\ k \in Ram
  BY DEF Keys, Ram
<1>3. ASSUME NEW k \in {"acc_id", "ltska", "ltpka", "cur_aid", "state_num", "setting"}, NEW v,
             hap_keystore_set(k, v) \/ flash' = flash
      PROVE  /\ flash'["config_num"] = flash["config_num"] /\ flash'["ctrl"] = flash["ctrl"]
             /\ flash'["fw_rev"] = flash["fw_rev"]
  <2>1. flash' = [flash EXCEPT ![k] = v] \/ flash' = flash
    BY <1>3, Zenon DEF hap_keystore_set
  <2> QED
    BY <1>2, <2>1 DEF TypeInv
<1>4. UNCHANGED <<queue, reset, txt, announcing, fw, seen, late, torn>>
  BY <1>1, Zenon DEF GetIdentity, SaveKey, Restore, InitStateNumber, HapStart, Step, CreateQueue, Configure, vars,
     world, running, mdns
<1>5. /\ flash'["config_num"] = flash["config_num"] /\ flash'["ctrl"] = flash["ctrl"]
      /\ flash'["fw_rev"] = flash["fw_rev"]
  <2>1. CASE GetIdentity
    <3>1. \E v : hap_keystore_set("acc_id", v) \/ flash' = flash
      BY <2>1, Zenon DEF GetIdentity
    <3> QED
      BY <1>3, <3>1
  <2>2. CASE SaveKey("ska", "ltska", "pka") \/ SaveKey("pka", "ltpka", "ctrl")
    <3>1. \E v : hap_keystore_set("ltska", v) \/ hap_keystore_set("ltpka", v)
      BY <2>2, Zenon DEF SaveKey
    <3> QED
      BY <1>3, <3>1
  <2>3. CASE Restore("aid", "cur_aid", 1, "state") \/ InitStateNumber \/ Restore("setting", "setting", 1, "linked")
    <3>1. \E v : \/ hap_keystore_set("cur_aid", v) \/ hap_keystore_set("state_num", v)
                 \/ hap_keystore_set("setting", v) \/ flash' = flash
      BY <2>3, Zenon DEF Restore, InitStateNumber
    <3> QED
      BY <1>3, <3>1
  <2>4. CASE \/ HapStart /\ UNCHANGED <<flash, priv, drawn, fw, known, seen, late, torn>>
             \/ CreateQueue \/ UNCHANGED vars
    <3>1. flash' = flash
      BY <2>4, Zenon DEF CreateQueue, vars
    <3> QED
      BY <3>1
  <2>5. CASE Configure
    BY <1>2, <2>5 DEF Configure, TypeInv
  <2> QED
    BY <2>1, <2>2, <2>3, <2>4, <2>5
<1>6. priv'["config_num"] = priv["config_num"] /\ priv'["ctrl"] = priv["ctrl"]
  <2>1. CASE HapStart /\ UNCHANGED <<flash, priv, drawn, fw, known, seen, late, torn>>
    BY <2>1
  <2>2. CASE CreateQueue \/ UNCHANGED vars
    BY <2>2 DEF CreateQueue, vars
  <2>3. CASE \/ GetIdentity \/ SaveKey("ska", "ltska", "pka") \/ SaveKey("pka", "ltpka", "ctrl")
             \/ Restore("aid", "cur_aid", 1, "state") \/ InitStateNumber
             \/ Restore("setting", "setting", 1, "linked") \/ Configure
    BY <1>2, <2>3 DEF GetIdentity, SaveKey, Restore, InitStateNumber, Configure, TypeInv
  <2> QED
    BY <2>1, <2>2, <2>3
<1>7. \/ pc' = pc
      \/ pc = "id" /\ pc' \in {"ska", "ctrl"}
      \/ <<pc, pc'>> \in {<<"ska", "pka">>, <<"pka", "ctrl">>, <<"aid", "state">>, <<"state", "setting">>,
                          <<"setting", "linked">>, <<"linked", "fw">>, <<"httpd", "loop">>,
                          <<"loop", "mdns">>, <<"mdns", "services">>}
  BY <1>1 DEF GetIdentity, SaveKey, Restore, InitStateNumber, HapStart, Step, CreateQueue, Configure, vars, world
<1>8. /\ pc' \in Later => pc \in Later
      /\ pc' \in Later \ {"config"} => pc \in Later \ {"config"}
      /\ pc' \in Checked => pc \in Checked
      /\ pc' \in Unchecked => pc \in Unchecked
      /\ pc' = "fwsave" => pc = "fwsave"
      /\ (pc' = "running") <=> (pc = "running")
  BY <1>7 DEF Later, Phases, Booting, Checked, Unchecked
<1>9. Clean' => Clean
  BY <1>1, <1>4, Zenon DEF Clean
<1>10. Len(queue') \in Nat /\ Len(queue') <= Len(queue)
  BY <1>4, NumberTypes
<1>11. txt'.cfg \in {0, txt.cfg}
  BY <1>4
<1> QED
  BY <1>4, <1>5, <1>6, <1>8, <1>9, <1>10, <1>11, Zenon DEF Plain

\* A task that formats hap_priv as it is, or has called mdns, leaves the numbers
\* alone.
LEMMA PlainAnnounce ==
  ASSUME TypeInv, TypeInv', Counting, Clean', NumberInv,
         \/ Notify
         \/ Receive({"announce"}) /\ Format("loop", priv, {}) /\ hap_nw_configured_sm
         \/ hap_mdns_serv("loop") \/ hap_mdns_serv("httpd")
  PROVE  Plain
<1>1. Sure
  BY SureBefore DEF Clean
<1>2. /\ "config_num" \in Keys /\ "ctrl" \in Keys /\ "fw_rev" \in Keys
      /\ "config_num" \in Ram /\ "ctrl" \in Ram
      /\ "loop" \in Tasks /\ "httpd" \in Tasks /\ {"announce"} \in SUBSET Events
  BY DEF Keys, Ram, Tasks, Events
<1>3. UNCHANGED <<pc, reset, fw, seen, late>>
  BY Zenon DEF Notify, hap_nw_configured_sm, hap_mdns_serv, running, world
<1>4. Len(queue') \in Nat /\ Len(queue') <= Len(queue) /\ (queue' # <<>> => queue # <<>>)
  <2>1. CASE Receive({"announce"})
    <3>1. queue # <<>>
      BY <2>1, Zenon DEF Receive
    <3> QED
      BY <1>2, <2>1, <3>1, QueueLengths, NumberTypes
  <2>2. CASE queue' = queue
    BY <2>2, NumberTypes
  <2> QED
    BY <2>1, <2>2, Zenon DEF Notify, hap_mdns_serv, running
<1>5. ASSUME NEW task \in Tasks, Format(task, priv, {}), UNCHANGED <<txt, torn>>, pc = "running"
      PROVE  Plain
  <2>1. Formatted(task, priv, {})
    BY <1>5, FormatEffect DEF TypeInv
  <2>2. /\ flash'["config_num"] = flash["config_num"] /\ flash'["ctrl"] = flash["ctrl"]
        /\ flash'["fw_rev"] = flash["fw_rev"]
        /\ priv'["config_num"] = priv["config_num"] /\ priv'["ctrl"] = priv["ctrl"]
    BY <1>2, <2>1 DEF Formatted
  <2>3. \A t \in Tasks : announcing'[t].how = "alone" => announcing'[t].cfg = priv["config_num"]
    BY <2>1 DEF Formatted
  <2>4. Clean' => Clean
    BY <1>1, <1>5, Zenon DEF Clean
  <2>5. txt'.cfg \in {0, txt.cfg}
    BY <1>5
  <2> QED
    BY <1>3, <1>4, <1>5, <2>2, <2>3, <2>4, <2>5, Zenon DEF Plain
<1>6. CASE Notify
  <2>1. Format("httpd", priv, {}) /\ UNCHANGED <<txt, torn>> /\ pc = "running"
    BY <1>6, Zenon DEF Notify, world
  <2> QED
    BY <1>2, <1>5, <2>1
<1>7. CASE Receive({"announce"}) /\ Format("loop", priv, {}) /\ hap_nw_configured_sm
  <2>1. UNCHANGED <<txt, torn>>
    BY <1>7, Zenon DEF hap_nw_configured_sm, world
  <2>2. pc = "running"
    <3>1. ~torn /\ queue # <<>>
      BY <1>7, <2>1, Zenon DEF Clean, Receive
    <3> QED
      BY <1>1, <3>1, Zenon DEF NumberInv, Clean
  <2> QED
    BY <1>2, <1>5, <1>7, <2>1, <2>2
<1>8. ASSUME NEW task \in Tasks, hap_mdns_serv(task) PROVE Plain
  <2>1. UNCHANGED <<flash, priv>>
    BY <1>8, Zenon DEF hap_mdns_serv
  <2>2. /\ announcing'[task] = Silent /\ \A t \in Tasks \ {task} : announcing'[t] = announcing[t]
        /\ \/ /\ announcing[task].how = "alone" /\ torn' = torn
              /\ txt' = [cfg |-> announcing[task].cfg, paired |-> announcing[task].paired]
           \/ torn' = TRUE
           \/ txt' = txt /\ torn' = torn
    BY <1>8, ServEffect, Zenon
  <2>3. Clean /\ torn' = torn /\ (Clean' => Clean)
    <3>1. torn' # TRUE
      BY DEF Clean
    <3>2. torn' = torn
      BY <2>2, <3>1, Zenon
    <3> QED
      BY <3>2, CleanBefore
  <2>4. \A t \in Tasks : announcing'[t].how = "alone" =>
          announcing[t].how = "alone" /\ announcing'[t].cfg = announcing[t].cfg
    BY <2>2 DEF Silent
  <2>5. txt'.cfg \in {0, txt.cfg} \/ (pc = "running" /\ txt'.cfg = priv["config_num"])
    <3>1. CASE /\ announcing[task].how = "alone"
               /\ txt' = [cfg |-> announcing[task].cfg, paired |-> announcing[task].paired]
      <4>1. pc = "running" /\ announcing[task].cfg = priv["config_num"]
        BY <2>3, <3>1, Zenon DEF NumberInv
      <4>2. txt'.cfg = announcing[task].cfg
        BY <3>1
      <4> QED
        BY <4>1, <4>2
    <3>2. CASE txt' = txt
      BY <3>2
    <3>3. ~torn'
      BY DEF Clean
    <3> QED
      BY <2>2, <3>1, <3>2, <3>3
  <2> QED
    BY <1>3, <1>4, <2>1, <2>3, <2>4, <2>5, Zenon DEF Plain
<1> QED
  BY <1>2, <1>6, <1>7, <1>8, Zenon

\* What every step keeps: nothing is queued in the start, and the number of
\* changes stays in its bound.
LEMMA NumberFacts ==
  ASSUME TypeInv, KeyInv, NumberInv, Counting, Clean
  PROVE  /\ pc \in Booting => loop = "no" /\ reset = None /\ queue = <<>>
         /\ Len(queue) \in Nat /\ Pending \in {0, 1} /\ pc # "failed"
         /\ Len(queue) + Pending <= Used
         /\ queue # <<>> \/ reset # None => pc = "running"
         /\ pc = "running" => priv["config_num"] # 0
         /\ Lagging
         /\ \A t \in Tasks : announcing[t].how = "alone" =>
              pc = "running" /\ announcing[t].cfg = priv["config_num"]
         /\ reset = None \/ (~late /\ flash["ctrl"] # 0) => Synced
         /\ pc \in Checked => flash["fw_rev"] \in {0, fw}
         /\ ~late /\ flash["ctrl"] # 0 => Numbered
         /\ ~late /\ pc = "running" /\ is_accessory_paired /\ seen.cfg = priv["config_num"] => seen.fw = fw
<1>1. pc \in Booting => loop = "no" /\ reset = None /\ queue = <<>>
  BY DEF TypeInv
<1> QED
  BY <1>1, NumberTypes, Zenon DEF NumberInv, KeyInv, Clean

\* The steps of the start that read or increment the number, or check the
\* firmware.
LEMMA NumberStart ==
  ASSUME TypeInv, TypeInv', KeyInv, NumberInv, Counting, Clean', Roomy,
         \/ InitKeystore \/ GetControllers \/ Restore("config", "config_num", 1, "aid")
         \/ CheckFirmware \/ SameFirmware
  PROVE  NumberInv'
<1>0. Clean /\ Sure /\ ~Once("fails")
  <2>1. torn' = torn
    BY Zenon DEF InitKeystore, GetControllers, Restore, CheckFirmware, SameFirmware, world
  <2> QED
    BY <2>1, CleanBefore
<1>1. /\ "config_num" \in Keys /\ "ctrl" \in Keys /\ "fw_rev" \in Keys
      /\ "config_num" \in Ram /\ "ctrl" \in Ram
      /\ "config_num" # "ctrl" /\ "config_num" # "fw_rev" /\ "ctrl" # "fw_rev"
  BY DEF Keys, Ram
<1>2. /\ UNCHANGED <<queue, reset, txt, announcing, fw, seen, late>>
      /\ pc \in Booting \ {"httpd", "loop"} /\ pc \notin Checked /\ pc # "running"
  BY DEF InitKeystore, GetControllers, Restore, CheckFirmware, SameFirmware, Step, world, running,
     mdns, Booting, Checked
<1>3. /\ reset = None /\ queue = <<>> /\ Len(queue) = 0 /\ txt.cfg = 0
      /\ \A t \in Tasks : announcing[t].how # "alone"
  <2>1. reset = None /\ queue = <<>> /\ Lagging
        /\ \A t \in Tasks : announcing[t].how = "alone" => pc = "running"
    BY <1>0, <1>2, NumberFacts, Zenon
  <2> QED
    BY <1>2, <2>1 DEF Lagging
<1>4. /\ Used \in Nat /\ Used' \in Nat /\ Used' >= Used /\ Used < CfgMax /\ Pending \in {0, 1}
      /\ Pending <= Used
  BY <1>0, <1>3, UsedGrows, UsedRoom, NumberFacts, HapDatabaseAssumption DEF Roomy
<1>5. Synced /\ (~late /\ flash["ctrl"] # 0 => Numbered)
  BY <1>0, <1>3, NumberFacts, Zenon
<1>6. SUFFICES /\ Pending' <= Used' /\ Pending' \in {0, 1} /\ pc' # "running"
               /\ Synced' /\ (pc' \in Checked => flash'["fw_rev"] = fw)
               /\ (~late /\ flash'["ctrl"] # 0 => Numbered')
  BY <1>2, <1>3 DEF NumberInv, Lagging
<1>7. CASE InitKeystore
  <2>1. pc = "keystore" /\ pc' = "id" /\ priv' = priv /\ (flash' = flash \/ flash' = Empty)
    BY <1>0, <1>7, Zenon DEF InitKeystore
  <2>2. CASE flash' = flash
    <3>1. Pending' = Pending
      BY <1>2, <2>1, <2>2 DEF Pending, Unchecked
    <3>2. ~late /\ flash'["ctrl"] # 0 => Numbered'
      BY <1>2, <1>4, <1>5, <2>1, <2>2, <3>1, NumberTypes DEF Numbered, Ahead
    <3> QED
      BY <1>4, <2>1, <3>1, <3>2 DEF Synced, Later, Checked
  <2>3. CASE flash' = Empty
    <3>1. flash'["ctrl"] = 0 /\ flash'["fw_rev"] = 0
      BY <1>1, <2>3 DEF Empty
    <3>2. Pending' = 0
      BY <3>1 DEF Pending
    <3> QED
      BY <1>4, <2>1, <3>1, <3>2 DEF Synced, Later, Checked
  <2> QED
    BY <2>1, <2>2, <2>3
<1>8. CASE GetControllers
  <2>1. pc = "ctrl" /\ pc' = "config" /\ flash' = flash /\ priv' = [priv EXCEPT !["ctrl"] = flash["ctrl"]]
    BY <1>8, Zenon DEF GetControllers
  <2>2. priv'["ctrl"] = flash["ctrl"]
    BY <1>1, <2>1 DEF TypeInv
  <2>3. Pending' = Pending
    BY <1>2, <2>1 DEF Pending, Unchecked
  <2>4. ~late /\ flash'["ctrl"] # 0 => Numbered'
    BY <1>2, <1>4, <1>5, <2>1, <2>3, NumberTypes DEF Numbered, Ahead
  <2> QED
    BY <1>4, <2>1, <2>2, <2>3, <2>4 DEF Synced, Later, Checked
<1>9. CASE Restore("config", "config_num", 1, "aid")
  <2>1. pc = "config" /\ pc' = "aid"
    BY <1>9, Zenon DEF Restore
  <2>2. /\ flash["config_num"] # 0 => flash' = flash /\ priv' = [priv EXCEPT !["config_num"] = flash["config_num"]]
        /\ flash["config_num"] = 0 => /\ flash' = [flash EXCEPT !["config_num"] = 1]
                                      /\ priv' = [priv EXCEPT !["config_num"] = 1]
    BY <1>0, <1>9 DEF Restore, hap_keystore_set
  <2>3. /\ flash'["ctrl"] = flash["ctrl"] /\ flash'["fw_rev"] = flash["fw_rev"]
        /\ priv'["ctrl"] = priv["ctrl"] /\ priv'["config_num"] = flash'["config_num"] /\ flash'["config_num"] # 0
        /\ flash["config_num"] # 0 => flash'["config_num"] = flash["config_num"]
    <3>1. flash \in [Keys -> Nat] /\ priv \in [Ram -> Nat]
      BY DEF TypeInv
    <3>2. CASE flash["config_num"] # 0
      BY <1>1, <2>2, <3>1, <3>2
    <3>3. CASE flash["config_num"] = 0
      BY <1>1, <2>2, <3>1, <3>3
    <3> QED
      BY <3>2, <3>3
  <2>4. Pending' = Pending
    BY <1>2, <2>1, <2>3 DEF Pending, Unchecked
  <2>5. ~late /\ flash'["ctrl"] # 0 => Numbered'
    BY <1>2, <1>4, <1>5, <2>1, <2>3, <2>4, NumberTypes DEF Numbered, Ahead
  <2>6. pc \in Later
    BY <2>1 DEF Later, Phases, Booting
  <2> QED
    BY <1>4, <1>5, <2>1, <2>3, <2>4, <2>5, <2>6 DEF Synced, Later, Checked
<1>10. CASE SameFirmware
  <2>1. pc = "fw" /\ pc' = "httpd" /\ flash' = flash /\ priv' = priv /\ flash["fw_rev"] = fw
    BY <1>10, Zenon DEF SameFirmware, Step
  <2>2. Pending' = 0
    BY <2>1 DEF Pending, Unchecked
  <2>3. ~late /\ flash'["ctrl"] # 0 => Numbered'
    BY <1>2, <1>4, <1>5, <2>1, <2>2, NumberTypes DEF Numbered, Ahead
  <2>4. pc \in Later \ {"config"}
    BY <2>1 DEF Later, Phases, Booting
  <2> QED
    BY <1>2, <1>4, <1>5, <2>1, <2>2, <2>3, <2>4 DEF Synced
<1>11. CASE CheckFirmware
  <2> DEFINE n == Following(priv["config_num"], CfgMax)
  <2>1. n \in 1..CfgMax
    BY Ranges
  <2>2. CASE /\ pc = "fw" /\ pc' = "fwsave" /\ flash["fw_rev"] \notin {0, fw}
             /\ priv' = [priv EXCEPT !["config_num"] = n] /\ hap_keystore_set("config_num", priv'["config_num"])
    <3>1. flash' = [flash EXCEPT !["config_num"] = priv'["config_num"]]
      BY <1>0, <2>2, Zenon DEF hap_keystore_set
    <3>2. priv'["config_num"] = n /\ priv'["ctrl"] = priv["ctrl"] /\ n \in Nat /\ n # 0
      BY <1>1, <2>1, <2>2 DEF TypeInv
    <3> HIDE DEF n
    <3>3. flash'["config_num"] = n /\ flash'["ctrl"] = flash["ctrl"] /\ flash'["fw_rev"] = flash["fw_rev"]
      BY <1>1, <3>1, <3>2 DEF TypeInv
    <3>4. Pending = 1 /\ Pending' = 0
      BY <2>2 DEF Pending, Unchecked
    <3>5. pc \in Later \ {"config"}
      BY <2>2 DEF Later, Phases, Booting
    <3>6. priv["config_num"] = flash["config_num"] /\ priv["ctrl"] = flash["ctrl"]
      BY <1>5, <3>5 DEF Synced
    <3>7. ~late /\ flash'["ctrl"] # 0 => Numbered'
      <4> SUFFICES ASSUME ~late, flash'["ctrl"] # 0 PROVE Numbered'
        OBVIOUS
      <4>1. Numbered
        BY <1>5, <3>3
      <4>2. flash["config_num"] \in 1..CfgMax /\ seen.cfg \in 1..CfgMax
        BY <4>1, NumberTypes DEF Numbered
      <4>3. Ahead(flash["config_num"], seen.cfg) + 1 <= Used
        BY <1>3, <3>4, <4>1, <4>2, AheadOne, NumberTypes DEF Numbered, Ahead
      <4>4. /\ Ahead(n, seen.cfg) = Ahead(flash["config_num"], seen.cfg) + 1 /\ n # seen.cfg
        <5>1. Ahead(flash["config_num"], seen.cfg) + 1 < CfgMax
          BY <1>4, <4>2, <4>3, NumberTypes DEF Ahead
        <5> QED
          BY <3>6, <4>2, <5>1, AheadOne DEF n
      <4>5. Ahead(n, seen.cfg) + 0 + 0 <= Used'
        BY <1>4, <4>2, <4>3, <4>4, NumberTypes DEF Ahead
      <4>6. Ahead(flash["config_num"], seen.cfg)' = Ahead(n, seen.cfg)
        BY <1>2, <3>3 DEF Ahead
      <4> QED
        BY <1>2, <1>3, <3>2, <3>3, <3>4, <4>1, <4>4, <4>5, <4>6 DEF Numbered
    <3> QED
      BY <1>4, <2>2, <3>2, <3>3, <3>4, <3>6, <3>7 DEF Synced, Checked
  <2>3. CASE pc = "fw" /\ pc' = "fwsave" /\ flash["fw_rev"] = 0 /\ UNCHANGED <<priv, flash>>
    <3>1. Pending' = 0
      BY <2>3 DEF Pending, Unchecked
    <3>2. ~late /\ flash'["ctrl"] # 0 => Numbered'
      BY <1>2, <1>4, <1>5, <2>3, <3>1, NumberTypes DEF Numbered, Ahead
    <3>3. pc \in Later \ {"config"}
      BY <2>3 DEF Later, Phases, Booting
    <3> QED
      BY <1>4, <1>5, <2>3, <3>1, <3>2, <3>3 DEF Synced, Checked
  <2>4. CASE pc = "fwsave" /\ pc' = "httpd" /\ hap_keystore_set("fw_rev", fw) /\ UNCHANGED priv
    <3>1. flash' = [flash EXCEPT !["fw_rev"] = fw]
      BY <1>0, <2>4, Zenon DEF hap_keystore_set
    <3>2. flash'["config_num"] = flash["config_num"] /\ flash'["ctrl"] = flash["ctrl"] /\ flash'["fw_rev"] = fw
      BY <1>1, <3>1 DEF TypeInv
    <3>3. Pending' = 0
      BY <2>4 DEF Pending, Unchecked
    <3>4. ~late /\ flash'["ctrl"] # 0 => Numbered'
      BY <1>2, <1>4, <1>5, <2>4, <3>2, <3>3, NumberTypes DEF Numbered, Ahead
    <3>5. pc \in Later \ {"config"}
      BY <2>4 DEF Later, Phases, Booting
    <3> QED
      BY <1>2, <1>4, <1>5, <2>4, <3>2, <3>3, <3>4, <3>5 DEF Synced
  <2> QED
    BY <1>11, <2>2, <2>3, <2>4, Zenon DEF CheckFirmware, Step, n
<1> QED
  BY <1>7, <1>8, <1>9, <1>10, <1>11

\* What is to be shown of a step to, or within, the running accessory.
LEMMA RunningKeeps ==
  ASSUME pc' = "running", Len(queue') <= Used', Len(queue') \in Nat,
         priv'["config_num"] # 0, Lagging',
         \A t \in Tasks : announcing'[t].how = "alone" => announcing'[t].cfg = priv'["config_num"],
         reset' = None \/ (~late' /\ flash'["ctrl"] # 0) => Synced',
         flash'["fw_rev"] \in {0, fw'},
         ~late' /\ flash'["ctrl"] # 0 => Numbered',
         ~late' /\ (is_accessory_paired)' /\ seen'.cfg = priv'["config_num"] => seen'.fw = fw'
  PROVE  NumberInv' /\ Pending' = 0
<1>1. Pending' = 0
  BY DEF Pending, Unchecked
<1>2. Len(queue') + Pending' <= Used'
  BY <1>1
<1> QED
  BY <1>1, <1>2, Zenon DEF NumberInv

\* A controller that remembers the number of an accessory without a reset knows
\* the services of its firmware.
LEMMA Remembered ==
  ASSUME pc' = "running", Synced', ~late', flash'["ctrl"] # 0 => Numbered'
  PROVE  (is_accessory_paired)' /\ seen'.cfg = priv'["config_num"] => seen'.fw = fw'
<1>1. "running" \in Later /\ "running" # "config" /\ "running" \in Checked
  BY DEF Later, Phases, Checked
<1>2. /\ priv'["ctrl"] = flash'["ctrl"] /\ priv'["config_num"] = flash'["config_num"]
      /\ flash'["fw_rev"] = fw'
  BY <1>1 DEF Synced
<1> QED
  BY <1>2 DEF Numbered, is_accessory_paired

\* What a step of the running accessory leaves alone of Lagging, as far as the
\* queue grows no longer than the changes.
LEMMA LagKept ==
  ASSUME TypeInv, Lagging, UNCHANGED <<pc, txt>>, priv'["config_num"] = priv["config_num"],
         Len(queue') \in Nat, Used' \in Nat,
         \/ Len(queue') <= Len(queue) /\ Used' >= Used
         \/ Len(queue') <= Len(queue) + 1 /\ Used' = Used + 1
  PROVE  Lagging'
<1> SUFFICES ASSUME txt.cfg # 0 PROVE Lagging'
  BY DEF Lagging
<1>1. /\ priv["config_num"] \in Nat /\ CfgMax \in Nat /\ txt.cfg \in Nat /\ Len(queue) \in Nat /\ Used \in Nat
  BY NumberTypes, UsedRoom
<1>2. Ahead(priv["config_num"], txt.cfg) \in Int
      /\ Ahead(priv["config_num"], txt.cfg)' = Ahead(priv["config_num"], txt.cfg)
  BY <1>1 DEF Ahead
<1> QED
  BY <1>1, <1>2 DEF Lagging

\* The announcement that ends the start.
LEMMA NumberServices ==
  ASSUME TypeInv, TypeInv', KeyInv, NumberInv, Counting, Clean', Roomy,
         HapStart, UNCHANGED <<flash, priv, drawn, fw, known, seen, late, torn>>, pc = "services"
  PROVE  NumberInv'
<1>0. Clean /\ Sure /\ ~Once("fails")
  BY CleanBefore
<1>1. pc' = "running" /\ UNCHANGED <<queue, reset, announcing>> /\ txt'.cfg = priv["config_num"]
  BY <1>0 DEF HapStart, Step, running
<1>2. pc \in Checked /\ pc \in Later \ {"config"} /\ pc # "running" /\ pc \notin Unchecked /\ pc # "fwsave"
      /\ "running" \in Later
  BY DEF Checked, Later, Phases, Booting, Unchecked
<1>3. queue = <<>> /\ reset = None /\ Len(queue') = 0
  <2>1. queue = <<>> /\ reset = None
    BY <1>0, <1>2, NumberFacts, Zenon
  <2> QED
    BY <1>1, <2>1
<1>4. Synced /\ (~late /\ flash["ctrl"] # 0 => Numbered)
      /\ \A t \in Tasks : announcing[t].how # "alone"
  BY <1>0, <1>2, <1>3, NumberFacts, Zenon
<1>5. Synced' /\ priv["config_num"] # 0 /\ flash["fw_rev"] = fw
  BY <1>1, <1>2, <1>4 DEF Synced
<1>6. Used' \in Nat /\ Used \in Nat /\ Used' >= Used /\ CfgMax \in Nat
      /\ priv["config_num"] \in Nat /\ priv["config_num"] <= CfgMax
  BY UsedGrows, NumberTypes
<1>7. Lagging'
  <2>1. Ahead(priv["config_num"], txt.cfg)' = 0
    BY <1>1, <1>6 DEF Ahead
  <2> QED
    BY <1>1, <1>3, <1>6, <2>1 DEF Lagging
<1>8. ~late' /\ flash'["ctrl"] # 0 => Numbered'
  <2> SUFFICES ASSUME ~late', flash'["ctrl"] # 0 PROVE Numbered'
    OBVIOUS
  <2>1. Numbered
    BY <1>4
  <2>2. Ahead(flash["config_num"], seen.cfg)' = Ahead(flash["config_num"], seen.cfg)
        /\ Ahead(flash["config_num"], seen.cfg) \in Int
    BY NumberTypes DEF Ahead
  <2>3. Pending' = 0 /\ Pending = 0 /\ Len(queue) = 0
    BY <1>1, <1>2, <1>3 DEF Pending, Unchecked
  <2> QED
    BY <1>1, <1>3, <1>6, <2>1, <2>2, <2>3 DEF Numbered
<1>9. ~late' /\ (is_accessory_paired)' /\ seen'.cfg = priv'["config_num"] => seen'.fw = fw'
  <2>1. (is_accessory_paired)' => flash'["ctrl"] # 0
    BY <1>1, <1>2, <1>5 DEF is_accessory_paired, Synced
  <2> QED
    BY <1>1, <1>5, <1>8, <2>1, Remembered
<1>10. Len(queue') <= Used' /\ Len(queue') \in Nat
  BY <1>3, <1>6
<1>11. /\ \A t \in Tasks : announcing'[t].how = "alone" => announcing'[t].cfg = priv'["config_num"]
       /\ flash'["fw_rev"] \in {0, fw'} /\ priv'["config_num"] # 0
  BY <1>1, <1>4, <1>5
<1> QED
  BY <1>1, <1>5, <1>7, <1>8, <1>9, <1>10, <1>11, RunningKeeps

\* An event of the loop that increments the number and formats a record of it:
\* the number in the keystore and in RAM is one further ahead of the one read
\* and of the one announced, and the queue is one shorter.
LEMMA NumberConfig ==
  ASSUME TypeInv, TypeInv', KeyInv, NumberInv, Counting, Clean', Roomy,
         hap_nw_configured_sm, Receive({"config"}),
         Format("loop", [priv EXCEPT !["config_num"] = Following(@, CfgMax)], {"config_num"})
  PROVE  NumberInv'
<1>0. Clean /\ Sure /\ ~Once("fails")
  <2>1. torn' = torn
    BY Zenon DEF hap_nw_configured_sm, world
  <2> QED
    BY <2>1, CleanBefore
<1>1. /\ "config_num" \in Keys /\ "ctrl" \in Keys /\ "fw_rev" \in Keys /\ "loop" \in Tasks
      /\ "config_num" \in Ram /\ "ctrl" \in Ram /\ "state_num" \in Ram /\ "setting" \in Ram
      /\ {"config"} \in SUBSET Events
  BY DEF Keys, Ram, Tasks, Events
<1>2. UNCHANGED <<pc, reset, txt, fw, seen, late>> /\ reset = None /\ queue # <<>>
  BY Zenon DEF hap_nw_configured_sm, world, Receive, Idle
<1>3. Len(queue') \in Nat /\ Len(queue) \in Nat /\ Len(queue') = Len(queue) - 1
  BY <1>1, QueueLengths, NumberTypes
<1>4. /\ pc = "running" /\ Synced /\ (~late /\ flash["ctrl"] # 0 => Numbered)
      /\ Lagging /\ Len(queue) + Pending <= Used /\ priv["config_num"] # 0
  BY <1>0, <1>2, NumberFacts, Zenon
<1> DEFINE n == Following(priv["config_num"], CfgMax)
           p == [priv EXCEPT !["config_num"] = n]
<1>5. priv["config_num"] \in 1..CfgMax /\ n \in 1..CfgMax
  BY <1>4, NumberTypes, Ranges
<1>6. /\ p \in [Ram -> Nat] /\ p["config_num"] = n /\ p["ctrl"] = priv["ctrl"]
      /\ p["config_num"] <= CfgMax /\ p["state_num"] <= StateMax /\ p["setting"] <= 3
  <2> HIDE DEF n
  <2>1. priv \in [Ram -> Nat] /\ priv["state_num"] <= StateMax /\ priv["setting"] <= 3
    BY DEF TypeInv
  <2> QED
    BY <1>1, <1>5, <2>1
<1>7. Format("loop", p, {"config_num"})
  OBVIOUS
<1> HIDE DEF p
<1>8. Formatted("loop", p, {"config_num"})
  BY <1>1, <1>6, <1>7, FormatEffect
<1>9. /\ priv'["config_num"] = n /\ flash'["config_num"] = n
      /\ priv'["ctrl"] = priv["ctrl"] /\ flash'["ctrl"] = flash["ctrl"] /\ flash'["fw_rev"] = flash["fw_rev"]
  <2>1. /\ "config_num" # "state_num" /\ "ctrl" # "state_num" /\ "fw_rev" # "state_num"
        /\ "ctrl" # "config_num" /\ "fw_rev" # "config_num"
    OBVIOUS
  <2>2. priv'["config_num"] = p["config_num"] /\ priv'["ctrl"] = p["ctrl"]
        /\ flash'["config_num"] = priv'["config_num"]
    BY <1>0, <1>1, <1>8, <2>1 DEF Formatted
  <2>3. flash'["ctrl"] = flash["ctrl"] /\ flash'["fw_rev"] = flash["fw_rev"]
    BY <1>1, <1>8, <2>1 DEF Formatted
  <2> QED
    BY <1>6, <2>2, <2>3
<1>10. \A t \in Tasks : announcing'[t].how = "alone" => announcing'[t].cfg = priv'["config_num"]
  BY <1>6, <1>8, <1>9 DEF Formatted
<1>11. Used \in Nat /\ Used' \in Nat /\ Used' >= Used /\ Used < CfgMax /\ CfgMax \in Nat
  BY UsedGrows, UsedRoom, HapDatabaseAssumption DEF Roomy
<1>12. "running" \in Later \ {"config"} /\ "running" \in Checked /\ "running" # "fwsave"
  BY DEF Checked, Later, Phases, Booting
<1>13. priv["config_num"] = flash["config_num"] /\ priv["ctrl"] = flash["ctrl"] /\ flash["fw_rev"] = fw
  BY <1>4, <1>12 DEF Synced
<1>14. Pending' = 0 /\ Pending = 0
  BY <1>2, <1>4 DEF Pending, Unchecked
<1>15. Synced'
  BY <1>2, <1>4, <1>5, <1>9, <1>12, <1>13 DEF Synced
<1>16. ASSUME NEW m \in 1..CfgMax, Ahead(priv["config_num"], m) + Len(queue) <= Used
       PROVE  /\ Ahead(n, m) \in Int /\ Ahead(n, m) + Len(queue') <= Used' /\ n # m
  <2>1. Ahead(priv["config_num"], m) \in Nat
    BY <1>5, <1>11 DEF Ahead
  <2>2. Ahead(priv["config_num"], m) + 1 < CfgMax
    BY <1>3, <1>11, <1>16, <2>1
  <2>3. Ahead(n, m) = Ahead(priv["config_num"], m) + 1 /\ n # m
    BY <1>5, <2>2, AheadOne
  <2> HIDE DEF n
  <2> QED
    BY <1>3, <1>11, <1>16, <2>1, <2>3
<1> HIDE DEF n
<1>17. Lagging'
  <2> SUFFICES ASSUME txt.cfg # 0 PROVE Lagging'
    BY <1>2 DEF Lagging
  <2>1. txt.cfg \in 1..CfgMax /\ Ahead(priv["config_num"], txt.cfg) + Len(queue) <= Used
    BY <1>4, NumberTypes DEF Lagging
  <2>2. Ahead(n, txt.cfg) + Len(queue') <= Used'
    BY <1>16, <2>1
  <2>3. Ahead(priv["config_num"], txt.cfg)' = Ahead(n, txt.cfg)
    BY <1>2, <1>9 DEF Ahead
  <2> QED
    BY <1>2, <1>4, <2>1, <2>2, <2>3 DEF Lagging
<1>18. ~late' /\ flash'["ctrl"] # 0 => Numbered'
  <2> SUFFICES ASSUME ~late', flash'["ctrl"] # 0 PROVE Numbered'
    OBVIOUS
  <2>1. Numbered
    BY <1>2, <1>4, <1>9
  <2>2. seen.cfg \in 1..CfgMax
    BY <2>1, NumberTypes DEF Numbered
  <2>3. Ahead(priv["config_num"], seen.cfg) \in Int
    BY <1>5, <1>11, <2>2 DEF Ahead
  <2>4. Ahead(priv["config_num"], seen.cfg) + Len(queue) <= Used
    <3>1. Ahead(priv["config_num"], seen.cfg) + Len(queue) + Pending <= Used
      BY <1>13, <2>1 DEF Numbered
    <3> QED
      BY <1>3, <1>11, <1>14, <2>3, <3>1
  <2>5. Ahead(n, seen.cfg) \in Int /\ Ahead(n, seen.cfg) + Len(queue') <= Used' /\ n # seen.cfg
    BY <1>16, <2>2, <2>4
  <2>6. Ahead(flash["config_num"], seen.cfg)' = Ahead(n, seen.cfg)
    BY <1>2, <1>9 DEF Ahead
  <2>7. Ahead(flash["config_num"], seen.cfg)' + Len(queue') + Pending' <= Used'
    BY <1>3, <1>11, <1>14, <2>5, <2>6
  <2> QED
    BY <1>2, <1>4, <1>5, <1>9, <1>12, <2>1, <2>2, <2>5, <2>7 DEF Numbered
<1>19. ~late' /\ (is_accessory_paired)' /\ seen'.cfg = priv'["config_num"] => seen'.fw = fw'
  <2>1. (is_accessory_paired)' => flash'["ctrl"] # 0
    BY <1>9, <1>13 DEF is_accessory_paired
  <2> QED
    BY <1>2, <1>4, <1>15, <1>18, <2>1, Remembered
<1>20. Len(queue') <= Used' /\ pc' = "running" /\ priv'["config_num"] # 0 /\ flash'["fw_rev"] \in {0, fw'}
  <2>1. Len(queue') <= Used'
    BY <1>3, <1>4, <1>11, <1>14
  <2> QED
    BY <1>2, <1>4, <1>5, <1>9, <1>13, <2>1
<1> QED
  BY <1>3, <1>10, <1>15, <1>17, <1>18, <1>19, <1>20, RunningKeeps

\* A reset keeps the numbers: it takes the record down or leaves it, and erases
\* the controllers with the number or before it.
LEMMA NumberReset ==
  ASSUME TypeInv, TypeInv', KeyInv, NumberInv, Counting, Clean', ResetBegin \/ ResetErase
  PROVE  NumberInv'
<1>0. Clean /\ Sure /\ ~Once("fails")
  <2>1. torn' = torn
    BY Zenon DEF ResetBegin, ResetErase, world
  <2> QED
    BY <2>1, CleanBefore
<1>1. /\ "config_num" \in Keys /\ "ctrl" \in Keys /\ "fw_rev" \in Keys
  BY DEF Keys
<1>2. /\ Used \in Nat /\ Used' \in Nat /\ Used' >= Used /\ Len(queue) \in Nat
      /\ Len(queue) + Pending <= Used /\ Pending \in {0, 1}
      /\ (~late /\ flash["ctrl"] # 0 => Numbered)
  BY <1>0, UsedGrows, NumberFacts
<1>3. UNCHANGED <<priv, pc, announcing, fw, seen, late>> /\ (txt' = txt \/ txt'.cfg = 0)
  <2>1. UNCHANGED <<priv, pc, announcing, fw, seen, late>>
    BY Zenon DEF ResetBegin, ResetErase, world, mdns
  <2>2. txt' = txt \/ hap_mdns_deannounce
    BY Zenon DEF ResetBegin, ResetErase, mdns
  <2> QED
    BY <2>1, <2>2, DeannounceTypes, Zenon
<1>4. pc = "running" /\ pc' = "running" /\ reset' # None /\ Len(queue') <= Len(queue)
      /\ Len(queue') \in Nat
  <2>1. CASE ResetBegin
    <3>1. Resets \in SUBSET Events
      BY DEF Events
    <3>2. queue # <<>> /\ Len(queue') <= Len(queue) /\ Len(queue') \in Nat
      BY <1>2, <2>1, <3>1, QueueLengths DEF ResetBegin, Receive
    <3>3. Head(queue) \in Resets /\ reset' = Erasures(Head(queue))
      BY <2>1, <3>1, Receiving, Zenon DEF ResetBegin
    <3>5. pc = "running"
      BY <1>0, <3>2, NumberFacts, Zenon
    <3>6. reset' # None
      BY <3>3, ErasuresTyped
    <3> QED
      BY <1>3, <3>2, <3>5, <3>6
  <2>2. CASE ResetErase
    <3>1. /\ reset # None /\ queue' = queue
          /\ reset' = Tail(reset) /\ reset \in {<<"net">>, <<"all">>, <<"main">>, <<"ctrl", "main">>,
                                               <<"net", "main">>, <<"ctrl", "net", "main">>}
      BY <2>2 DEF ResetErase, KeyInv, ResetShape
    <3>2. /\ Tail(<<"net">>) = <<>> /\ Tail(<<"all">>) = <<>> /\ Tail(<<"main">>) = <<>>
          /\ Tail(<<"ctrl", "main">>) = <<"main">> /\ Tail(<<"net", "main">>) = <<"main">>
          /\ Tail(<<"ctrl", "net", "main">>) = <<"net", "main">>
      OBVIOUS
    <3>3. reset' \in {<<>>, <<"main">>, <<"net", "main">>}
      BY <3>1, <3>2
    <3>4. reset' # None
      BY <3>3 DEF None
    <3>5. pc = "running"
      BY <1>0, <3>1, NumberFacts, Zenon
    <3> QED
      BY <1>2, <1>3, <3>1, <3>4, <3>5
  <2> QED
    BY <2>1, <2>2
<1>5. flash["fw_rev"] \in {0, fw}
  BY <1>0, <1>4, NumberFacts DEF Checked
<1>6. /\ flash'["fw_rev"] \in {0, flash["fw_rev"]}
      /\ ~late /\ flash'["ctrl"] # 0 => /\ flash'["config_num"] = flash["config_num"] /\ flash'["ctrl"] = flash["ctrl"]
                                       /\ flash'["fw_rev"] = flash["fw_rev"]
  <2>1. CASE ResetBegin
    BY <2>1 DEF ResetBegin
  <2>2. CASE ResetErase
    <3>1. \A k \in Keys : flash'[k] = IF k \in Erased(Head(reset)) THEN 0 ELSE flash[k]
      BY <1>0, <2>2 DEF ResetErase, hap_keystore_delete_namespace
    <3>2. reset \notin {None, <<>>}
      BY <2>2 DEF ResetErase
    <3>3. ASSUME ~late, flash'["ctrl"] # 0 PROVE reset = <<"net">>
      <4>1. reset \notin {<<"main">>, <<"net", "main">>}
        BY <1>0, <1>1, <3>1, <3>3 DEF KeyInv, Erasing
      <4>2. reset \notin {<<"all">>, <<"ctrl", "main">>, <<"ctrl", "net", "main">>}
        BY <1>1, <3>1, <3>3 DEF Erased
      <4> QED
        BY <3>2, <4>1, <4>2 DEF KeyInv, ResetShape
    <3>4. reset = <<"net">> => Erased(Head(reset)) = {}
      BY DEF Erased
    <3> QED
      BY <1>1, <3>1, <3>3, <3>4
  <2> QED
    BY <2>1, <2>2
<1>7. ~late' /\ flash'["ctrl"] # 0 => Numbered'
  <2> SUFFICES ASSUME ~late', flash'["ctrl"] # 0 PROVE Numbered'
    OBVIOUS
  <2>1. Numbered
    BY <1>2, <1>3, <1>6
  <2>2. Ahead(flash["config_num"], seen.cfg)' = Ahead(flash["config_num"], seen.cfg)
        /\ Ahead(flash["config_num"], seen.cfg) \in Int
    BY <1>3, <1>6, NumberTypes DEF Ahead
  <2>3. Pending' = 0
    BY <1>4 DEF Pending, Unchecked
  <2> QED
    BY <1>2, <1>3, <1>4, <1>6, <2>1, <2>2, <2>3 DEF Numbered
<1>8. /\ Lagging /\ (~late /\ flash["ctrl"] # 0 => Synced) /\ priv["config_num"] # 0
      /\ \A t \in Tasks : announcing[t].how = "alone" => announcing[t].cfg = priv["config_num"]
      /\ ~late /\ is_accessory_paired /\ seen.cfg = priv["config_num"] => seen.fw = fw
  BY <1>0, <1>4, NumberFacts, Zenon
<1>9. Lagging'
  <2>1. CASE txt' = txt
    BY <1>2, <1>3, <1>4, <1>8, <2>1, LagKept
  <2>2. CASE txt'.cfg = 0
    BY <2>2 DEF Lagging
  <2> QED
    BY <1>3, <2>1, <2>2
<1>10. reset' = None \/ (~late' /\ flash'["ctrl"] # 0) => Synced'
  <2> SUFFICES ASSUME ~late', flash'["ctrl"] # 0 PROVE Synced'
    BY <1>4
  <2>1. Synced
    BY <1>3, <1>6, <1>8
  <2> QED
    BY <1>3, <1>6, <2>1 DEF Synced
<1>11. /\ ~late' /\ (is_accessory_paired)' /\ seen'.cfg = priv'["config_num"] => seen'.fw = fw'
       /\ \A t \in Tasks : announcing'[t].how = "alone" => announcing'[t].cfg = priv'["config_num"]
       /\ priv'["config_num"] # 0
  BY <1>3, <1>8 DEF is_accessory_paired
<1>12. Len(queue') <= Used' /\ flash'["fw_rev"] \in {0, fw'}
  <2>1. Len(queue') <= Used'
    BY <1>2, <1>4
  <2> QED
    BY <1>3, <1>5, <1>6, <2>1
<1> QED
  BY <1>4, <1>7, <1>9, <1>10, <1>11, <1>12, RunningKeeps

\* A restart loses the queue and the record; only a loss of power changes the
\* firmware, and it is counted.
LEMMA NumberRestart ==
  ASSUME TypeInv, TypeInv', KeyInv, NumberInv, Counting, Clean', ResetRestart \/ Crash
  PROVE  NumberInv'
<1>0. Clean /\ Restarted
  <2>1. Restarted
    BY Zenon DEF ResetRestart, Crash
  <2> QED
    BY <2>1, CleanBefore DEF Restarted
<1>1. /\ pc' = "keystore" /\ queue' = <<>> /\ Len(queue') = 0 /\ reset' = None /\ txt'.cfg = 0
      /\ UNCHANGED <<flash, seen, late>>
  BY DEF ResetRestart, Crash, Restarted
<1>2. /\ Used \in Nat /\ Used' \in Nat /\ Used' >= Used /\ Len(queue) \in Nat
      /\ Pending \in {0, 1} /\ (~late /\ flash["ctrl"] # 0 => Numbered)
  BY <1>0, UsedGrows, NumberFacts
<1>3. Pending' \in Nat /\ Used + Pending' <= Used'
  <2>1. CASE ResetRestart
    <3>1. reset # None
      BY <2>1 DEF ResetRestart, None
    <3>2. pc = "running"
      BY <1>0, <3>1, NumberFacts
    <3>3. flash["fw_rev"] \in {0, fw} /\ fw' = fw
      BY <1>0, <2>1, <3>2, NumberFacts DEF Checked, ResetRestart
    <3>4. Pending' = 0
      BY <1>1, <3>3 DEF Pending
    <3> QED
      BY <1>2, <3>4
  <2>2. CASE Crash
    <3>1. Used' = Used + 1
      BY <2>2, UsedGrows DEF Crash
    <3>2. Pending' \in {0, 1}
      BY DEF Pending
    <3>3. Pending' \in Nat /\ Pending' <= 1
      BY <3>2
    <3>4. \A x \in Nat : \A y \in Nat : y <= 1 => x + y <= x + 1
      OBVIOUS
    <3>5. Used + Pending' <= Used + 1
      BY <1>2, <3>3, <3>4
    <3> QED
      BY <3>1, <3>3, <3>5
  <2> QED
    BY <2>1, <2>2
<1>4. Synced'
  BY <1>1 DEF Synced, Later, Checked
<1>5. ~late' /\ flash'["ctrl"] # 0 => Numbered'
  <2> SUFFICES ASSUME ~late', flash'["ctrl"] # 0 PROVE Numbered'
    OBVIOUS
  <2>1. Numbered
    BY <1>1, <1>2
  <2>2. Ahead(flash["config_num"], seen.cfg)' = Ahead(flash["config_num"], seen.cfg)
        /\ Ahead(flash["config_num"], seen.cfg) \in Int
    BY <1>1, NumberTypes DEF Ahead
  <2>3. Ahead(flash["config_num"], seen.cfg) <= Used
    BY <1>2, <2>1, <2>2 DEF Numbered
  <2>4. \A a \in Int, u \in Nat, q \in Nat, v \in Nat : a <= u /\ u + q <= v => a + 0 + q <= v
    OBVIOUS
  <2>5. Ahead(flash["config_num"], seen.cfg)' + Len(queue') + Pending' <= Used'
    BY <1>1, <1>2, <1>3, <2>2, <2>3, <2>4, Zenon
  <2> QED
    BY <1>1, <2>1, <2>5 DEF Numbered
<1>6. Len(queue') + Pending' <= Used'
  <2>1. \A u \in Nat, q \in Nat, v \in Nat : u + q <= v => 0 + q <= v
    OBVIOUS
  <2> QED
    BY <1>1, <1>2, <1>3, <2>1, Zenon
<1>7. Lagging' /\ \A t \in Tasks : announcing'[t].how # "alone"
  BY <1>0, <1>1, Silenced DEF Lagging
<1> QED
  BY <1>1, <1>4, <1>5, <1>6, <1>7 DEF NumberInv, Checked

\* Pairing, unpairing and the events of the application: an event makes up for
\* the operation that is counted.
LEMMA NumberOperation ==
  ASSUME TypeInv, TypeInv', KeyInv, NumberInv, Counting, Clean', Pair \/ Unpair \/ SendEvent
  PROVE  NumberInv'
<1>0. Clean
  <2>1. torn' = torn
    BY Zenon DEF Pair, Unpair, SendEvent
  <2> QED
    BY <2>1, CleanBefore
<1>1. /\ "config_num" \in Keys /\ "ctrl" \in Keys /\ "fw_rev" \in Keys
      /\ "config_num" \in Ram /\ "ctrl" \in Ram
      /\ "config_num" # "ctrl" /\ "fw_rev" # "ctrl"
      /\ "announce" \in Events /\ Resets \cup {"config"} \subseteq Events
  BY DEF Keys, Ram, Events
<1>2. pc = "running" /\ pc' = "running" /\ Once("ops") /\ UNCHANGED <<reset, txt, announcing, fw>>
  BY Zenon DEF Pair, Unpair, SendEvent, Operation, mdns
<1>3. /\ Used \in Nat /\ Used' = Used + 1 /\ Len(queue) \in Nat /\ Pending \in {0, 1}
      /\ Len(queue) <= Used
  BY <1>0, <1>2, UsedGrows, NumberFacts
<1>4. Len(queue') \in Nat /\ Len(queue') <= Len(queue) + 1
  <2>1. \E e \in Events : hap_send_event(e)
    BY <1>1 DEF Pair, Unpair, SendEvent
  <2> QED
    BY <2>1, QueueLengths
<1>5. /\ Lagging /\ priv["config_num"] # 0
      /\ \A t \in Tasks : announcing[t].how = "alone" => announcing[t].cfg = priv["config_num"]
      /\ (reset = None \/ (~late /\ flash["ctrl"] # 0) => Synced)
      /\ (~late /\ flash["ctrl"] # 0 => Numbered)
      /\ ~late /\ pc = "running" /\ is_accessory_paired /\ seen.cfg = priv["config_num"] => seen.fw = fw
  BY <1>0, <1>2, NumberFacts, Zenon
<1>6. flash["fw_rev"] \in {0, fw}
  BY <1>0, <1>2, NumberFacts DEF Checked
<1>7. /\ flash'["config_num"] = flash["config_num"] /\ flash'["fw_rev"] = flash["fw_rev"]
      /\ priv'["config_num"] = priv["config_num"]
      /\ \/ flash'["ctrl"] = flash["ctrl"] /\ priv'["ctrl"] = priv["ctrl"]
         \/ flash'["ctrl"] = priv'["ctrl"]
  BY <1>1 DEF Pair, Unpair, SendEvent, TypeInv
<1>8. "running" \in Later /\ "running" # "config" /\ "running" \in Checked /\ "running" # "fwsave"
  BY DEF Later, Phases, Checked
<1>9. Synced => Synced'
  BY <1>2, <1>7, <1>8 DEF Synced
<1>10. Pending' = 0
  BY <1>2 DEF Pending, Unchecked
<1>11. Lagging' /\ Len(queue') <= Used' /\ priv'["config_num"] # 0 /\ flash'["fw_rev"] \in {0, fw'}
       /\ \A t \in Tasks : announcing'[t].how = "alone" => announcing'[t].cfg = priv'["config_num"]
  <2>1. Lagging'
    BY <1>2, <1>3, <1>4, <1>5, <1>7, LagKept
  <2>2. Len(queue') <= Used'
    BY <1>3, <1>4
  <2> QED
    BY <1>2, <1>5, <1>6, <1>7, <2>1, <2>2
<1>12. CASE Pair
  <2>1. seen' = [cfg |-> priv["config_num"], fw |-> fw] /\ late' = (late \/ reset # None)
    BY <1>12, Zenon DEF Pair
  <2>2. ~late' => Numbered'
    <3> SUFFICES ASSUME ~late' PROVE Numbered'
      OBVIOUS
    <3>1. Synced
      BY <1>5, <2>1
    <3>2. priv["config_num"] = flash["config_num"] /\ flash["config_num"] # 0 /\ flash["fw_rev"] = fw
      BY <1>2, <1>8, <3>1 DEF Synced
    <3>3. Ahead(flash["config_num"], seen.cfg)' = 0
      BY <1>7, <2>1, <3>2, NumberTypes DEF Ahead
    <3>4. Ahead(flash["config_num"], seen.cfg)' + Len(queue') + Pending' <= Used'
      BY <1>3, <1>4, <1>10, <3>3
    <3> QED
      BY <1>2, <1>7, <1>8, <2>1, <3>2, <3>4, NumberTypes DEF Numbered
  <2>3. seen'.fw = fw'
    BY <1>2, <2>1
  <2>4. reset' = None \/ (~late' /\ flash'["ctrl"] # 0) => Synced'
    BY <1>2, <1>5, <1>9, <2>1
  <2> QED
    BY <1>2, <1>4, <1>11, <2>2, <2>3, <2>4, RunningKeeps
<1>13. CASE Unpair
  <2>1. priv'["ctrl"] = 0 /\ flash'["ctrl"] = 0
    BY <1>1, <1>13 DEF Unpair, TypeInv
  <2>2. ~(is_accessory_paired)'
    BY <2>1 DEF is_accessory_paired
  <2>3. reset' = None \/ (~late' /\ flash'["ctrl"] # 0) => Synced'
    BY <1>2, <1>5, <1>9, <2>1
  <2> QED
    BY <1>2, <1>4, <1>11, <2>1, <2>2, <2>3, RunningKeeps
<1>14. CASE SendEvent
  <2>1. UNCHANGED <<flash, priv, seen, late>>
    BY <1>14, Zenon DEF SendEvent
  <2>2. ~late' /\ flash'["ctrl"] # 0 => Numbered'
    <3> SUFFICES ASSUME ~late', flash'["ctrl"] # 0 PROVE Numbered'
      OBVIOUS
    <3>1. Numbered
      BY <1>5, <2>1
    <3>2. Ahead(flash["config_num"], seen.cfg)' = Ahead(flash["config_num"], seen.cfg)
          /\ Ahead(flash["config_num"], seen.cfg) \in Int
      BY <2>1, NumberTypes DEF Ahead
    <3>3. Ahead(flash["config_num"], seen.cfg)' + Len(queue') + Pending' <= Used'
      BY <1>3, <1>4, <1>10, <3>1, <3>2 DEF Numbered
    <3> QED
      BY <1>2, <1>8, <2>1, <3>1, <3>3 DEF Numbered
  <2>3. ~late' /\ (is_accessory_paired)' /\ seen'.cfg = priv'["config_num"] => seen'.fw = fw'
    BY <1>2, <1>5, <2>1 DEF is_accessory_paired
  <2>4. reset' = None \/ (~late' /\ flash'["ctrl"] # 0) => Synced'
    BY <1>2, <1>5, <1>9, <2>1
  <2> QED
    BY <1>2, <1>4, <1>11, <2>2, <2>3, <2>4, RunningKeeps
<1> QED
  BY <1>12, <1>13, <1>14

\* A controller that reads the database reads the number that is announced,
\* which the number in RAM has not come round to.
LEMMA NumberRead ==
  ASSUME TypeInv, TypeInv', KeyInv, NumberInv, Counting, Clean', ReadDatabase
  PROVE  NumberInv'
<1>0. Clean
  <2>1. torn' = torn
    BY Zenon DEF ReadDatabase
  <2> QED
    BY <2>1, CleanBefore
<1>1. /\ txt.cfg # 0 /\ seen' = [cfg |-> txt.cfg, fw |-> fw]
      /\ UNCHANGED <<flash, priv, pc, queue, reset, txt, announcing, fw, late>>
  BY Zenon DEF ReadDatabase, running, mdns
<1>2. /\ Used \in Nat /\ Used' \in Nat /\ Used' >= Used /\ Len(queue) \in Nat /\ Pending \in {0, 1}
      /\ Len(queue) + Pending <= Used
  BY <1>0, UsedGrows, NumberFacts
<1>3. Lagging
  BY <1>0, NumberFacts, Zenon
<1>4. pc = "running" /\ txt.cfg <= CfgMax /\ Ahead(priv["config_num"], txt.cfg) + Len(queue) <= Used
  BY <1>1, <1>3 DEF Lagging
<1>5. /\ priv["config_num"] # 0 /\ flash["fw_rev"] \in {0, fw}
      /\ (reset = None \/ (~late /\ flash["ctrl"] # 0) => Synced)
      /\ \A t \in Tasks : announcing[t].how = "alone" => announcing[t].cfg = priv["config_num"]
  <2>1. "running" \in Checked
    BY DEF Checked
  <2> QED
    BY <1>0, <1>4, <2>1, NumberFacts, Zenon
<1>6. "running" \in Later /\ "running" # "config" /\ "running" \in Checked /\ "running" # "fwsave"
  BY DEF Later, Phases, Checked
<1>7. Synced => Synced'
  BY <1>1 DEF Synced
<1>8. Lagging'
  BY <1>1, <1>2, <1>3, LagKept
<1>9. ~late' /\ flash'["ctrl"] # 0 => Numbered'
  <2> SUFFICES ASSUME ~late', flash'["ctrl"] # 0 PROVE Numbered'
    OBVIOUS
  <2>1. priv["config_num"] = flash["config_num"] /\ flash["fw_rev"] = fw
    BY <1>1, <1>4, <1>5, <1>6 DEF Synced
  <2>2. Ahead(flash["config_num"], seen.cfg)' = Ahead(priv["config_num"], txt.cfg)
    BY <1>1, <2>1 DEF Ahead
  <2>3. Pending' = 0
    BY <1>1, <1>4 DEF Pending, Unchecked
  <2>4. Ahead(priv["config_num"], txt.cfg) \in Int
    BY NumberTypes DEF Ahead
  <2>5. Ahead(flash["config_num"], seen.cfg)' + Len(queue') + Pending' <= Used'
    BY <1>1, <1>2, <1>4, <2>2, <2>3, <2>4
  <2> QED
    BY <1>1, <1>4, <1>5, <1>6, <2>1, <2>5, NumberTypes DEF Numbered
<1>10. Len(queue') <= Used' /\ Len(queue') \in Nat /\ seen'.fw = fw'
  BY <1>1, <1>2
<1>11. reset' = None \/ (~late' /\ flash'["ctrl"] # 0) => Synced'
  BY <1>1, <1>5, <1>7
<1>12. /\ pc' = "running" /\ priv'["config_num"] # 0 /\ flash'["fw_rev"] \in {0, fw'}
       /\ \A t \in Tasks : announcing'[t].how = "alone" => announcing'[t].cfg = priv'["config_num"]
  BY <1>1, <1>4, <1>5
<1> QED
  BY <1>8, <1>9, <1>10, <1>11, <1>12, RunningKeeps

\* Every step keeps the numbers apart.
LEMMA NumberStep ==
  ASSUME Roomy PROVE TypeInv /\ KeyInv /\ NumberInv /\ [Next]_vars => NumberInv'
<1> SUFFICES ASSUME TypeInv, KeyInv, NumberInv, [Next]_vars PROVE NumberInv'
  OBVIOUS
<1>1. TypeInv' /\ Counting
  BY TypeStep, Counts
<1> SUFFICES ASSUME Clean' PROVE NumberInv'
  BY Zenon DEF NumberInv
<1>2. ASSUME Plain PROVE NumberInv'
  BY <1>1, <1>2, PlainKeeps
<1>3. CASE Start
  <2>1. ASSUME HapStart, UNCHANGED <<flash, priv, drawn, fw, known, seen, late, torn>> PROVE NumberInv'
    <3>1. CASE pc = "services"
      BY <1>1, <2>1, <3>1, NumberServices
    <3>2. CASE pc # "services"
      BY <1>1, <1>2, <2>1, <3>2, PlainSteps
    <3> QED
      BY <3>1, <3>2
  <2>2. CASE \/ InitKeystore \/ GetControllers \/ Restore("config", "config_num", 1, "aid")
             \/ CheckFirmware \/ SameFirmware
    BY <1>1, <2>2, NumberStart
  <2>3. CASE \/ GetIdentity \/ SaveKey("ska", "ltska", "pka") \/ SaveKey("pka", "ltpka", "ctrl")
             \/ Restore("aid", "cur_aid", 1, "state") \/ InitStateNumber
             \/ Restore("setting", "setting", 1, "linked")
    BY <1>1, <1>2, <2>3, PlainSteps
  <2> QED
    BY <1>3, <2>1, <2>2, <2>3, Zenon DEF Start, hap_database_init
<1>4. CASE hap_nw_configured_sm
  <2>1. \/ /\ Receive({"config"})
           /\ Format("loop", [priv EXCEPT !["config_num"] = Following(@, CfgMax)], {"config_num"})
        \/ Receive({"announce"}) /\ Format("loop", priv, {})
    BY <1>4, Zenon DEF hap_nw_configured_sm
  <2>2. CASE /\ Receive({"config"})
             /\ Format("loop", [priv EXCEPT !["config_num"] = Following(@, CfgMax)], {"config_num"})
    BY <1>1, <1>4, <2>2, NumberConfig
  <2>3. CASE Receive({"announce"}) /\ Format("loop", priv, {})
    BY <1>1, <1>2, <1>4, <2>3, PlainAnnounce, Zenon
  <2> QED
    BY <2>1, <2>2, <2>3, Zenon
<1>5. CASE Notify \/ hap_mdns_serv("loop") \/ hap_mdns_serv("httpd")
  BY <1>1, <1>2, <1>5, PlainAnnounce, Zenon
<1>6. CASE CreateQueue \/ ResetBegin \/ ResetErase \/ ResetRestart
  BY <1>1, <1>2, <1>6, PlainSteps, NumberReset, NumberRestart, Zenon
<1>7. CASE Crash \/ Pair \/ Unpair \/ ReadDatabase \/ SendEvent \/ Configure \/ UNCHANGED vars
  BY <1>1, <1>2, <1>7, PlainSteps, NumberRestart, NumberOperation, NumberRead, Zenon
<1> QED
  BY <1>3, <1>4, <1>5, <1>6, <1>7, Zenon DEF Next, LoopStep

-----------------------------------------------------------------------------
(* The theorems *)

\* What a device that is fresh, or near the end of its numbers, starts with.
LEMMA InitTypes == Init => TypeInv
<1> SUFFICES ASSUME Init PROVE TypeInv
  OBVIOUS
<1>1. /\ CfgMax \in Nat /\ CfgMax > 1 /\ StateMax \in Nat /\ StateMax > 0 /\ EventQ \in Nat
      /\ Versions \subseteq Nat
  BY HapDatabaseAssumption
<1>2. flash \in [Keys -> Nat] /\ flash["config_num"] <= CfgMax /\ flash["state_num"] <= StateMax
      /\ flash["setting"] <= 3
  BY <1>1 DEF Init, Empty, Keys
<1>3. priv \in [Ram -> Nat] /\ priv["config_num"] = 0 /\ priv["state_num"] = 0 /\ priv["setting"] = 0
  BY DEF Init, Cleared, Ram, Keys
<1>4. /\ "acc_id" \in Keys /\ "ltpka" \in Keys /\ "config_num" \in Keys /\ "fw_rev" \in Keys
  BY DEF Keys
<1>5. /\ drawn \in Nat /\ known \in [id : Nat, pk : Nat] /\ seen \in [cfg : Nat, fw : Nat]
  BY <1>2, <1>4 DEF Init
<1>6. count \in [Counters -> Nat] /\ \A c \in Counters : count[c] <= Bound[c]
  BY Bounds DEF Init
<1>7. queue = <<>> /\ queue \in Seq(Events) /\ Len(queue) <= EventQ
  BY <1>1 DEF Init
<1>8. /\ pc \in Phases /\ loop = "no" /\ loop \in {"no", "started", "created"} /\ loop # "created"
      /\ reset = None /\ fw \in Versions /\ late \in BOOLEAN /\ dropped \in BOOLEAN
      /\ torn \in BOOLEAN
  BY DEF Init, Phases, Booting
<1>9. priv["config_num"] <= CfgMax /\ priv["state_num"] <= StateMax /\ priv["setting"] <= 3
  BY <1>1, <1>3
<1>10. MdnsTypes
  <2>1. Silent \in Records
    BY DEF Silent, Records
  <2> QED
    BY <2>1 DEF Init, MdnsTypes
<1> QED
  BY <1>2, <1>3, <1>5, <1>6, <1>7, <1>8, <1>9, <1>10, Zenon DEF TypeInv

\* Such a device keeps its identity and its keys together, announces nothing,
\* and is known with the number it has.
LEMMA InitKeys == Init => KeyInv
<1> SUFFICES ASSUME Init PROVE KeyInv
  OBVIOUS
<1>1. /\ flash["ltpka"] = flash["acc_id"] /\ flash["ltska"] = flash["acc_id"]
      /\ flash["ctrl"] = flash["acc_id"] /\ priv["ctrl"] = 0
  BY DEF Init, Empty, Cleared, Keys, Ram
<1>2. pc = "keystore" /\ reset = None /\ known = [id |-> flash["acc_id"], pk |-> flash["ltpka"]]
  BY DEF Init
<1>3. ResetShape /\ ~Erasing
  BY <1>2 DEF ResetShape, Erasing, None
<1> QED
  BY <1>1, <1>2, <1>3 DEF KeyInv, Drawing, Later

\* Nothing is announced before the start is over.
LEMMA InitRecord == Init => MetInv /\ RecordInv
<1> SUFFICES ASSUME Init PROVE MetInv /\ RecordInv
  OBVIOUS
<1>1. \A t \in Tasks : announcing[t].how = "no"
  BY DEF Init, Silent
<1> QED
  BY <1>1 DEF Init, MetInv, RecordInv, Announcing, Tasks

\* A controller knows the number and the firmware that are stored, if there is one.
LEMMA InitNumbers == Init => NumberInv
<1> SUFFICES ASSUME Init PROVE NumberInv
  OBVIOUS
<1>1. CfgMax \in Nat /\ CfgMax > 1
  BY HapDatabaseAssumption
<1>2. Used = 1
  <2>1. count["crashes"] = 0 /\ count["ops"] = 0
    BY DEF Init, Counters
  <2> QED
    BY <2>1 DEF Used
<1>3. /\ pc = "keystore" /\ queue = <<>> /\ Len(queue) = 0 /\ reset = None /\ txt.cfg = 0
      /\ seen.cfg = flash["config_num"] /\ seen.fw = flash["fw_rev"]
  BY DEF Init
<1>4. flash["ctrl"] # 0 => flash["config_num"] = CfgMax /\ flash["fw_rev"] = 1
  BY DEF Init, Empty, Keys
<1>5. Pending = 0 \/ Pending = 1
  BY DEF Pending
<1>6. Len(queue) + Pending <= Used
  BY <1>2, <1>3, <1>5
<1>7. flash["ctrl"] # 0 => Numbered
  BY <1>1, <1>2, <1>3, <1>4, <1>5 DEF Numbered, Ahead
<1>8. \A t \in Tasks : announcing[t].how # "alone"
  BY DEF Init, Silent
<1> QED
  BY <1>3, <1>6, <1>7, <1>8 DEF NumberInv, Lagging, Synced, Later, Checked

\* TypeInv says more than TypeOK.
LEMMA TypesImply == TypeInv => TypeOK
<1> SUFFICES ASSUME TypeInv PROVE TypeOK
  OBVIOUS
<1>1. pc \in {Starting[i] : i \in DOMAIN Starting} \cup {"failed"}
  <2>1. /\ DOMAIN Starting = 1..17
        /\ Starting[1] = "keystore" /\ Starting[2] = "id" /\ Starting[3] = "ska" /\ Starting[4] = "pka"
        /\ Starting[5] = "ctrl" /\ Starting[6] = "config" /\ Starting[7] = "aid" /\ Starting[8] = "state"
        /\ Starting[9] = "setting" /\ Starting[10] = "linked" /\ Starting[11] = "fw"
        /\ Starting[12] = "fwsave" /\ Starting[13] = "httpd" /\ Starting[14] = "loop"
        /\ Starting[15] = "mdns" /\ Starting[16] = "services" /\ Starting[17] = "running"
    BY DEF Starting
  <2>2. pc = "failed" \/ \E i \in 1..17 : pc = Starting[i]
    BY <2>1 DEF TypeInv, Phases, Booting
  <2> QED
    BY <2>1, <2>2
<1>2. \A c \in Counters : count[c] \in 0..Bound[c]
  <2>1. \A c \in Counters : count[c] \in Nat /\ count[c] <= Bound[c] /\ Bound[c] \in Nat
    BY Bounds DEF TypeInv
  <2> QED
    BY <2>1
<1>3. queue \in Seq(Resets \cup {"config", "announce"}) /\ reset \in {None} \cup Seq({"ctrl", "main", "net", "all"})
  BY DEF TypeInv, Events, Areas
<1> QED
  BY <1>1, <1>2, <1>3, Zenon DEF TypeInv, TypeOK, MdnsTypes, Records

\* The types are right in every state of the start, the loop and the resets.
THEOREM TypeCorrect == Spec => []TypeOK
<1>1. Spec => []TypeInv
  BY InitTypes, TypeStep, PTL DEF Spec
<1> QED
  BY <1>1, TypesImply, PTL

\* hap_database_init() saves the identity and the halves of its key pair one by
\* one, and a reset erases the controllers before the identity: wherever power is
\* lost, what is in the keystore belongs together, and an accessory that thinks
\* it is paired has the identity and the key its controller has paired with.
THEOREM IdentityKeptCorrect == Spec => []IdentityKept
<1>1. TypeInv /\ KeyInv => IdentityKept
  BY TypesImply DEF KeyInv, IdentityKept, KeysOfIdentity, is_accessory_paired, Sure
<1>2. Spec => [](TypeInv /\ KeyInv)
  BY InitTypes, InitKeys, TypeStep, KeyStep, PTL DEF Spec
<1> QED
  BY <1>1, <1>2, PTL

\* hap_mdns_announce() is called by the loop's task and by httpd's, without a
\* lock, and may fail: when the loop has handled its events and neither task is
\* announcing, configuration number and pairing are announced as they are, unless
\* since the last announcement made alone an event was refused, or an announcement
\* failed or met another.
THEOREM AnnouncedIsTrueCorrect == Spec => []AnnouncedIsTrue
<1>1. RecordInv => AnnouncedIsTrue
  BY Zenon DEF RecordInv, AnnouncedIsTrue, Idle, Tasks
<1>2. Spec => [](TypeInv /\ MetInv /\ RecordInv)
  BY InitTypes, InitRecord, TypeStep, MetStep, RecordStep, PTL DEF Spec
<1> QED
  BY <1>1, <1>2, PTL

\* hap_check_fw_version() and the number a controller has read: if the number
\* cannot come round its whole range, a controller that finds the configuration
\* number it remembers has read the services of the firmware that runs, unless a
\* record was announced that two tasks had formatted at once.
THEOREM FirmwareNumberedCorrect == ASSUME Roomy PROVE Spec => []FirmwareNumbered
<1>1. NumberInv => FirmwareNumbered
  BY DEF NumberInv, FirmwareNumbered, Clean, Sure
<1>2. TypeInv /\ KeyInv /\ NumberInv /\ [Next]_vars => NumberInv'
  BY NumberStep
<1>3. Spec => [](TypeInv /\ KeyInv /\ NumberInv)
  BY <1>2, InitTypes, InitKeys, InitNumbers, TypeStep, KeyStep, PTL DEF Spec
<1> QED
  BY <1>1, <1>3, PTL

=============================================================================
