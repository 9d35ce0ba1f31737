-------------------------- MODULE Warehouse_proofs --------------------------
(***************************************************************************)
(* Proofs about Warehouse, for every size of the two areas, every number   *)
(* of tasks and every interleaving of their writes.  The inductive         *)
(* invariants:                                                             *)
(*   TypeInv    types, which steps each task has, and the date pointers;   *)
(*   AloneInv   while no second task ran, only one can write;              *)
(*   RingInv    one writer: the date ring is in the order of its days, but *)
(*              for the record next to be overwritten;                     *)
(*   HourInv    one writer and no hour without modules: the hour list is   *)
(*              of the day of the last date record, no longer than the     *)
(*              day is old, and fits what its writer remembers;            *)
(*   SharedInv  any number of online tasks without restarts: the last hour *)
(*              record is of an hour that a task may still remember, and   *)
(*              of this hour when none is left to append.                  *)
(***************************************************************************)
EXTENDS Warehouse, SequenceTheorems, TLAPS

-----------------------------------------------------------------------------
(* Hours and days *)

\* The hour of a day and the day of a record are in their ranges.
LEMMA HourBound ==
  ASSUME NEW h \in Nat \ {0}, NEW n \in Nat, NEW m \in Nat, n <= m * h - 1
  PROVE  n % h \in 0..(h - 1) /\ 1 + n \div h \in 1..m
<1>1. n % h \in 0..(h - 1)
  OBVIOUS
<1>2. n \div h \in Nat
  OBVIOUS
<1>3. n \div h <= m - 1
  OBVIOUS
<1> QED
  BY <1>1, <1>2, <1>3

\* The hour and the day in the model's bound of time.
LEMMA HourTypes ==
  ASSUME TypeOK
  PROVE  Hr \in HourIdx /\ Today \in Days /\ Today \in 1..MaxDays
<1>1. Hours \in Nat \ {0} /\ now \in Nat /\ MaxDays \in Nat /\ now <= MaxDays * Hours - 1
  BY WarehouseAssumption DEF TypeOK
<1>2. Hr \in 0..(Hours - 1) /\ Today \in 1..MaxDays
  BY <1>1, HourBound DEF Hr, Today
<1> QED
  BY <1>1, <1>2 DEF HourIdx, Days

\* The same of the next state.
LEMMA HourTypesNext ==
  ASSUME TypeOK'
  PROVE  Hr' \in HourIdx /\ Today' \in Days /\ Today' \in 1..MaxDays
<1>1. Hours \in Nat \ {0} /\ now' \in Nat /\ MaxDays \in Nat /\ now' <= MaxDays * Hours - 1
  BY WarehouseAssumption DEF TypeOK
<1>2. Hr' \in 0..(Hours - 1) /\ Today' \in 1..MaxDays
  BY <1>1, HourBound DEF Hr, Today
<1> QED
  BY <1>1, <1>2 DEF HourIdx, Days

\* An hour later it is the next hour of the same day or the first of the next.
LEMMA NextHour ==
  ASSUME NEW h \in Nat \ {0, 1}, NEW n \in Nat
  PROVE  \/ (n + 1) % h = (n % h) + 1 /\ (n + 1) \div h = n \div h
         \/ n % h = h - 1 /\ (n + 1) % h = 0 /\ (n + 1) \div h = n \div h + 1
OBVIOUS

\* The hour and the day after an hour has passed.
LEMMA TickHour ==
  ASSUME TypeOK, now' = now + 1
  PROVE  \/ Hr' = Hr + 1 /\ Today' = Today
         \/ Hr = Hours - 1 /\ Hr' = 0 /\ Today' = Today + 1
<1>1. Hours \in Nat \ {0, 1} /\ now \in Nat
  BY WarehouseAssumption DEF TypeOK
<1>2. Hr' = (now + 1) % Hours /\ Today' = 1 + (now + 1) \div Hours
  BY DEF Hr, Today
<1>3. Hr = now % Hours /\ Today = 1 + now \div Hours
  BY DEF Hr, Today
<1>4. now \div Hours \in Nat
  BY <1>1
<1>5. \/ (now + 1) % Hours = (now % Hours) + 1 /\ (now + 1) \div Hours = now \div Hours
      \/ /\ now % Hours = Hours - 1 /\ (now + 1) % Hours = 0
         /\ (now + 1) \div Hours = now \div Hours + 1
  BY <1>1, NextHour, Zenon
<1> QED
  BY <1>2, <1>3, <1>4, <1>5

\* Within an hour both stay.
LEMMA SameHour ==
  ASSUME now' = now
  PROVE  Hr' = Hr /\ Today' = Today
BY DEF Hr, Today

-----------------------------------------------------------------------------
(* Types *)

OnlineSteps == {"off", "start", "sum", "reset0", "date0", "dptr0", "prev",
                "loop", "reset", "check", "date", "dptr", "hour", "hptr", "avg"}
ClearSteps  == {"off", "format1", "format2", "format3", "hourC", "hptrC", "dateC", "dptrC"}

\* What each task runs, and a designated pointer of the date ring is in it.
Programs ==
  /\ \A t \in Online : pc[t] \in OnlineSteps
  /\ pc[Clear] \in ClearSteps
DatePtrs ==
  /\ datePtr \in DateIdx \cup {None}
  /\ \A t \in Tasks : pc[t] \in {"dptr0", "dptr", "dptrC"} => slot[t] \in DateIdx

TypeInv == TypeOK /\ Programs /\ DatePtrs

\* The program stops and starts again.
Halts == Crash \/ \E t \in Tasks : DivideByZero(t)

\* A step of the system is a step of one of its actions.
LEMMA Actions ==
  ASSUME [Next]_vars
  PROVE  \/ UNCHANGED vars
         \/ ClearStart \/ UpDown \/ Tick \/ Halts
         \/ \E t \in Tasks : \/ DateWrite(t) \/ DatePtr(t) \/ HourWrite(t) \/ HourPtr(t)
                             \/ Start(t) \/ Average(t) \/ ResetHours(t) \/ Previous(t)
                             \/ Loop(t) \/ Check(t) \/ Format(t) \/ GotIp(t)
BY Zenon DEF Next, Step, Halts

\* Neither restart touches the EEPROM; a crash is one of a lone writer.
LEMMA Halting ==
  ASSUME Halts
  PROVE  /\ Restart /\ divided' \in {divided, TRUE} /\ UNCHANGED <<shared, downs, clears>>
         /\ \/ crashes' = crashes
            \/ crashes' = crashes + 1 /\ crashes < MaxCrash /\ ~shared /\ up /\ downs = 0
<1>1. CASE Crash
  BY <1>1 DEF Crash
<1>2. ASSUME NEW t \in Tasks, DivideByZero(t)
      PROVE  /\ Restart /\ divided' = TRUE /\ UNCHANGED <<shared, downs, clears>>
             /\ crashes' = crashes
  BY <1>2, Zenon DEF DivideByZero
<1> QED
  BY <1>1, <1>2 DEF Halts

\* The formatted EEPROM has its types.
LEMMA TypeInit == Init => TypeInv
<1> SUFFICES ASSUME Init PROVE TypeInv
  OBVIOUS
<1>1. 0 \in 0..(MaxDays * Hours - 1)
  BY WarehouseAssumption
<1>2. hour \in [HourIdx -> [hr : HourIdx, day : Days]] /\ date \in [DateIdx -> [day : Days, avg : Averages]]
  BY WarehouseAssumption DEF Init, HourIdx, Days, Averages
<1>3. pc \in [Tasks -> Steps] /\ slot \in [Tasks -> 0..255] /\ prev \in [Tasks -> HourIdx \cup {None}]
  BY DEF Init, Steps
<1>b. up \in BOOLEAN /\ spill \in BOOLEAN /\ shared \in BOOLEAN /\ divided \in BOOLEAN
  BY DEF Init
<1>c. /\ hourPtr \in 0..255 /\ datePtr \in 0..255 /\ now \in 0..(MaxDays * Hours - 1)
      /\ crashes \in 0..MaxCrash /\ downs \in 0..MaxDown /\ clears \in 0..MaxClear
  BY <1>1, WarehouseAssumption DEF Init, None
<1>4. TypeOK
  BY <1>2, <1>3, <1>b, <1>c, Zenon DEF TypeOK
<1>5. Programs /\ DatePtrs
  BY DEF Init, Programs, DatePtrs, OnlineSteps, ClearSteps, Tasks
<1> QED
  BY <1>4, <1>5 DEF TypeInv

\* The next record of the date ring.
LEMMA NextDateType ==
  ASSUME DatePtrs
  PROVE  NextDate \in DateIdx /\ NextDate # datePtr
BY WarehouseAssumption DEF DatePtrs, NextDate, Next8, DateIdx, None

\* The EEPROM after a write of one record.
LEMMA DateTypes ==
  ASSUME NEW f \in [DateIdx -> [day : Days, avg : Averages]], NEW i \in DateIdx,
         NEW d \in Days, NEW a \in Averages
  PROVE  /\ [f EXCEPT ![i] = [day |-> d, avg |-> a]] \in [DateIdx -> [day : Days, avg : Averages]]
         /\ [f EXCEPT ![i].day = d] \in [DateIdx -> [day : Days, avg : Averages]]
         /\ [f EXCEPT ![i].avg = a] \in [DateIdx -> [day : Days, avg : Averages]]
<1>1. [f[i] EXCEPT !.day = d] \in [day : Days, avg : Averages]
      /\ [f[i] EXCEPT !.avg = a] \in [day : Days, avg : Averages]
  OBVIOUS
<1>2. [f EXCEPT ![i].day = d] = [f EXCEPT ![i] = [f[i] EXCEPT !.day = d]]
      /\ [f EXCEPT ![i].avg = a] = [f EXCEPT ![i] = [f[i] EXCEPT !.avg = a]]
  OBVIOUS
<1> QED
  BY <1>1, <1>2

\* Every write keeps the types, whatever tasks write at the same time.
LEMMA TypeStep == TypeInv /\ [Next]_vars => TypeInv'
<1> SUFFICES ASSUME TypeInv, [Next]_vars PROVE TypeInv'
  OBVIOUS
<1> DEFINE DateSet == [DateIdx -> [day : Days, avg : Averages]]
           HourSet == [HourIdx -> [hr : HourIdx, day : Days]]
<1>t. /\ Hr \in HourIdx /\ Today \in Days /\ NextDate \in DateIdx
      /\ Next8(hourPtr) \in 0..255 /\ Next8(hourPtr) \in Nat
  BY HourTypes, NextDateType DEF TypeInv, TypeOK, Next8
<1>n. NextDate \in 0..255 /\ None \in 0..255
  BY <1>t, WarehouseAssumption DEF DateIdx, None
<1> USE WarehouseAssumption
  DEF TypeInv, TypeOK, Programs, DatePtrs, Tasks, OnlineSteps, ClearSteps, Go
<1>0. CASE UNCHANGED vars
  BY <1>0 DEF vars
<1>1. CASE ClearStart
  BY <1>1 DEF ClearStart, Shares, eeprom, Steps
<1>2. CASE UpDown
  BY <1>2 DEF UpDown, eeprom
<1>3. CASE Tick
  <2>1. now' \in 0..(MaxDays * Hours - 1)
    <3>1. MaxShared * Hours <= MaxDays * Hours
      OBVIOUS
    <3> QED
      BY <1>3, <3>1 DEF Tick
  <2>2. downs' \in 0..MaxDown
    BY <1>3 DEF Tick
  <2> QED
    BY <1>3, <2>1, <2>2 DEF Tick, eeprom
<1>4. CASE Halts
  <2>2. Restart /\ divided' \in {divided, TRUE} /\ UNCHANGED <<shared, downs, clears>>
        /\ (crashes' = crashes \/ (crashes' = crashes + 1 /\ crashes < MaxCrash))
    BY <1>4, Halting, Zenon
  <2>3. crashes' \in 0..MaxCrash
    BY <2>2
  <2>1. Restart /\ divided' \in BOOLEAN /\ UNCHANGED <<shared, downs, clears>>
        /\ crashes' \in 0..MaxCrash
    BY <2>2, <2>3
  <2> QED
    BY <2>1 DEF Restart, eeprom, Steps, None
<1>5. ASSUME NEW t \in Tasks, DateWrite(t) PROVE TypeInv'
  <2>1. date' \in DateSet
    BY <1>5, <1>t, DateTypes DEF DateWrite, Averages
  <2>2. pc[t] \in {"date0", "date", "dateC"} /\ pc' = [pc EXCEPT ![t] = After(pc[t])]
        /\ slot' = [slot EXCEPT ![t] = NextDate]
    BY <1>5 DEF DateWrite
  <2>3. After(pc[t]) \in Steps /\ (pc[t] \in OnlineSteps => After(pc[t]) \in OnlineSteps)
        /\ (pc[t] \in ClearSteps => After(pc[t]) \in ClearSteps)
    BY <2>2 DEF After, Steps
  <2>4. UNCHANGED <<hourPtr, hour, datePtr, prev, spill, env>>
    BY <1>5 DEF DateWrite
  <2> QED
    BY <2>1, <2>2, <2>3, <2>4, <1>t, <1>n DEF env
<1>6. ASSUME NEW t \in Tasks, DatePtr(t) PROVE TypeInv'
  <2>1. pc[t] \in {"dptr0", "dptr", "dptrC"} /\ pc' = [pc EXCEPT ![t] = After(pc[t])]
        /\ datePtr' = slot[t] /\ UNCHANGED <<hourPtr, hour, date>> /\ Rest
    BY <1>6 DEF DatePtr
  <2>2. After(pc[t]) \in {"prev", "hour", "off"} /\ After(pc[t]) \in Steps
        /\ (pc[t] \in OnlineSteps => After(pc[t]) \in OnlineSteps)
        /\ (pc[t] \in ClearSteps => After(pc[t]) \in ClearSteps)
    BY <2>1 DEF After, Steps
  <2> QED
    BY <2>1, <2>2 DEF Rest, env
<1>7. ASSUME NEW t \in Tasks, HourWrite(t) PROVE TypeInv'
  <2>1. pc[t] \in {"hour", "hourC"} /\ pc' = [pc EXCEPT ![t] = After(pc[t])]
        /\ slot' = [slot EXCEPT ![t] = Next8(hourPtr)]
        /\ UNCHANGED <<hourPtr, datePtr, prev, env>>
    BY <1>7 DEF HourWrite
  <2>2. After(pc[t]) \in {"hptr", "hptrC"} /\ After(pc[t]) \in Steps
        /\ (pc[t] \in OnlineSteps => After(pc[t]) \in OnlineSteps)
        /\ (pc[t] \in ClearSteps => After(pc[t]) \in ClearSteps)
    BY <2>1 DEF After, Steps
  <2>3. hour' \in HourSet /\ date' \in DateSet /\ spill' \in BOOLEAN
    <3>1. CASE Next8(hourPtr) < Hours
      <4>1. Next8(hourPtr) \in HourIdx
        BY <3>1, <1>t DEF HourIdx
      <4>2. hour' = [hour EXCEPT ![Next8(hourPtr)] = [hr |-> Hr, day |-> Today]]
            /\ UNCHANGED <<date, spill>>
        BY <1>7, <3>1 DEF HourWrite
      <4> QED
        BY <4>1, <4>2, <1>t
    <3>2. CASE ~(Next8(hourPtr) < Hours)
      <4>1. hour' = hour /\ spill' = TRUE
        BY <1>7, <3>2 DEF HourWrite
      <4>2. \/ date' = date
            \/ \E i \in DateIdx : \E d \in {0, Today} : date' = [date EXCEPT ![i].day = d]
        BY <1>7, <3>2 DEF HourWrite
      <4>3. 0 \in Days
        BY DEF Days
      <4>4. date' \in DateSet
        <5>1. CASE date' = date
          BY <5>1
        <5>2. ASSUME NEW i \in DateIdx, NEW d \in {0, Today}, date' = [date EXCEPT ![i].day = d]
              PROVE  date' \in DateSet
          <6>1. d \in Days /\ "open" \in Averages
            BY <4>3, <1>t DEF Averages
          <6> QED
            BY <5>2, <6>1, DateTypes
        <5> QED
          BY <4>2, <5>1, <5>2
      <4> QED
        BY <4>1, <4>4
    <3> QED
      BY <3>1, <3>2
  <2> QED
    BY <2>1, <2>2, <2>3, <1>t DEF env
<1>8. ASSUME NEW t \in Tasks, HourPtr(t) PROVE TypeInv'
  <2>1. pc[t] \in {"hptr", "hptrC"} /\ pc' = [pc EXCEPT ![t] = After(pc[t])]
        /\ hourPtr' = slot[t] /\ UNCHANGED <<hour, datePtr, date, slot, spill, env>>
    BY <1>8 DEF HourPtr
  <2>2. After(pc[t]) \in {"avg", "loop", "dateC"} /\ After(pc[t]) \in Steps
        /\ (pc[t] \in OnlineSteps => After(pc[t]) \in OnlineSteps)
        /\ (pc[t] \in ClearSteps => After(pc[t]) \in ClearSteps)
    BY <2>1 DEF After, Steps
  <2>3. prev' \in [Tasks -> HourIdx \cup {None}]
    BY <1>8, <1>t DEF HourPtr
  <2> QED
    BY <2>1, <2>2, <2>3 DEF env
<1>9. ASSUME NEW t \in Tasks, Start(t) PROVE TypeInv'
  BY <1>9 DEF Start, Test, eeprom, Rest, env, Steps
<1>10. ASSUME NEW t \in Tasks, Average(t) PROVE TypeInv'
  <2>1. date' \in DateSet
    <3>1. CASE datePtr \in DateIdx
      <4>1. PICK a \in Averages : date' = [date EXCEPT ![datePtr].avg = a]
        BY <1>10, <3>1 DEF Average, Averages
      <4>2. 0 \in Days
        BY DEF Days
      <4> QED
        BY <3>1, <4>1, <4>2, DateTypes
    <3>2. CASE datePtr \notin DateIdx
      BY <1>10, <3>2 DEF Average
    <3> QED
      BY <3>1, <3>2
  <2> QED
    BY <1>10, <2>1 DEF Average, Rest, env, Steps
<1>11. ASSUME NEW t \in Tasks, ResetHours(t) PROVE TypeInv'
  BY <1>11 DEF ResetHours, Rest, env, Steps, None
<1>12. ASSUME NEW t \in Tasks, Previous(t) PROVE TypeInv'
  BY <1>12 DEF Previous, eeprom, env, Steps
<1>13. ASSUME NEW t \in Tasks, Loop(t) PROVE TypeInv'
  BY <1>13 DEF Loop, Test, eeprom, Rest, env, Steps
<1>14. ASSUME NEW t \in Tasks, Check(t) PROVE TypeInv'
  BY <1>14 DEF Check, Test, eeprom, Rest, env, Steps
<1>15. ASSUME NEW t \in Tasks, Format(t) PROVE TypeInv'
  <2>1. date' \in DateSet
    <3>1. 0 \in Days /\ DateNum - 1 \in DateIdx /\ "open" \in Averages
      BY DEF Days, DateIdx, Averages
    <3>2. date' = date \/ date' = [date EXCEPT ![DateNum - 1] = [day |-> 0, avg |-> "open"]]
      BY <1>15 DEF Format
    <3> QED
      BY <3>1, <3>2, DateTypes
  <2> QED
    BY <1>15, <2>1 DEF Format, Rest, env, Steps, None
<1>16. ASSUME NEW t \in Tasks, GotIp(t) PROVE TypeInv'
  BY <1>16 DEF GotIp, Shares, eeprom, Steps
<1> QED
  BY Actions, <1>0, <1>1, <1>2, <1>3, <1>4, <1>5, <1>6, <1>7, <1>8, <1>9, <1>10, <1>11,
     <1>12, <1>13, <1>14, <1>15, <1>16, Zenon

\* Every value keeps its range through every interleaving of the writes.
THEOREM TypeCorrect == Spec => []TypeInv
BY TypeInit, TypeStep, PTL DEF Spec

-----------------------------------------------------------------------------
(* One task, or more *)

\* A task that was created does something.
Runs(t) ==
  \/ DateWrite(t) \/ DatePtr(t) \/ HourWrite(t) \/ HourPtr(t)
  \/ Start(t) \/ Average(t) \/ ResetHours(t) \/ Previous(t)
  \/ Loop(t) \/ Check(t) \/ Format(t)

\* It moves itself only, within the hour.
LEMMA Moves ==
  ASSUME NEW t \in Tasks, TypeInv, Runs(t)
  PROVE  /\ pc[t] # "off"
         /\ \A u \in Tasks : u # t => pc'[u] = pc[u] /\ slot'[u] = slot[u] /\ prev'[u] = prev[u]
         /\ UNCHANGED env /\ UNCHANGED <<now, up, shared, divided, crashes, downs, clears>>
         /\ Hr' = Hr /\ Today' = Today
<1> USE DEF TypeInv, TypeOK, Go
<1>1. CASE DateWrite(t)
  BY <1>1, SameHour DEF DateWrite, env
<1>2. CASE DatePtr(t)
  BY <1>2, SameHour DEF DatePtr, Rest, env
<1>3. CASE HourWrite(t)
  BY <1>3, SameHour DEF HourWrite, env
<1>4. CASE HourPtr(t)
  BY <1>4, SameHour DEF HourPtr, env
<1>5. CASE Start(t)
  BY <1>5, SameHour DEF Start, Test, Rest, env
<1>6. CASE Average(t)
  BY <1>6, SameHour DEF Average, Rest, env
<1>7. CASE ResetHours(t)
  BY <1>7, SameHour DEF ResetHours, Rest, env
<1>8. CASE Previous(t)
  BY <1>8, SameHour DEF Previous, env
<1>9. CASE Loop(t)
  BY <1>9, SameHour DEF Loop, Test, Rest, env
<1>10. CASE Check(t)
  BY <1>10, SameHour DEF Check, Test, Rest, env
<1>11. CASE Format(t)
  BY <1>11, SameHour DEF Format, Rest, env
<1> QED
  BY <1>1, <1>2, <1>3, <1>4, <1>5, <1>6, <1>7, <1>8, <1>9, <1>10, <1>11, Zenon DEF Runs

\* As long as shared is FALSE there is one online task at most and no factory
\* reset; a restart leaves no way to a second one, nor to an hour without modules.
Alone ==
  ~shared => /\ pc[Clear] = "off"
             /\ \A t, u \in Online : pc[t] # "off" /\ pc[u] # "off" => t = u
Regimes ==
  /\ crashes > 0 => up /\ downs = 0 /\ ~shared
  /\ clears = 0 => pc[Clear] = "off"
AloneInv == Alone /\ Regimes

\* At first no task runs.
LEMMA AloneInit == Init => AloneInv
BY WarehouseAssumption DEF Init, AloneInv, Alone, Regimes, Tasks

\* Tasks are created by GotIp and ClearStart only, which note a second one.
LEMMA AloneStep == TypeInv /\ AloneInv /\ [Next]_vars => AloneInv'
<1> SUFFICES ASSUME TypeInv, AloneInv, [Next]_vars PROVE AloneInv'
  OBVIOUS
<1> USE WarehouseAssumption DEF AloneInv, Alone, Regimes
<1>k. Clear \in Tasks /\ Online \subseteq Tasks /\ Clear \notin Online
  BY DEF Tasks
<1>t. pc \in [Tasks -> Steps] /\ clears \in Nat /\ crashes \in Nat /\ downs \in Nat
  BY DEF TypeInv, TypeOK
<1>0. CASE UNCHANGED vars
  BY <1>0 DEF vars
<1>1. CASE ClearStart
  BY <1>1, <1>t DEF ClearStart, Shares
<1>2. CASE UpDown
  BY <1>2, <1>t DEF UpDown
<1>3. CASE Tick
  BY <1>3, <1>t DEF Tick
<1>4. CASE Halts
  BY <1>4, <1>t, <1>k, Halting DEF Restart
<1>5. ASSUME NEW t \in Tasks, Runs(t) PROVE AloneInv'
  <2>1. /\ pc[t] # "off" /\ UNCHANGED <<up, shared, crashes, downs, clears>>
        /\ \A u \in Tasks : u # t => pc'[u] = pc[u]
    BY <1>5, Moves
  <2> QED
    BY <2>1, <1>k
<1>6. ASSUME NEW t \in Tasks, GotIp(t) PROVE AloneInv'
  <2>1. /\ t \in Online /\ pc' = [pc EXCEPT ![t] = "start"]
        /\ UNCHANGED <<up, crashes, downs, clears>>
        /\ \/ (\A o \in Tasks : pc[o] = "off") /\ UNCHANGED shared
           \/ shared' = TRUE /\ crashes = 0
    BY <1>6 DEF GotIp, Go, Shares
  <2> QED
    BY <2>1, <1>k, <1>t
<1> QED
  BY Actions, <1>0, <1>1, <1>2, <1>3, <1>4, <1>5, <1>6, Zenon DEF Runs

\* A second task is never forgotten.
LEMMA OnlyOnce ==
  ASSUME TypeInv, [Next]_vars, ~shared'
  PROVE  ~shared
<1>1. CASE UNCHANGED vars
  BY <1>1, Zenon DEF vars
<1>2. CASE ClearStart
  BY <1>2, Zenon DEF ClearStart, Shares
<1>3. CASE UpDown
  BY <1>3, Zenon DEF UpDown
<1>4. CASE Tick
  BY <1>4, Zenon DEF Tick
<1>5. CASE Halts
  BY <1>5, Halting, Zenon
<1>6. ASSUME NEW t \in Tasks, Runs(t) PROVE ~shared
  BY <1>6, Moves, Zenon
<1>7. ASSUME NEW t \in Tasks, GotIp(t) PROVE ~shared
  BY <1>7, Zenon DEF GotIp, Shares
<1> QED
  BY Actions, <1>1, <1>2, <1>3, <1>4, <1>5, <1>6, <1>7, Zenon DEF Runs

\* The only task is an online one.
LEMMA OnlyTask ==
  ASSUME TypeInv, AloneInv, ~shared, NEW t \in Tasks, Runs(t)
  PROVE  /\ t \in Online /\ pc[t] \in OnlineSteps
         /\ \A u \in Online : u # t => pc[u] = "off" /\ pc'[u] = "off"
<1>1. pc[t] # "off" /\ \A u \in Tasks : u # t => pc'[u] = pc[u]
  BY Moves
<1>2. t \in Online
  BY <1>1 DEF AloneInv, Alone, Tasks
<1> QED
  BY <1>1, <1>2 DEF AloneInv, Alone, Tasks, TypeInv, Programs

-----------------------------------------------------------------------------
(* The ring of date records *)

\* Nothing was written to it that is a day.
RingKept == datePtr' = datePtr /\ \A i \in DateIdx : date'[i].day = date[i].day

\* Short of a write beyond the hour area only appends of dates write them.
LEMMA Writers ==
  ASSUME TypeInv, NEW t \in Online, Runs(t), ~spill'
  PROVE  ~spill /\ (RingKept \/ DateWrite(t) \/ DatePtr(t))
<1> USE DEF TypeInv, TypeOK, Programs, OnlineSteps
<1>p. pc[t] \in OnlineSteps
  OBVIOUS
<1>1. CASE DateWrite(t)
  BY <1>1, Zenon DEF DateWrite
<1>2. CASE DatePtr(t)
  BY <1>2, Zenon DEF DatePtr, Rest
<1>3. CASE HourWrite(t)
  <2>1. Next8(hourPtr) < Hours
    BY <1>3, Zenon DEF HourWrite
  <2>2. UNCHANGED <<date, spill, datePtr>>
    BY <1>3, <2>1, Zenon DEF HourWrite
  <2>3. ~spill
    BY <2>2, Zenon
  <2> QED
    BY <2>2, <2>3 DEF RingKept
<1>4. CASE HourPtr(t)
  <2>1. UNCHANGED <<date, spill, datePtr>>
    BY <1>4, Zenon DEF HourPtr
  <2>2. ~spill
    BY <2>1, Zenon
  <2> QED
    BY <2>1, <2>2 DEF RingKept
<1>5. CASE Start(t) \/ Loop(t) \/ Check(t)
  <2>1. UNCHANGED <<date, spill, datePtr>>
    BY <1>5, Zenon DEF Start, Loop, Check, Test, eeprom, Rest
  <2>2. ~spill
    BY <2>1, Zenon
  <2> QED
    BY <2>1, <2>2 DEF RingKept
<1>6. CASE Average(t)
  <2>1. UNCHANGED <<spill, datePtr>>
    BY <1>6, Zenon DEF Average, Rest
  <2>2. ~spill
    BY <2>1, Zenon
  <2>3. \A i \in DateIdx : date'[i].day = date[i].day
    BY <1>6 DEF Average
  <2> QED
    BY <2>1, <2>2, <2>3 DEF RingKept
<1>7. CASE ResetHours(t)
  <2>1. UNCHANGED <<date, spill, datePtr>>
    BY <1>7, Zenon DEF ResetHours, Rest
  <2>2. ~spill
    BY <2>1, Zenon
  <2> QED
    BY <2>1, <2>2 DEF RingKept
<1>8. CASE Previous(t)
  <2>1. UNCHANGED <<date, spill, datePtr>>
    BY <1>8, Zenon DEF Previous, eeprom
  <2>2. ~spill
    BY <2>1, Zenon
  <2> QED
    BY <2>1, <2>2 DEF RingKept
<1>9. CASE Format(t)
  BY <1>9, <1>p DEF Format
<1> QED
  BY <1>1, <1>2, <1>3, <1>4, <1>5, <1>6, <1>7, <1>8, <1>9, Zenon DEF Runs

\* An append begins when the last record is not today's; between its two writes
\* today's record is the next one.
Appending(t) ==
  /\ pc[t] \in {"sum", "reset0", "date0", "dptr0", "date", "dptr"} => ~isLastDateDataToday
  /\ pc[t] \in {"dptr0", "dptr"} => slot[t] = NextDate /\ date[NextDate].day = Today

\* The records up to the pointer are days in their order.  Those behind it, but
\* for the next one, are unused or the older end of a full ring.
Whole == DateIdx \ {NextDate}
Newer ==
  datePtr # None =>
    /\ \A i \in Whole : i <= datePtr => date[i].day > 0
    /\ \A i, j \in Whole : i < j /\ j <= datePtr => date[i].day < date[j].day
Behind == {i \in Whole : datePtr = None \/ i > datePtr}
Unused == \A i \in Behind : date[i].day = 0
Older ==
  /\ datePtr # None
  /\ \A i \in Behind : date[i].day > 0
  /\ \A i, j \in Behind : i < j => date[i].day < date[j].day
  /\ \A i \in Behind, j \in Whole : j <= datePtr => date[i].day < date[j].day
Ring == (\A i \in DateIdx : date[i].day <= Today) /\ Newer /\ (Unused \/ Older)

RingInv == ~shared /\ ~spill => Ring /\ \A t \in Online : Appending(t)

\* The empty ring.
LEMMA RingInit == Init => RingInv
<1> SUFFICES ASSUME Init PROVE RingInv
  OBVIOUS
<1>1. Today \in 1..MaxDays
  BY TypeInit, HourTypes DEF TypeInv
<1>2. Ring
  BY <1>1 DEF Init, Ring, Newer, Unused, Behind, Whole, None
<1>3. \A t \in Online : Appending(t)
  BY DEF Init, Appending, Tasks
<1> QED
  BY <1>2, <1>3 DEF RingInv

\* The pointer moves on to today's record.
LEMMA RingMoves ==
  ASSUME TypeInv, Ring, ~isLastDateDataToday, date[NextDate].day = Today,
         datePtr' = NextDate, date' = date, Today' = Today
  PROVE  Ring'
<1> DEFINE day(i) == date[i].day
<1>1. /\ \A i \in DateIdx : day(i) \in Nat /\ day(i) <= Today
      /\ Today \in Nat \ {0} /\ DateNum \in 2..254
  BY HourTypes, WarehouseAssumption DEF Ring, TypeInv, TypeOK, Days
<1>2. \A i \in DateIdx : date'[i].day = day(i)
  OBVIOUS
<1>p. datePtr \in DateIdx \cup {None}
  BY DEF TypeInv, DatePtrs
<1>3. /\ NextDate \in DateIdx
      /\ \/ datePtr = None /\ NextDate = 0
         \/ datePtr = DateNum - 1 /\ NextDate = 0
         \/ datePtr \in DateIdx /\ NextDate = datePtr + 1
  BY <1>1, <1>p DEF NextDate, Next8, DateIdx, None
<1>4. NextDate' = IF NextDate = DateNum - 1 THEN 0 ELSE NextDate + 1
  <2>1. NextDate \in 0..(DateNum - 1)
    BY <1>3 DEF DateIdx
  <2>2. (NextDate + 1) % 256 = NextDate + 1
    BY <2>1, <1>1
  <2>3. NextDate' = IF (NextDate + 1) % 256 = DateNum THEN 0 ELSE (NextDate + 1) % 256
    BY DEF NextDate, Next8
  <2> QED
    BY <2>1, <2>2, <2>3, <1>1
<1>5. datePtr # None => datePtr \in DateIdx /\ datePtr \in Whole /\ day(datePtr) < Today
  BY <1>1, <1>p, NextDateType DEF isLastDateDataToday, DateIdx, TypeInv, Whole
<1>w. Whole' = DateIdx \ {NextDate'} /\ Behind' = {i \in DateIdx \ {NextDate'} : i > NextDate}
  BY <1>3, WarehouseAssumption DEF Whole, Behind, DateIdx, None
<1>n. NextDate # None /\ DateIdx \subseteq Int /\ NextDate' \in DateIdx
  BY <1>3, <1>4, <1>1, WarehouseAssumption DEF DateIdx, None
<1>6. \A i \in DateIdx : i < NextDate =>
        datePtr # None /\ i \in Whole /\ i <= datePtr /\ day(i) > 0 /\ day(i) < Today
  <2> SUFFICES ASSUME NEW i \in DateIdx, i < NextDate
               PROVE  datePtr # None /\ i \in Whole /\ i <= datePtr /\ day(i) > 0 /\ day(i) < Today
    OBVIOUS
  <2>1. datePtr \in DateIdx /\ NextDate = datePtr + 1 /\ datePtr # None
    BY <1>3, <1>1, WarehouseAssumption DEF DateIdx, None
  <2>2. i \in Whole /\ i <= datePtr
    BY <2>1 DEF Whole, DateIdx
  <2>3. day(i) > 0 /\ (i < datePtr => day(i) < day(datePtr))
    BY <2>1, <2>2, <1>5 DEF Ring, Newer, DateIdx
  <2> QED
    BY <2>1, <2>2, <2>3, <1>1, <1>5 DEF DateIdx
<1>7. Newer'
  <2>1. \A i \in DateIdx : i <= NextDate => day(i) > 0
    BY <1>6, <1>1, <1>3 DEF DateIdx
  <2>2. ASSUME NEW i \in DateIdx, NEW j \in DateIdx, i < j, j <= NextDate PROVE day(i) < day(j)
    <3>1. i < NextDate
      BY <2>2, <1>3 DEF DateIdx
    <3>2. CASE j = NextDate
      BY <3>1, <3>2, <1>6
    <3>3. CASE j < NextDate
      BY <3>1, <3>3, <1>6, <2>2 DEF Ring, Newer
    <3> QED
      BY <2>2, <3>2, <3>3, <1>3 DEF DateIdx
  <2> QED
    BY <2>1, <2>2, <1>2, <1>w, <1>n DEF Newer
<1>8. CASE datePtr = None
  <2>1. \A i \in Behind' : i \in Behind
    BY <1>8, <1>w, <1>3, <1>1, WarehouseAssumption DEF Behind, Whole, None, DateIdx
  <2>2. Unused
    BY <1>8 DEF Ring, Older
  <2>3. Unused'
    BY <2>1, <2>2, <1>2, <1>w DEF Unused
  <2>4. \A i \in DateIdx : date'[i].day <= Today'
    BY <1>1, <1>2
  <2> QED
    BY <2>3, <2>4, <1>7 DEF Ring
<1>9. CASE datePtr = DateNum - 1
  <2>1. datePtr # None /\ NextDate = 0
    BY <1>9, <1>3, <1>1 DEF None, DateIdx
  <2>2. \A i \in Behind' : i \in Whole /\ i <= datePtr
    BY <1>9, <2>1, <1>w DEF Whole, DateIdx
  <2>3. \A i \in Behind' : day(i) > 0
    BY <2>1, <2>2 DEF Ring, Newer
  <2>4. \A i, j \in Behind' : i < j => day(i) < day(j)
    BY <2>1, <2>2 DEF Ring, Newer
  <2>5. \A i \in Behind' : day(i) < Today
    <3>1. \A i \in Behind' : i = datePtr \/ i < datePtr
      BY <2>2, <1>5, <2>1 DEF Whole, DateIdx
    <3>2. \A i \in Behind' : i < datePtr => day(i) < day(datePtr)
      BY <2>1, <2>2, <1>5 DEF Ring, Newer, DateIdx
    <3> QED
      BY <3>1, <3>2, <2>1, <2>2, <1>1, <1>5 DEF Whole
  <2>6. \A j \in DateIdx : j <= NextDate => j = NextDate
    BY <2>1 DEF DateIdx
  <2>7. Older'
    BY <2>3, <2>4, <2>5, <2>6, <1>2, <1>w, <1>n DEF Older
  <2>8. \A i \in DateIdx : date'[i].day <= Today'
    BY <1>1, <1>2
  <2> QED
    BY <2>7, <2>8, <1>7 DEF Ring
<1>10. CASE datePtr \in DateIdx /\ NextDate = datePtr + 1
  <2>1. datePtr # None
    BY <1>10, <1>1 DEF None, DateIdx
  <2>2. \A i \in Behind' : i \in Behind
    BY <1>10, <1>w DEF Behind, Whole, DateIdx
  <2>4. \A i \in DateIdx : date'[i].day <= Today'
    BY <1>1, <1>2
  <2>3. CASE Unused
    <3>1. Unused'
      BY <2>2, <2>3, <1>2, <1>w DEF Unused
    <3> QED
      BY <3>1, <2>4, <1>7 DEF Ring
  <2>5. CASE Older
    <3>1. \A i \in Behind' : day(i) > 0
      BY <2>2, <2>5 DEF Older
    <3>2. \A i, j \in Behind' : i < j => day(i) < day(j)
      BY <2>2, <2>5 DEF Older
    <3>3. ASSUME NEW i \in Behind', NEW j \in DateIdx, j <= NextDate PROVE day(i) < day(j)
      <4>1. i \in Behind /\ i \in DateIdx
        BY <2>2 DEF Behind, Whole
      <4>2. day(i) < day(datePtr)
        BY <4>1, <2>5, <2>1, <1>5, <1>10 DEF Older, DateIdx
      <4>3. CASE j = NextDate
        BY <4>3, <4>1, <4>2, <1>1, <1>5, <2>1
      <4>4. CASE j < NextDate
        <5>1. j \in Whole /\ j <= datePtr
          BY <4>4, <1>6
        <5> QED
          BY <5>1, <4>1, <2>5 DEF Older
      <4> QED
        BY <3>3, <4>3, <4>4, <1>3 DEF DateIdx
    <3>4. Older'
      BY <3>1, <3>2, <3>3, <1>2, <1>w, <1>n DEF Older
    <3> QED
      BY <3>4, <2>4, <1>7 DEF Ring
  <2> QED
    BY <2>3, <2>5 DEF Ring
<1> QED
  BY <1>3, <1>8, <1>9, <1>10

-----------------------------------------------------------------------------
\* Whatever is written elsewhere, and today's date into the next record, leaves
\* the ring as it is.
LEMMA RingStays ==
  ASSUME TypeInv, Ring, datePtr' = datePtr, Today' \in Nat, Today' >= Today,
         \A i \in Whole : date'[i].day = date[i].day,
         \/ date'[NextDate].day = date[NextDate].day
         \/ date'[NextDate].day = Today
  PROVE  Ring'
<1>1. NextDate' = NextDate /\ Whole' = Whole /\ Behind' = Behind
  BY DEF NextDate, Next8, Whole, Behind
<1>2. \A i \in DateIdx : date[i].day \in Nat /\ Today \in Nat
  BY HourTypes DEF TypeInv, TypeOK, Days
<1>3. \A i \in DateIdx : date'[i].day <= Today'
  BY <1>2 DEF Ring, Whole
<1>4. Newer'
  BY <1>1 DEF Ring, Newer
<1>5. Behind \subseteq Whole
  BY DEF Behind
<1>6. Unused => Unused'
  BY <1>1, <1>5 DEF Unused
<1>7. Older => Older'
  BY <1>1, <1>5 DEF Older
<1> QED
  BY <1>3, <1>4, <1>6, <1>7 DEF Ring

\* Every write keeps the ring in order while one task makes them.
LEMMA RingStep == TypeInv /\ AloneInv /\ RingInv /\ [Next]_vars => RingInv'
<1> SUFFICES ASSUME TypeInv, AloneInv, RingInv, [Next]_vars, ~shared', ~spill' PROVE RingInv'
  BY Zenon DEF RingInv
<1>s. ~shared
  BY OnlyOnce
<1>t. Today \in Nat /\ Today' \in Nat
  BY TypeStep, HourTypes, HourTypesNext DEF TypeInv, Days
<1>q. ASSUME ~spill, UNCHANGED <<datePtr, date, slot>>, Today' >= Today,
             \A t \in Online : /\ pc'[t] \in {pc[t], "off", "start"}
                               /\ pc'[t] = pc[t] => Today' = Today \/ pc[t] \in {"off", "loop"}
      PROVE  RingInv'
  <2>1. Ring /\ \A t \in Online : Appending(t)
    BY <1>q, <1>s, Zenon DEF RingInv
  <2>2. Ring'
    BY <1>q, <2>1, <1>t, RingStays
  <2>3. ASSUME NEW t \in Online PROVE Appending(t)'
    <3>1. CASE pc'[t] \in {"off", "start"}
      BY <3>1 DEF Appending
    <3>2. CASE pc'[t] = pc[t] /\ pc[t] \in {"off", "loop"}
      BY <3>2 DEF Appending
    <3>3. CASE pc'[t] = pc[t] /\ Today' = Today
      BY <3>3, <2>1, <1>q DEF Appending, isLastDateDataToday, NextDate, Next8
    <3> QED
      BY <3>1, <3>2, <3>3, <1>q
  <2> QED
    BY <2>2, <2>3 DEF RingInv
<1>0. CASE UNCHANGED vars
  <2>1. ~spill /\ UNCHANGED <<datePtr, date, slot, pc, now>>
    BY <1>0, Zenon DEF vars
  <2> QED
    BY <2>1, <1>q, SameHour, <1>t
<1>1. CASE ClearStart
  BY <1>1, Zenon DEF ClearStart, Shares
<1>2. CASE UpDown
  <2>1. ~spill /\ UNCHANGED <<datePtr, date, slot, pc, now>>
    BY <1>2, Zenon DEF UpDown, eeprom
  <2> QED
    BY <2>1, <1>q, SameHour, <1>t
<1>3. CASE Tick
  <2>1. ~spill /\ UNCHANGED <<datePtr, date, slot, pc>>
    BY <1>3, Zenon DEF Tick, eeprom
  <2>2. Today' >= Today
    BY <1>3, <1>t, TickHour DEF Tick, TypeInv
  <2>3. \A t \in Online : pc[t] \in {"off", "loop"}
    BY <1>3 DEF Tick, Noticed, Tasks
  <2> QED
    BY <2>1, <2>2, <2>3, <1>q
<1>4. CASE Halts
  <2>r. Restart
    BY <1>4, Halting, Zenon
  <2>1. ~spill /\ UNCHANGED <<datePtr, date, now>> /\ \A t \in Online : pc'[t] = "off"
    BY <2>r, Zenon DEF Restart, eeprom, Tasks
  <2>2. Ring
    BY <2>1, <1>s, Zenon DEF RingInv
  <2>3. Ring'
    BY <2>1, <2>2, <1>t, SameHour, RingStays
  <2> QED
    BY <2>1, <2>3 DEF RingInv, Appending
<1>5. ASSUME NEW t \in Tasks, Runs(t) PROVE RingInv'
  <2>1. /\ t \in Online /\ pc[t] \in OnlineSteps
        /\ \A u \in Online : u # t => pc'[u] = "off"
    BY <1>5, <1>s, OnlyTask
  <2>2. ~spill /\ (RingKept \/ DateWrite(t) \/ DatePtr(t))
    BY <1>5, <2>1, Writers
  <2>3. Ring /\ Appending(t)
    BY <2>1, <2>2, <1>s, Zenon DEF RingInv
  <2>4. Today' = Today
    BY <1>5, Moves
  <2>5. \A u \in Online : u # t => Appending(u)'
    BY <2>1 DEF Appending
  <2>6. pc \in [Tasks -> Steps] /\ slot \in [Tasks -> 0..255]
        /\ date \in [DateIdx -> [day : Days, avg : Averages]]
    BY DEF TypeInv, TypeOK
  <2>7. SUFFICES Ring' /\ Appending(t)'
    BY <2>5, Zenon DEF RingInv
  <2>8. CASE DateWrite(t)
    <3>1. NextDate \in DateIdx /\ NextDate # datePtr
      BY NextDateType DEF TypeInv
    <3>2. /\ date' = [date EXCEPT ![NextDate] = [day |-> Today, avg |-> "open"]]
          /\ slot' = [slot EXCEPT ![t] = NextDate] /\ datePtr' = datePtr
      BY <2>8, <3>1 DEF DateWrite
    <3>3. Ring'
      BY <3>1, <3>2, <2>3, <2>4, <2>6, <1>t, RingStays DEF Whole
    <3>4. ~isLastDateDataToday /\ pc[t] \in {"date0", "date"}
      BY <2>8, <2>3, <2>1 DEF DateWrite, Appending, OnlineSteps
    <3>5. NextDate' = NextDate
      BY <3>2 DEF NextDate, Next8
    <3>6. ~isLastDateDataToday'
      BY <3>1, <3>2, <3>4, <2>6, <2>4, WarehouseAssumption
        DEF isLastDateDataToday, TypeInv, DatePtrs, DateIdx, None
    <3>7. slot'[t] = NextDate' /\ date'[NextDate'].day = Today'
      BY <3>1, <3>2, <3>5, <2>4, <2>6
    <3> QED
      BY <3>3, <3>6, <3>7, Zenon DEF Appending
  <2>9. CASE DatePtr(t)
    <3>1. pc[t] \in {"dptr0", "dptr"}
      BY <2>9, <2>1 DEF DatePtr, OnlineSteps
    <3>2. datePtr' = NextDate /\ date' = date /\ date[NextDate].day = Today
          /\ ~isLastDateDataToday
      BY <3>1, <2>9, <2>3 DEF DatePtr, Appending
    <3>3. Ring'
      BY <3>2, <2>3, <2>4, RingMoves
    <3>4. pc'[t] \in {"prev", "hour"}
      BY <3>1, <2>9, <2>6 DEF DatePtr, Go, After
    <3> QED
      BY <3>3, <3>4 DEF Appending
  <2>10. CASE RingKept /\ ~DateWrite(t) /\ ~DatePtr(t)
    <3>1. Ring'
      BY <2>10, <2>3, <2>4, <1>t, NextDateType, RingStays DEF RingKept, Whole, TypeInv
    <3>2. isLastDateDataToday' = isLastDateDataToday
      BY <2>10, <2>4, WarehouseAssumption
        DEF RingKept, isLastDateDataToday, TypeInv, DatePtrs, DateIdx, None
    <3>3. pc'[t] \notin {"dptr0", "dptr"}
          /\ (pc'[t] \in {"sum", "reset0", "date0", "date"} => ~isLastDateDataToday)
      <4> USE <2>6, <2>1, <2>3 DEF Go, Appending, OnlineSteps
      <4>1. CASE HourWrite(t)
        BY <4>1 DEF HourWrite, After
      <4>2. CASE HourPtr(t)
        BY <4>2 DEF HourPtr, After
      <4>3. CASE Start(t)
        BY <4>3 DEF Start, Test
      <4>4. CASE Average(t)
        BY <4>4 DEF Average
      <4>5. CASE ResetHours(t)
        BY <4>5 DEF ResetHours
      <4>6. CASE Previous(t)
        BY <4>6 DEF Previous
      <4>7. CASE Loop(t)
        BY <4>7 DEF Loop, Test
      <4>8. CASE Check(t)
        BY <4>8 DEF Check, Test
      <4>9. CASE Format(t)
        BY <4>9 DEF Format
      <4> QED
        BY <1>5, <2>10, <4>1, <4>2, <4>3, <4>4, <4>5, <4>6, <4>7, <4>8, <4>9, Zenon DEF Runs
    <3>4. pc'[t] \notin {"dptr0", "dptr"}
      BY <3>3
    <3>5. pc'[t] \in {"sum", "reset0", "date0", "date"} => ~isLastDateDataToday'
      BY <3>2, <3>3, Zenon
    <3> QED
      BY <3>1, <3>4, <3>5 DEF Appending
  <2> QED
    BY <2>2, <2>8, <2>9, <2>10, Zenon
<1>6. ASSUME NEW t \in Tasks, GotIp(t) PROVE RingInv'
  <2>1. ~spill /\ UNCHANGED <<datePtr, date, slot, now>>
    BY <1>6, Zenon DEF GotIp, eeprom
  <2>2. \A u \in Online : pc'[u] \in {pc[u], "start"}
    BY <1>6 DEF GotIp, Go, TypeInv, TypeOK, Tasks
  <2> QED
    BY <2>1, <2>2, <1>q, SameHour, <1>t
<1> QED
  BY Actions, <1>0, <1>1, <1>2, <1>3, <1>4, <1>5, <1>6, Zenon DEF Runs

\* The end of the area followed by its beginning.
LEMMA TwoRuns ==
  ASSUME NEW a \in Nat, NEW b \in Nat, NEW p \in Int
  PROVE  /\ Len([i \in 1..a |-> p + i] \o [i \in 1..b |-> i - 1]) = a + b
         /\ \A j \in 1..(a + b) :
              ([i \in 1..a |-> p + i] \o [i \in 1..b |-> i - 1])[j] =
                IF j <= a THEN p + j ELSE j - a - 1
<1> DEFINE s == [i \in 1..a |-> p + i]
           t == [i \in 1..b |-> i - 1]
<1>1. s \in Seq(Int) /\ Len(s) = a /\ \A i \in 1..a : s[i] = p + i
  OBVIOUS
<1>2. t \in Seq(Int) /\ Len(t) = b /\ \A i \in 1..b : t[i] = i - 1
  OBVIOUS
<1> HIDE DEF s, t
<1>4. /\ Len(s \o t) = a + b
      /\ \A i \in 1..(a + b) : (s \o t)[i] = IF i <= a THEN s[i] ELSE t[i - a]
  BY <1>1, <1>2, ConcatProperties
<1>5. \A i \in 1..(a + b) : ~(i <= a) => t[i - a] = i - a - 1
  <2> SUFFICES ASSUME NEW i \in 1..(a + b), ~(i <= a) PROVE t[i - a] = i - a - 1
    OBVIOUS
  <2>1. i - a \in 1..b
    OBVIOUS
  <2> QED
    BY <2>1, <1>2
<1>6. \A i \in 1..(a + b) : i <= a => s[i] = p + i
  BY <1>1
<1>3. Len(s \o t) = a + b /\ \A i \in 1..(a + b) : (s \o t)[i] = IF i <= a THEN p + i ELSE i - a - 1
  BY <1>4, <1>5, <1>6
<1> QED
  BY <1>3 DEF s, t

\* The report starts behind the pointer when there are records to its end.
LEMMA Report ==
  ASSUME TypeInv, Ring
  PROVE  \/ Len(parseDateDatainJson) = 0
         \/ /\ datePtr \in DateIdx
            /\ \E a \in 0..(DateNum - 1 - datePtr) :
                 /\ a > 0 => a = DateNum - 1 - datePtr /\ date[DateNum - 1].day > 0
                 /\ Len(parseDateDatainJson) = a + (datePtr + 1)
                 /\ \A i \in 1..(a + (datePtr + 1)) :
                      parseDateDatainJson[i] = IF i <= a THEN datePtr + i ELSE i - a - 1
<1>1. CASE datePtr = None
  <2>1. NextDate = 0 /\ Next8(datePtr) = 0
    BY <1>1, WarehouseAssumption DEF NextDate, Next8, None
  <2>2. DateNum - 1 \in Behind
    BY <1>1, <2>1, WarehouseAssumption DEF Behind, Whole, DateIdx
  <2>3. date[DateNum - 1].day = 0
    BY <1>1, <2>2 DEF Ring, Unused, Older
  <2>4. getDateDataLength = 0
    BY <2>1, <2>3, WarehouseAssumption DEF getDateDataLength
  <2>5. parseDateDatainJson = <<>> \o <<>>
    BY <2>4, WarehouseAssumption DEF parseDateDatainJson
  <2> QED
    BY <2>5
<1>2. CASE datePtr \in DateIdx
  <2>1. Next8(datePtr) = datePtr + 1 /\ datePtr \in 0..(DateNum - 1) /\ DateNum \in 2..254
    BY <1>2, WarehouseAssumption DEF Next8, DateIdx
  <2>2. PICK a \in 0..(DateNum - 1 - datePtr) :
          /\ a > 0 => a = DateNum - 1 - datePtr /\ date[DateNum - 1].day > 0
          /\ parseDateDatainJson = [i \in 1..a |-> datePtr + i] \o [i \in 1..(datePtr + 1) |-> i - 1]
    <3>1. getDateDataLength > 0 /\ datePtr < DateNum
      BY <2>1 DEF getDateDataLength
    <3>2. CASE getDateDataLength = DateNum
      <4>1. parseDateDatainJson = [i \in 1..(DateNum - 1 - datePtr) |-> datePtr + i]
                                    \o [i \in 1..(datePtr + 1) |-> i - 1]
        BY <3>1, <3>2, Zenon DEF parseDateDatainJson
      <4>2. DateNum - 1 - datePtr > 0 => date[DateNum - 1].day > 0
        BY <3>2, <2>1 DEF getDateDataLength
      <4> QED
        BY <4>1, <4>2, <2>1
    <3>3. CASE getDateDataLength # DateNum
      <4>1. parseDateDatainJson = <<>> \o [i \in 1..(datePtr + 1) |-> i - 1]
        BY <3>1, <3>3, Zenon DEF parseDateDatainJson
      <4>2. [i \in 1..0 |-> datePtr + i] = <<>>
        OBVIOUS
      <4> QED
        BY <4>1, <4>2, <2>1
    <3> QED
      BY <3>2, <3>3
  <2>3. a \in Nat /\ datePtr + 1 \in Nat /\ datePtr \in Int
    BY <2>1
  <2> QED
    BY <1>2, <2>2, <2>3, TwoRuns
<1> QED
  BY <1>1, <1>2 DEF TypeInv, DatePtrs

\* A ring with its days in order is reported in order.
LEMMA RingInOrder ==
  ASSUME TypeInv, Ring
  PROVE  Chronological
<1> DEFINE r == parseDateDatainJson
<1> SUFFICES ASSUME NEW i \in 1..Len(r), NEW j \in 1..Len(r), i < j, NextDate \notin {r[i], r[j]}
             PROVE  date[r[i]].day < date[r[j]].day
  BY DEF Chronological
<1>1. datePtr \in DateIdx
  BY Report
<1>2. PICK a \in 0..(DateNum - 1 - datePtr) :
        /\ a > 0 => a = DateNum - 1 - datePtr /\ date[DateNum - 1].day > 0
        /\ Len(r) = a + (datePtr + 1)
        /\ \A k \in 1..(a + (datePtr + 1)) : r[k] = IF k <= a THEN datePtr + k ELSE k - a - 1
  BY Report
<1>3. datePtr # None /\ datePtr \in 0..(DateNum - 1) /\ DateNum \in 2..254
  BY <1>1, WarehouseAssumption DEF DateIdx, None
<1>4. /\ r[i] = IF i <= a THEN datePtr + i ELSE i - a - 1
      /\ r[j] = IF j <= a THEN datePtr + j ELSE j - a - 1
      /\ i \in 1..(a + (datePtr + 1)) /\ j \in 1..(a + (datePtr + 1))
  BY <1>2
<1> HIDE DEF r
<1>5. r[i] \in Whole /\ r[j] \in Whole
  BY <1>2, <1>3, <1>4 DEF Whole, DateIdx
<1>6. i <= a => Older /\ r[i] \in Behind
  <2> SUFFICES ASSUME i <= a PROVE Older /\ r[i] \in Behind
    OBVIOUS
  <2>1. r[i] \in Behind
    BY <1>3, <1>4, <1>5 DEF Behind
  <2>2. ASSUME Unused PROVE FALSE
    <3>1. a = DateNum - 1 - datePtr /\ date[DateNum - 1].day > 0
      BY <1>2, <1>4
    <3>2. DateNum - 1 \notin Behind
      BY <2>2, <3>1 DEF Unused
    <3>3. NextDate = DateNum - 1
      BY <3>1, <3>2, <1>3, <1>4 DEF Behind, Whole, DateIdx
    <3>4. datePtr + 1 = NextDate \/ NextDate = 0
      BY <1>3 DEF NextDate, Next8
    <3>5. a = 1
      BY <3>1, <3>3, <3>4, <1>3
    <3> QED
      BY <3>3, <3>4, <3>5, <1>3, <1>4, <1>5 DEF Whole
  <2> QED
    BY <2>1, <2>2 DEF Ring
<1>7. CASE j <= a
  <2>1. i <= a /\ r[i] < r[j] /\ r[j] \in Behind
    BY <1>7, <1>3, <1>4, <1>5 DEF Behind
  <2> QED
    BY <2>1, <1>6 DEF Older
<1>8. CASE i <= a /\ ~(j <= a)
  <2>1. r[j] <= datePtr
    BY <1>8, <1>2, <1>3, <1>4
  <2> QED
    BY <2>1, <1>8, <1>5, <1>6 DEF Older
<1>9. CASE ~(i <= a)
  <2>1. r[i] < r[j] /\ r[j] <= datePtr
    BY <1>9, <1>2, <1>3, <1>4
  <2> QED
    BY <2>1, <1>3, <1>5 DEF Ring, Newer
<1> QED
  BY <1>2, <1>4, <1>7, <1>8, <1>9

-----------------------------------------------------------------------------
(* The hours of a day *)

\* The hour records are of the day of the last date record, one for each hour at most.
HourList ==
  hourPtr # None =>
    /\ hourPtr \in HourIdx /\ datePtr # None
    /\ hourPtr <= hour[hourPtr].hr
    /\ \A i \in HourIdx : i <= hourPtr => hour[i].day = date[datePtr].day
    /\ isLastDateDataToday => hour[hourPtr].hr <= Hr

\* Where the task may be with which records.
Recording(t) ==
  /\ pc[t] \in {"date0", "dptr0", "date", "dptr"} => hourPtr = None
  /\ pc[t] = "prev" /\ hourPtr # None => isLastDateDataToday
  /\ pc[t] = "loop" /\ hourPtr # None =>
       \/ isLastDateDataToday /\ hour[hourPtr].hr = prev[t]
       \/ Hr = 0 /\ prev[t] # 0
  /\ pc[t] = "loop" /\ hourPtr = None => prev[t] # Hr
  /\ pc[t] = "check" /\ hourPtr # None => isLastDateDataToday /\ hour[hourPtr].hr < Hr
  /\ pc[t] = "hour" => isLastDateDataToday /\ (hourPtr # None => hour[hourPtr].hr < Hr)
  /\ pc[t] = "hptr" => /\ isLastDateDataToday
                       /\ slot[t] = Next8(hourPtr) /\ slot[t] \in HourIdx /\ slot[t] <= Hr
                       /\ hour[slot[t]] = [hr |-> Hr, day |-> Today]
  /\ pc[t] = "avg" => HourRecorded /\ isLastDateDataToday /\ prev[t] = Hr

HourInv ==
  /\ ~shared /\ downs = 0 => ~spill /\ HourList /\ \A t \in Online : Recording(t)
  /\ ~shared /\ downs = 0 => ~divided

\* The empty hour list.
LEMMA HourInit == Init => HourInv
<1> SUFFICES ASSUME Init PROVE HourInv
  OBVIOUS
<1>1. ~spill /\ ~divided /\ hourPtr = None /\ \A t \in Online : pc[t] = "off"
  BY DEF Init, Tasks
<1> QED
  BY <1>1 DEF HourInv, HourList, Recording

\* Nothing was written to the hour list that counts.
HourKept == UNCHANGED <<hourPtr, hour, datePtr>> /\ \A i \in DateIdx : date'[i].day = date[i].day

\* The hour list is not touched by a write of an average.
LEMMA ListStays ==
  ASSUME TypeInv, HourList, HourKept, Hr' = Hr, Today' = Today
  PROVE  HourList' /\ isLastDateDataToday' = isLastDateDataToday
<1>1. datePtr # None => datePtr \in DateIdx
  BY DEF TypeInv, DatePtrs
<1>2. isLastDateDataToday' = isLastDateDataToday
  BY <1>1, WarehouseAssumption DEF HourKept, isLastDateDataToday, None, DateIdx
<1>3. HourList'
  BY <1>1, <1>2 DEF HourList, HourKept
<1> QED
  BY <1>2, <1>3

\* Each step of the only task keeps the list and finds what the next one needs.
LEMMA HourRuns ==
  ASSUME TypeInv, AloneInv, RingInv, HourInv, ~shared, downs = 0,
         NEW t \in Tasks, Runs(t)
  PROVE  ~spill' /\ HourList' /\ Recording(t)'
<1>1. /\ t \in Online /\ pc[t] \in OnlineSteps
      /\ \A u \in Online : u # t => pc'[u] = "off"
  BY OnlyTask
<1>2. ~spill /\ HourList /\ Recording(t)
  BY <1>1, Zenon DEF HourInv
<1>3. Ring /\ Appending(t)
  BY <1>1, <1>2, Zenon DEF RingInv
<1>4. Hr' = Hr /\ Today' = Today
  BY Moves
<1>5. /\ pc \in [Tasks -> Steps] /\ slot \in [Tasks -> 0..255]
      /\ prev \in [Tasks -> HourIdx \cup {None}]
      /\ date \in [DateIdx -> [day : Days, avg : Averages]]
      /\ hour \in [HourIdx -> [hr : HourIdx, day : Days]]
      /\ hourPtr \in 0..255 /\ Hr \in HourIdx /\ Today \in Days
      /\ Hours \in 2..254 /\ DateNum \in 2..254
  BY HourTypes, WarehouseAssumption DEF TypeInv, TypeOK
<1>h. Hours \in 2..254 /\ Hr \in HourIdx
  BY <1>5
<1>6. datePtr # None => datePtr \in DateIdx
  BY DEF TypeInv, DatePtrs
<1>n. 0 \in HourIdx /\ None \notin HourIdx /\ None \notin DateIdx
  BY <1>5 DEF HourIdx, DateIdx, None
<1>m. /\ hourPtr = None => Next8(hourPtr) = 0
      /\ hourPtr # None => hourPtr \in 0..(Hours - 1) /\ Next8(hourPtr) = hourPtr + 1
  <2>1. CASE hourPtr = None
    BY <2>1 DEF Next8, None
  <2>2. CASE hourPtr # None
    <3>1. hourPtr \in 0..(Hours - 1)
      BY <2>2, <1>2 DEF HourList, HourIdx
    <3>2. hourPtr \in 0..253
      BY <3>1, <1>5
    <3>3. (hourPtr + 1) % 256 = hourPtr + 1
      BY <3>2
    <3> QED
      BY <2>2, <3>1, <3>3 DEF Next8
  <2> QED
    BY <2>1, <2>2
<1>k. ASSUME HourKept, UNCHANGED spill,
             (HourList' /\ isLastDateDataToday' = isLastDateDataToday) => Recording(t)'
      PROVE  ~spill' /\ HourList' /\ Recording(t)'
  BY <1>2, <1>4, <1>k, ListStays, Zenon
<1>7. CASE DateWrite(t)
  <2>1. hourPtr = None /\ pc[t] \in {"date0", "date"}
    BY <1>7, <1>1, <1>2 DEF DateWrite, OnlineSteps, Recording
  <2>2. UNCHANGED <<hourPtr, spill>>
    BY <1>7, Zenon DEF DateWrite
  <2>3. pc'[t] \in {"dptr0", "dptr"}
    BY <1>7, <2>1, <1>5 DEF DateWrite, Go, After
  <2>4. ~spill'
    BY <2>2, <1>2, Zenon
  <2> QED
    BY <2>1, <2>2, <2>3, <2>4 DEF HourList, Recording
<1>8. CASE DatePtr(t)
  <2>1. hourPtr = None /\ pc[t] \in {"dptr0", "dptr"}
    BY <1>8, <1>1, <1>2 DEF DatePtr, OnlineSteps, Recording
  <2>2. UNCHANGED <<hourPtr, spill, date>> /\ datePtr' = slot[t]
    BY <1>8, Zenon DEF DatePtr, Rest
  <2>3. pc'[t] \in {"prev", "hour"}
    BY <1>8, <2>1, <1>5 DEF DatePtr, Go, After
  <2>4. ~spill'
    BY <2>2, <1>2, Zenon
  <2>5. isLastDateDataToday'
    <3>1. NextDate \in DateIdx /\ slot[t] = NextDate /\ date[NextDate].day = Today
      BY <2>1, <1>3, NextDateType DEF Appending, TypeInv
    <3> QED
      BY <3>1, <2>2, <1>4, <1>5 DEF isLastDateDataToday, DateIdx
  <2> QED
    BY <2>1, <2>2, <2>3, <2>4, <2>5 DEF HourList, Recording
<1>9. CASE HourWrite(t)
  <2>1. isLastDateDataToday /\ (hourPtr # None => hour[hourPtr].hr < Hr) /\ pc[t] = "hour"
    BY <1>9, <1>1, <1>2 DEF HourWrite, OnlineSteps, Recording
  <2>2. /\ Next8(hourPtr) \in HourIdx /\ Next8(hourPtr) <= Hr
        /\ hourPtr # None => Next8(hourPtr) = hourPtr + 1
        /\ hourPtr = None => Next8(hourPtr) = 0
    <3>1. CASE hourPtr = None
      BY <3>1, <1>m, <1>h DEF HourIdx
    <3>2. CASE hourPtr # None
      <4>1. hourPtr <= hour[hourPtr].hr /\ hour[hourPtr].hr < Hr /\ hourPtr \in HourIdx
        BY <3>2, <2>1, <1>2 DEF HourList
      <4>2. hour[hourPtr].hr \in HourIdx
        BY <4>1, <1>5
      <4> QED
        BY <3>2, <4>1, <4>2, <1>m, <1>h DEF HourIdx
    <3> QED
      BY <3>1, <3>2
  <2>3. /\ hour' = [hour EXCEPT ![Next8(hourPtr)] = [hr |-> Hr, day |-> Today]]
        /\ UNCHANGED <<date, spill, hourPtr, datePtr>>
        /\ slot' = [slot EXCEPT ![t] = Next8(hourPtr)]
    <3>1. Next8(hourPtr) < Hours
      BY <2>2, <1>5 DEF HourIdx
    <3> QED
      BY <3>1, <1>9, Zenon DEF HourWrite
  <2>4. ~spill'
    BY <2>3, <1>2, Zenon
  <2>5. isLastDateDataToday'
    BY <2>1, <2>3, <1>4 DEF isLastDateDataToday
  <2>6. \A i \in HourIdx : i <= hourPtr /\ hourPtr # None => hour'[i] = hour[i]
    BY <2>2, <2>3, <1>2, <1>5 DEF HourList, HourIdx
  <2>7. HourList'
    BY <2>1, <2>3, <2>5, <2>6, <1>2, <1>4, <1>5 DEF HourList, HourIdx
  <2>8. pc'[t] = "hptr"
    BY <1>9, <2>1, <1>5 DEF HourWrite, Go, After
  <2>9. slot'[t] = Next8(hourPtr)' /\ slot'[t] \in HourIdx /\ slot'[t] <= Hr'
        /\ hour'[slot'[t]] = [hr |-> Hr', day |-> Today']
    BY <2>2, <2>3, <1>1, <1>4, <1>5 DEF Next8, Tasks
  <2> QED
    BY <2>4, <2>5, <2>7, <2>8, <2>9, Zenon DEF Recording
<1>10. CASE HourPtr(t)
  <2>1. /\ isLastDateDataToday /\ pc[t] = "hptr"
        /\ slot[t] = Next8(hourPtr) /\ slot[t] \in HourIdx /\ slot[t] <= Hr
        /\ hour[slot[t]] = [hr |-> Hr, day |-> Today]
    BY <1>10, <1>1, <1>2 DEF HourPtr, OnlineSteps, Recording
  <2>2. hourPtr' = slot[t] /\ UNCHANGED <<hour, datePtr, date, spill>> /\ prev' = [prev EXCEPT ![t] = Hr]
    BY <1>10, <2>1 DEF HourPtr
  <2>3. ~spill'
    BY <2>2, <1>2, Zenon
  <2>4. isLastDateDataToday'
    BY <2>1, <2>2, <1>4 DEF isLastDateDataToday
  <2>5. pc'[t] \in {"avg", "loop"}
    BY <1>10, <2>1, <1>5 DEF HourPtr, Go, After
  <2>6. \A i \in HourIdx : i <= slot[t] => i = slot[t] \/ (hourPtr # None /\ i <= hourPtr)
    <3>1. CASE hourPtr = None
      BY <3>1, <2>1, <1>m, <1>h DEF HourIdx
    <3>2. CASE hourPtr # None
      BY <3>2, <2>1, <1>m, <1>h DEF HourIdx
    <3> QED
      BY <3>1, <3>2
  <2>7. datePtr # None /\ date[datePtr].day = Today
    BY <2>1, <1>5 DEF isLastDateDataToday, None
  <2>8. \A i \in HourIdx : i <= slot[t] => hour[i].day = date[datePtr].day
    BY <2>1, <2>6, <2>7, <1>2 DEF HourList
  <2>9. HourList'
    BY <2>1, <2>2, <2>7, <2>8, <1>4, <1>5 DEF HourList, HourIdx
  <2>10. HourRecorded' /\ hourPtr' # None /\ prev'[t] = Hr' /\ hour'[hourPtr'].hr = prev'[t]
    BY <2>1, <2>2, <1>1, <1>4, <1>5, <1>n DEF HourRecorded, Tasks
  <2> QED
    BY <2>3, <2>4, <2>5, <2>9, <2>10 DEF Recording
<1>11. CASE Start(t)
  <2>1. UNCHANGED <<hourPtr, hour, datePtr, date, spill>>
    BY <1>11, Zenon DEF Start, Test, eeprom, Rest
  <2>2. HourKept
    BY <2>1 DEF HourKept
  <2>3. pc'[t] = "sum" \/ (pc'[t] = "prev" /\ (isLastDateDataToday \/ ~(getDateDataLength > 0)))
    BY <1>11, <1>1, <1>5 DEF Start, Test, Go, Tasks
  <2>4. ~(getDateDataLength > 0) => datePtr = None
    BY <1>5, <1>6 DEF getDateDataLength, Next8, DateIdx
  <2>5. hourPtr # None => datePtr # None
    BY <1>2 DEF HourList
  <2> QED
    BY <2>1, <2>2, <2>3, <2>4, <2>5, <1>k DEF Recording
<1>12. CASE Average(t)
  <2>1. UNCHANGED <<hourPtr, hour, datePtr, spill, prev>>
    BY <1>12, Zenon DEF Average, Rest
  <2>2. HourKept
    BY <1>12, <2>1, <1>5 DEF HourKept, Average
  <2>3. \/ pc[t] = "sum" /\ pc'[t] = "reset0"
        \/ pc[t] = "avg" /\ pc'[t] = "loop"
    BY <1>12, <1>1, <1>5 DEF Average, Go, Tasks
  <2>4. pc[t] = "avg" => HourRecorded /\ isLastDateDataToday /\ prev[t] = Hr
    BY <1>2 DEF Recording
  <2> QED
    BY <2>1, <2>2, <2>3, <2>4, <1>4, <1>k, <1>n DEF Recording, HourRecorded
<1>13. CASE ResetHours(t)
  <2>1. hourPtr' = None /\ UNCHANGED spill
    BY <1>13, Zenon DEF ResetHours, Rest
  <2>2. pc'[t] \in {"date0", "check"}
    BY <1>13, <1>1, <1>5 DEF ResetHours, Go, Tasks
  <2>3. ~spill'
    BY <2>1, <1>2, Zenon
  <2> QED
    BY <2>1, <2>2, <2>3 DEF HourList, Recording
<1>14. CASE Previous(t)
  <2>1. UNCHANGED <<hourPtr, hour, datePtr, date, spill>>
    BY <1>14, Zenon DEF Previous, eeprom
  <2>2. HourKept
    BY <2>1 DEF HourKept
  <2>3. pc[t] = "prev" /\ pc'[t] = "loop"
    BY <1>14, <1>1, <1>5 DEF Previous, Go, Tasks
  <2>4. /\ hourPtr = None => prev'[t] = None
        /\ hourPtr \in HourIdx => prev'[t] = hour[hourPtr].hr
    BY <1>14, <1>1, <1>5 DEF Previous, Tasks
  <2>5. hourPtr # None => isLastDateDataToday /\ hourPtr \in HourIdx
    BY <2>3, <1>2 DEF Recording, HourList
  <2> QED
    BY <2>1, <2>2, <2>3, <2>4, <2>5, <1>4, <1>5, <1>k, <1>n DEF Recording
<1>15. CASE Loop(t)
  <2>1. UNCHANGED <<hourPtr, hour, datePtr, date, spill>>
    BY <1>15, Zenon DEF Loop, Test, eeprom, Rest
  <2>2. HourKept
    BY <2>1 DEF HourKept
  <2>3. pc[t] = "loop" /\ Hr # prev[t] /\ pc'[t] = IF Hr = 0 THEN "reset" ELSE "check"
    BY <1>15, <1>1, <1>5 DEF Loop, Test, Go, Tasks
  <2>4. CASE Hr = 0
    BY <2>1, <2>2, <2>3, <2>4, <1>k DEF Recording
  <2>5. CASE Hr # 0
    <3>1. hourPtr # None => /\ isLastDateDataToday /\ hour[hourPtr].hr # Hr
                            /\ hour[hourPtr].hr <= Hr /\ hour[hourPtr].hr \in HourIdx
      BY <2>3, <2>5, <1>2, <1>5 DEF Recording, HourList
    <3>2. hourPtr # None => isLastDateDataToday /\ hour[hourPtr].hr < Hr
      BY <3>1, <1>5 DEF HourIdx
    <3> QED
      BY <2>1, <2>2, <2>3, <2>5, <3>2, <1>4, <1>k DEF Recording
  <2> QED
    BY <2>4, <2>5
<1>16. CASE Check(t)
  <2>1. UNCHANGED <<hourPtr, hour, datePtr, date, spill>>
    BY <1>16, Zenon DEF Check, Test, eeprom, Rest
  <2>2. HourKept
    BY <2>1 DEF HourKept
  <2>3. pc[t] = "check" /\ pc'[t] = IF isLastDateDataToday THEN "hour" ELSE "date"
    BY <1>16, <1>1, <1>5 DEF Check, Test, Go, Tasks
  <2>4. hourPtr # None => isLastDateDataToday /\ hour[hourPtr].hr < Hr
    BY <2>3, <1>2 DEF Recording
  <2> QED
    BY <2>1, <2>2, <2>3, <2>4, <1>4, <1>k DEF Recording
<1>17. CASE Format(t)
  BY <1>17, <1>1 DEF Format, OnlineSteps
<1> QED
  BY <1>7, <1>8, <1>9, <1>10, <1>11, <1>12, <1>13, <1>14, <1>15, <1>16, <1>17, Zenon DEF Runs

\* Every write keeps the hours of one day while one task makes them.
LEMMA HourStep ==
  TypeInv /\ AloneInv /\ RingInv /\ HourInv /\ [Next]_vars => HourInv'
<1> SUFFICES ASSUME TypeInv, AloneInv, RingInv, HourInv, [Next]_vars, ~shared', downs' = 0
             PROVE  ~divided' /\ ~spill' /\ HourList' /\ \A t \in Online : Recording(t)'
  BY Zenon DEF HourInv
<1>s. ~shared
  BY OnlyOnce
<1>5. /\ hour \in [HourIdx -> [hr : HourIdx, day : Days]] /\ Hr \in HourIdx /\ Today \in Days
      /\ prev \in [Tasks -> HourIdx \cup {None}] /\ pc \in [Tasks -> Steps]
      /\ downs \in Nat /\ Hours \in 2..254 /\ DateNum \in 2..254
  BY HourTypes, WarehouseAssumption DEF TypeInv, TypeOK
<1>6. datePtr # None => datePtr \in DateIdx
  BY DEF TypeInv, DatePtrs
<1>q. ASSUME downs = 0, UNCHANGED <<hourPtr, hour, datePtr, date, slot, prev, spill, divided, now>>,
             \A t \in Online : pc'[t] \in {pc[t], "start", "off"}
      PROVE  ~divided' /\ ~spill' /\ HourList' /\ \A t \in Online : Recording(t)'
  <2>1. ~spill /\ HourList /\ \A t \in Online : Recording(t)
    BY <1>q, <1>s, Zenon DEF HourInv
  <2>2. Hr' = Hr /\ Today' = Today
    BY <1>q, SameHour
  <2>3. HourList' /\ isLastDateDataToday' = isLastDateDataToday
    BY <1>q, <2>1, <2>2, ListStays DEF HourKept
  <2>4. HourRecorded' = HourRecorded
    BY <1>q, <2>2 DEF HourRecorded
  <2>5. ASSUME NEW t \in Online PROVE Recording(t)'
    <3>1. CASE pc'[t] = pc[t]
      BY <3>1, <1>q, <2>1, <2>2, <2>3, <2>4 DEF Recording, Next8
    <3>2. CASE pc'[t] \in {"start", "off"}
      BY <3>2 DEF Recording
    <3> QED
      BY <1>q, <3>1, <3>2
  <2>6. ~spill' /\ ~divided'
    BY <1>q, <2>1, <1>s, Zenon DEF HourInv
  <2> QED
    BY <2>3, <2>5, <2>6
<1>0. CASE UNCHANGED vars
  <2>1. downs = 0 /\ UNCHANGED <<hourPtr, hour, datePtr, date, slot, prev, spill, divided, now, pc>>
    BY <1>0, Zenon DEF vars
  <2> QED
    BY <2>1, <1>q
<1>1. CASE ClearStart
  BY <1>1, Zenon DEF ClearStart, Shares
<1>2. CASE UpDown
  <2>1. downs = 0 /\ UNCHANGED <<hourPtr, hour, datePtr, date, slot, prev, spill, divided, now, pc>>
    BY <1>2, Zenon DEF UpDown, eeprom
  <2> QED
    BY <2>1, <1>q
<1>3. CASE Tick
  <2>1. up /\ downs = 0
    <3>1. CASE up
      BY <1>3, <3>1 DEF Tick
    <3>2. CASE ~up
      BY <1>3, <3>2, <1>5 DEF Tick
    <3> QED
      BY <3>1, <3>2
  <2>2. ~spill /\ HourList /\ Ring /\ \A t \in Online : Recording(t)
    BY <2>1, <1>s, Zenon DEF HourInv, RingInv
  <2>3. UNCHANGED <<hourPtr, hour, datePtr, date, slot, prev, spill, divided, pc>>
    BY <1>3, Zenon DEF Tick, eeprom
  <2>4. \/ Hr' = Hr + 1 /\ Today' = Today
        \/ Hr = Hours - 1 /\ Hr' = 0 /\ Today' = Today + 1
    BY <1>3, TickHour DEF Tick, TypeInv
  <2>5. \A t \in Online : pc[t] = "off" \/ (pc[t] = "loop" /\ prev[t] = Hr)
    BY <1>3, <2>1 DEF Tick, Noticed, Tasks
  <2>6. isLastDateDataToday' => isLastDateDataToday /\ Hr' = Hr + 1
    <3>1. datePtr # None => date[datePtr].day <= Today
      BY <1>6, <2>2 DEF Ring
    <3>2. datePtr # None => date[datePtr].day \in Nat /\ Today \in Nat
      BY <1>5, <1>6 DEF Days, TypeInv, TypeOK
    <3> QED
      BY <2>3, <2>4, <3>1, <3>2, <1>5 DEF isLastDateDataToday, None
  <2>7. HourList'
    <3>1. hourPtr # None => hour[hourPtr].hr \in 0..(Hours - 1)
      BY <2>2, <1>5 DEF HourList, HourIdx
    <3>2. Hr \in 0..(Hours - 1)
      BY <1>5 DEF HourIdx
    <3>3. hourPtr # None /\ isLastDateDataToday' => hour[hourPtr].hr <= Hr'
      BY <2>2, <2>6, <3>1, <3>2, <1>5 DEF HourList
    <3> QED
      BY <2>2, <2>3, <3>3 DEF HourList
  <2>8. ASSUME NEW t \in Online PROVE Recording(t)'
    <3>1. CASE pc[t] = "off"
      BY <3>1, <2>3 DEF Recording
    <3>2. CASE pc[t] = "loop" /\ prev[t] = Hr
      <4>1. hourPtr # None
        BY <3>2, <2>2 DEF Recording
      <4>2. isLastDateDataToday /\ hour[hourPtr].hr = prev[t]
        BY <3>2, <4>1, <2>2 DEF Recording
      <4>3. CASE Hr' = 0
        <5>1. prev[t] # 0
          BY <3>2, <4>3, <2>4, <1>5 DEF HourIdx
        <5> QED
          BY <3>2, <4>1, <4>3, <5>1, <2>3 DEF Recording
      <4>4. CASE Hr' = Hr + 1 /\ Today' = Today
        <5>1. isLastDateDataToday'
          BY <4>2, <4>4, <2>3 DEF isLastDateDataToday
        <5> QED
          BY <3>2, <4>1, <4>2, <5>1, <2>3 DEF Recording
      <4> QED
        BY <4>3, <4>4, <2>4
    <3> QED
      BY <2>5, <3>1, <3>2
  <2>9. ~spill' /\ ~divided'
    BY <2>1, <2>2, <2>3, <1>s, Zenon DEF HourInv
  <2> QED
    BY <2>7, <2>8, <2>9
<1>4. CASE Halts
  <2>r. Restart /\ UNCHANGED <<shared, downs>>
    BY <1>4, Halting, Zenon
  <2>1. downs = 0 /\ UNCHANGED <<hourPtr, hour, datePtr, date, spill, now>>
        /\ \A t \in Online : pc'[t] = "off"
    BY <2>r, Zenon DEF Restart, eeprom, Tasks
  <2>2. ~spill /\ ~divided /\ HourList /\ \A t \in Online : Recording(t)
    BY <2>1, <1>s, Zenon DEF HourInv
  <2>3. HourList'
    BY <2>1, <2>2, SameHour, ListStays DEF HourKept
  <2>4. ~spill'
    BY <2>1, <2>2, Zenon
  <2>5. CASE Crash
    <3>1. divided' = divided
      BY <2>5, Zenon DEF Crash
    <3> QED
      BY <2>1, <2>2, <2>3, <2>4, <3>1 DEF Recording
  <2>6. ASSUME NEW t \in Tasks, DivideByZero(t) PROVE FALSE
    <3>1. pc[t] = "avg" /\ getHourDataLength = 0
      BY <2>6, Zenon DEF DivideByZero
    <3>2. t \in Online
      BY <3>1 DEF TypeInv, Programs, ClearSteps, Tasks
    <3>3. hourPtr \in HourIdx
      BY <2>2, <3>1, <3>2 DEF Recording, HourRecorded
    <3> QED
      BY <3>1, <3>3, WarehouseAssumption DEF getHourDataLength, Next8, HourIdx
  <2> QED
    BY <1>4, <2>5, <2>6, Zenon DEF Halts
<1>7. ASSUME NEW t \in Tasks, Runs(t)
      PROVE  ~divided' /\ ~spill' /\ HourList' /\ \A u \in Online : Recording(u)'
  <2>1. downs = 0 /\ divided' = divided
    BY <1>7, Moves
  <2>4. ~divided'
    BY <2>1, <1>s, Zenon DEF HourInv
  <2>2. ~spill' /\ HourList' /\ Recording(t)'
    BY <1>7, <1>s, <2>1, HourRuns
  <2>3. \A u \in Online : u # t => pc'[u] = "off"
    BY <1>7, <1>s, OnlyTask
  <2> QED
    BY <2>2, <2>3, <2>4 DEF Recording
<1>8. ASSUME NEW t \in Tasks, GotIp(t)
      PROVE  ~divided' /\ ~spill' /\ HourList' /\ \A u \in Online : Recording(u)'
  <2>1. downs = 0 /\ UNCHANGED <<hourPtr, hour, datePtr, date, slot, prev, spill, divided, now>>
    BY <1>8, Zenon DEF GotIp, eeprom
  <2>2. \A u \in Online : pc'[u] \in {pc[u], "start"}
    BY <1>8, <1>5 DEF GotIp, Go, Tasks
  <2> QED
    BY <2>1, <2>2, <1>q
<1> QED
  BY Actions, <1>0, <1>1, <1>2, <1>3, <1>4, <1>7, <1>8, Zenon DEF Runs

\* What the properties of one task rest on.
AreaInv == TypeInv /\ AloneInv /\ RingInv /\ HourInv

\* The invariants of one writer hold in every reachable state.
LEMMA AreaInvariant == Spec => []AreaInv
<1>1. Init => AreaInv
  BY TypeInit, AloneInit, RingInit, HourInit DEF AreaInv
<1>2. AreaInv /\ [Next]_vars => AreaInv'
  BY TypeStep, AloneStep, RingStep, HourStep DEF AreaInv
<1> QED
  BY <1>1, <1>2, PTL DEF Spec

\* The lists stay in the space the memory map gives them.
THEOREM AreasKeptCorrect == Spec => []AreasKept
<1>1. AreaInv => AreasKept
  <2> SUFFICES ASSUME AreaInv PROVE AreasKept
    OBVIOUS
  <2>1. TypeOK /\ datePtr \in DateIdx \cup {None}
    BY DEF AreaInv, TypeInv, DatePtrs
  <2>2. ~shared /\ downs = 0 => ~spill /\ HourList
    BY Zenon DEF AreaInv, HourInv
  <2>3. HourList => hourPtr = None \/ hourPtr < Hours
    BY WarehouseAssumption DEF HourList, HourIdx
  <2> QED
    BY <2>1, <2>2, <2>3, Zenon DEF AreasKept
<1> QED
  BY <1>1, AreaInvariant, PTL

\* As long as one task writes the EEPROM its lists stay in order, through restarts
\* between any two writes.
THEOREM LogOrderedCorrect == Spec => []LogOrdered
<1>1. AreaInv => LogOrdered
  <2> SUFFICES ASSUME AreaInv, ~shared, ~spill PROVE Chronological /\ (downs = 0 => HoursDaily)
    BY Zenon DEF LogOrdered
  <2>1. Chronological
    BY RingInOrder, Zenon DEF AreaInv, RingInv
  <2>2. ASSUME downs = 0 PROVE HoursDaily
    <3>1. HourList
      BY <2>2, Zenon DEF AreaInv, HourInv
    <3>2. hourPtr \in 0..255 /\ WarehouseAssumption
      BY WarehouseAssumption DEF AreaInv, TypeInv, TypeOK
    <3>3. ASSUME NEW i \in HourIdx, i < getHourDataLength, datePtr \in DateIdx
          PROVE  hour[i].day = date[datePtr].day
      <4>1. hourPtr # None
        BY <3>3 DEF getHourDataLength, Next8, None, HourIdx
      <4>2. getHourDataLength = hourPtr + 1
        BY <3>2, <4>1 DEF getHourDataLength, Next8, None
      <4>3. i <= hourPtr
        BY <3>2, <3>3, <4>2 DEF HourIdx
      <4> QED
        BY <3>1, <3>3, <4>1, <4>3 DEF HourList
    <3> QED
      BY <3>3 DEF HoursDaily
  <2> QED
    BY <2>1, <2>2
<1> QED
  BY <1>1, AreaInvariant, PTL

-----------------------------------------------------------------------------
(* Tasks that append at the same time *)

\* Division with a remainder.
LEMMA DivMod ==
  ASSUME NEW h \in Nat \ {0}, NEW n \in Nat, NEW q, q = n \div h, NEW r, r = n % h
  PROVE  n = h * q + r /\ q \in Int /\ r \in 0..(h - 1)
<1>1. n = h * q + r
  OBVIOUS
<1>2. q \in Int
  OBVIOUS
<1>3. r \in 0..(h - 1)
  OBVIOUS
<1> QED
  BY <1>1, <1>2, <1>3

\* Multiples of h, shifted by the same, that are less than h apart are one.
LEMMA Quotients ==
  ASSUME NEW h \in Nat \ {0}, NEW n \in Nat, NEW m \in Nat, n <= m, m - n < h,
         NEW q \in Int, NEW p \in Int, NEW r \in Int, n = h * q + r, m = h * p + r
  PROVE  n = m
<1>1. m - n = h * (p - q)
  OBVIOUS
<1>2. CASE p = q
  BY <1>1, <1>2
<1>3. CASE p - q >= 1
  BY <1>1, <1>3
<1>4. CASE p - q <= -1
  <2>1. h * (p - q) <= -h
    BY <1>4
  <2> QED
    BY <2>1, <1>1
<1> QED
  BY <1>2, <1>3, <1>4

\* Within a day no hour comes twice.
LEMMA SameRemainder ==
  ASSUME NEW h \in Nat \ {0}, NEW n \in Nat, NEW m \in Nat, n <= m, m - n < h, n % h = m % h
  PROVE  n = m
<1> DEFINE q == n \div h
           p == m \div h
           r == n % h
           s == m % h
<1>1. n = h * q + r /\ q \in Int /\ r \in Int
  <2>1. n = h * q + r /\ q \in Int /\ r \in 0..(h - 1)
    BY DivMod, Zenon
  <2> QED
    BY <2>1
<1>2. m = h * p + s /\ p \in Int /\ s \in 0..(h - 1)
  BY DivMod, Zenon
<1>3. r = s
  OBVIOUS
<1> HIDE DEF q, p, r, s
<1>4. m = h * p + r
  BY <1>2, <1>3
<1>5. p \in Int /\ q \in Int /\ r \in Int
  BY <1>1, <1>2
<1>6. n = h * q + r
  BY <1>1
<1>7. ASSUME n <= m, m - n < h PROVE n = m
  BY <1>7, <1>4, <1>5, <1>6, Quotients, ZenonT(30)
<1> QED
  BY <1>7

\* The hours that pass without modules are fewer than a day.
BriefOutage == MaxDown + 2 <= Hours

\* The record of an hour, and the hours the last record may be of.
RecordAt(n) == [hr |-> n % Hours, day |-> 1 + n \div Hours]
Recent == {n \in 0..now : now - n <= downs + 1}

\* A task that has noticed the hour and written what there was to write.
Done(t) == pc[t] = "off" \/ (pc[t] \in {"loop", "avg"} /\ prev[t] = Hr)

\* Where a task may be with which records, whatever the others write.
Sharing(t) ==
  /\ pc[t] \in {"dptr0", "dptr"} => slot[t] \in DateIdx /\ date[slot[t]].day = Today
  /\ pc[t] \in {"hour", "hptr"} => isLastDateDataToday
  /\ pc[t] = "hptr" => slot[t] \in HourIdx /\ hour[slot[t]] = RecordAt(now)
  /\ pc[t] = "loop" /\ prev[t] # None => \E n \in Recent : prev[t] = n % Hours
  /\ pc[t] = "avg" => prev[t] = Hr /\ Hr = Hours - 1 /\ hourPtr # None
  /\ pc[t] \in {"sum", "reset0"} => Hr # Hours - 1
  /\ pc[t] = "reset" => Hr = 0

\* The last hour record, if there is one, is a recent one; when nobody is about
\* to append, it is this hour's.
LastRecent ==
  hourPtr # None => /\ hourPtr \in HourIdx
                    /\ \E n \in Recent : hour[hourPtr] = RecordAt(n)
                    /\ \E t \in Online : pc[t] # "off"
\* So is the day of the last date record.
LastDay ==
  /\ datePtr # None => /\ \E n \in Recent : date[datePtr].day = 1 + n \div Hours
                       /\ \E t \in Online : pc[t] # "off"
  /\ datePtr = None => date[DateNum - 1].day = 0
LastDone == (\A t \in Online : Done(t)) /\ (\E t \in Online : pc[t] # "off") => HourRecorded
Together ==
  /\ LastRecent /\ LastDone /\ LastDay /\ ~divided
  /\ HourRecorded => isLastDateDataToday
  /\ \A t \in Online : Sharing(t)
SharedInv == crashes = 0 /\ clears = 0 /\ ~spill => Together

\* At first there is no hour record.
LEMMA SharedInit == Init => SharedInv
<1> SUFFICES ASSUME Init PROVE SharedInv
  OBVIOUS
<1>1. hourPtr = None /\ \A t \in Online : pc[t] = "off"
  BY DEF Init, Tasks
<1>2. ~HourRecorded
  BY <1>1, WarehouseAssumption DEF HourRecorded, HourIdx, None
<1>3. LastDay /\ ~divided
  BY WarehouseAssumption DEF Init, LastDay, DateIdx
<1> QED
  BY <1>1, <1>2, <1>3 DEF SharedInv, Together, LastRecent, LastDone, Sharing

\* The record of now, and of no other recent hour, has this hour.
LEMMA RecordNow ==
  ASSUME TypeInv
  PROVE  /\ RecordAt(now) = [hr |-> Hr, day |-> Today] /\ now \in Recent
         /\ BriefOutage => \A n \in Recent : n % Hours = Hr => n = now
<1>1. now \in Nat /\ downs \in 0..MaxDown /\ MaxDown \in Nat /\ Hours \in Nat \ {0}
  BY WarehouseAssumption DEF TypeInv, TypeOK
<1>2. RecordAt(now) = [hr |-> Hr, day |-> Today]
  BY DEF RecordAt, Hr, Today
<1>3. ASSUME BriefOutage, NEW n \in Recent, n % Hours = Hr PROVE n = now
  <2>1. n \in Nat /\ n <= now /\ now - n < Hours
    BY <1>1, <1>3 DEF BriefOutage, Recent
  <2>2. n % Hours = now % Hours
    BY <1>3 DEF Hr
  <2> QED
    BY <1>1, <2>1, <2>2, SameRemainder, Zenon
<1>4. now \in Recent
  BY <1>1 DEF Recent
<1> QED
  BY <1>2, <1>3, <1>4

\* An hour later the recent hours are still recent, if it passed without modules, and
\* none of them has the new hour.
LEMMA RecentLater ==
  ASSUME TypeInv, TypeInv', BriefOutage, now' = now + 1,
         NEW n \in Recent, IF up THEN downs' = downs /\ n = now ELSE downs' = downs + 1
  PROVE  n \in Recent' /\ n % Hours # Hr'
<1>1. /\ now \in Nat /\ downs \in 0..MaxDown /\ downs' \in 0..MaxDown
      /\ MaxDown \in Nat /\ Hours \in Nat \ {0}
  BY WarehouseAssumption DEF TypeInv, TypeOK
<1>2. n \in 0..now' /\ n # now' /\ now' - n <= downs' + 1
  <2>1. n \in 0..now /\ now - n <= downs + 1
    BY DEF Recent
  <2>2. (downs' = downs /\ n = now) \/ downs' = downs + 1
    BY Zenon
  <2>3. ASSUME NEW d, downs' = d, d \in Nat, (downs' = downs /\ n = now) \/ downs' = downs + 1
        PROVE  now + 1 - n <= d + 1 /\ n \in 0..(now + 1) /\ n # now + 1
    BY <2>3, <2>1, <1>1
  <2>4. downs' \in Nat
    BY <1>1
  <2>5. now' - n = now + 1 - n /\ 0..now' = 0..(now + 1)
    BY <1>1, <2>1
  <2> QED
    BY <2>2, <2>3, <2>4, <2>5
<1>3. n \in Recent'
  BY <1>2 DEF Recent
<1>4. ASSUME n % Hours = Hr' PROVE FALSE
  <2>1. n \in Nat /\ now' \in Nat /\ n <= now' /\ now' - n < Hours
    <3>1. now' \in Nat /\ n \in Nat /\ n <= now'
      BY <1>1, <1>2
    <3>2. ASSUME NEW d \in 0..MaxDown, NEW k \in Int, k <= d + 1 PROVE k < Hours
      BY <3>2, <1>1 DEF BriefOutage
    <3>3. now' - n \in Int
      BY <3>1
    <3> QED
      BY <3>1, <3>2, <3>3, <1>1, <1>2, Zenon
  <2>2. n % Hours = now' % Hours
    BY <1>4 DEF Hr
  <2>3. n = now'
    BY <1>1, <2>1, <2>2, SameRemainder, Zenon
  <2> QED
    BY <1>2, <2>3
<1> QED
  BY <1>3, <1>4

\* What a step of a task of the online ones leaves to the others.
LEMMA OthersKeep ==
  ASSUME TypeInv, NEW t \in Online, Runs(t), ~spill'
  PROVE  /\ UNCHANGED <<now, downs>> /\ Recent' = Recent /\ RecordAt(now)' = RecordAt(now)
         /\ pc[t] # "off" /\ pc'[t] # "off" /\ divided' = divided
         /\ \A i \in DateIdx : date[i].day = Today => date'[i].day = Today'
         /\ \A i \in DateIdx : i # NextDate => date'[i].day = date[i].day
         /\ \A i \in HourIdx : hour[i] = RecordAt(now) => hour'[i] = RecordAt(now)
<1> USE DEF TypeInv, TypeOK
<1>k. t \in Tasks
  BY DEF Tasks
<1>1. UNCHANGED <<now, downs>> /\ pc[t] # "off" /\ Today' = Today /\ divided' = divided
  BY <1>k, Moves
<1>2. Recent' = Recent /\ RecordAt(now)' = RecordAt(now)
  BY <1>1 DEF Recent, RecordAt
<1>3. pc'[t] # "off"
  BY <1>k DEF Runs, DateWrite, DatePtr, HourWrite, HourPtr, Start, Average, ResetHours, Previous,
              Loop, Check, Format, Test, Go, After, Programs, OnlineSteps
<1>4. /\ \A i \in DateIdx : date[i].day = Today => date'[i].day = Today
      /\ \A i \in DateIdx : i # NextDate => date'[i].day = date[i].day
  <2>1. CASE RingKept
    BY <2>1 DEF RingKept
  <2>2. CASE DateWrite(t)
    BY <2>2 DEF DateWrite
  <2>3. CASE DatePtr(t)
    BY <2>3 DEF DatePtr
  <2> QED
    BY Writers, <2>1, <2>2, <2>3, Zenon
<1>5. \A i \in HourIdx : hour[i] = RecordAt(now) => hour'[i] = RecordAt(now)
  <2>1. CASE HourWrite(t)
    BY <2>1, RecordNow DEF HourWrite
  <2>2. hour' = hour \/ HourWrite(t)
    BY Zenon DEF Runs, DateWrite, DatePtr, HourPtr, Start, Average, ResetHours, Previous,
                 Loop, Check, Format, Test, eeprom
  <2> QED
    BY <2>1, <2>2
<1> QED
  BY <1>1, <1>2, <1>3, <1>4, <1>5

\* The hours before the last one of a day, less than a day back, are of that day.
LEMMA LastHour ==
  ASSUME NEW h \in Nat \ {0}, NEW m \in Nat, NEW n \in Nat,
         m % h = h - 1, n <= m, m - n <= h - 1
  PROVE  n \div h = m \div h
<1> DEFINE q == m \div h
           p == n \div h
<1>1. q \in Nat /\ p \in Nat /\ m = h * q + (h - 1)
  OBVIOUS
<1>2. h * q <= n /\ n <= h * q + (h - 1)
  BY <1>1
<1>3. n = h * p + (n % h) /\ n % h \in 0..(h - 1)
  OBVIOUS
<1> QED
  BY <1>1, <1>2, <1>3, Quotients

\* The tasks write this hour's records only, each of them after it has the last
\* date record be today's.
LEMMA SharedRuns ==
  ASSUME TypeInv, TypeInv', Together, BriefOutage, NEW t \in Online, Runs(t), ~spill'
  PROVE  Together'
<1>k. t \in Tasks /\ Online \subseteq Tasks
  BY DEF Tasks
<1>t. /\ hour \in [HourIdx -> [hr : HourIdx, day : Days]]
      /\ date \in [DateIdx -> [day : Days, avg : Averages]]
      /\ prev \in [Tasks -> HourIdx \cup {None}] /\ pc \in [Tasks -> Steps]
      /\ slot \in [Tasks -> 0..255] /\ Hr \in HourIdx /\ None \notin HourIdx
      /\ DateNum \in 2..254 /\ pc[t] \in OnlineSteps
  <2>1. None \notin HourIdx
    BY WarehouseAssumption DEF None, HourIdx
  <2> QED
    BY <2>1, HourTypes, WarehouseAssumption DEF TypeInv, TypeOK, Programs
<1>o. \A u \in Online : u # t => pc'[u] = pc[u] /\ slot'[u] = slot[u] /\ prev'[u] = prev[u]
  BY <1>k, Moves
<1>h. /\ UNCHANGED <<now, downs>> /\ Recent' = Recent /\ RecordAt(now)' = RecordAt(now)
      /\ Hr' = Hr /\ Today' = Today
      /\ \A i \in DateIdx : date[i].day = Today => date'[i].day = Today
      /\ \A i \in HourIdx : hour[i] = RecordAt(now) => hour'[i] = RecordAt(now)
      /\ \A i \in DateIdx : i # NextDate => date'[i].day = date[i].day
      /\ divided' = divided
  BY OthersKeep, SameHour
<1>n. pc[t] # "off" /\ pc'[t] # "off"
  BY OthersKeep
<1>r. RecordAt(now) = [hr |-> Hr, day |-> Today] /\ now \in Recent /\ now % Hours = Hr
  BY RecordNow DEF Hr
<1>a. /\ LastRecent /\ LastDone /\ LastDay /\ (HourRecorded => isLastDateDataToday)
      /\ \A u \in Online : Sharing(u)
  BY DEF Together
<1>v. ~divided'
  BY <1>h DEF Together
\* On the last hour of a day the last date is today's, whoever wrote it.
<1>y. ASSUME datePtr # None, Hr = Hours - 1 PROVE isLastDateDataToday
  <2>1. PICK n \in Recent : date[datePtr].day = 1 + n \div Hours
    BY <1>y, <1>a DEF LastDay
  <2>2. n \in Nat /\ n <= now /\ now - n <= Hours - 1
    BY WarehouseAssumption DEF Recent, TypeInv, TypeOK, BriefOutage
  <2>5. Hours \in Nat \ {0} /\ now \in Nat /\ now % Hours = Hours - 1
    BY <1>y, WarehouseAssumption DEF Hr, TypeInv, TypeOK
  <2>3. n \div Hours = now \div Hours
    BY <2>2, <2>5, LastHour, Zenon
  <2>4. datePtr < DateNum
    BY <1>y, <1>t DEF TypeInv, DatePtrs, DateIdx
  <2> QED
    BY <2>1, <2>3, <2>4 DEF isLastDateDataToday, Today
\* A step that leaves the date pointer leaves the day it designates.
<1>l. ASSUME datePtr' = datePtr PROVE LastDay'
  <2>1. NextDate # datePtr /\ (datePtr = None => NextDate # DateNum - 1)
    BY NextDateType, <1>t DEF TypeInv, NextDate, Next8, None
  <2>2. datePtr # None => date'[datePtr].day = date[datePtr].day
    BY <2>1, <1>h DEF TypeInv, DatePtrs
  <2>0. DateNum - 1 \in DateIdx
    BY <1>t DEF DateIdx
  <2>3. datePtr = None => date'[DateNum - 1].day = date[DateNum - 1].day
    BY <2>0, <2>1, <1>h, Zenon
  <2> QED
    BY <1>l, <2>2, <2>3, <1>a, <1>h, <1>n DEF LastDay
\* A step that does not empty the hour list.
<1>z. ASSUME NEW u \in Online, u # t, pc[u] = "avg", pc[t] \in {"reset0", "reset"} PROVE FALSE
  <2>1. Sharing(u) /\ Sharing(t)
    BY <1>a
  <2> QED
    BY <1>z, <2>1, WarehouseAssumption DEF Sharing
\* What stays whatever the step is.
<1>b. ASSUME datePtr' = datePtr, isLastDateDataToday PROVE isLastDateDataToday'
  <2>1. datePtr \in DateIdx /\ date[datePtr].day = Today
    <3>1. datePtr < DateNum /\ date[datePtr].day = Today
      BY <1>b DEF isLastDateDataToday
    <3>2. datePtr \in DateIdx \cup {None}
      BY DEF TypeInv, DatePtrs
    <3>3. DateNum \in 2..254 => ~(None < DateNum)
      BY DEF None
    <3> QED
      BY <3>1, <3>2, <3>3, <1>t
  <2>2. date'[datePtr].day = Today
    BY <2>1, <1>h
  <2> QED
    BY <1>b, <2>1, <2>2, <1>h DEF isLastDateDataToday
<1>c. ASSUME isLastDateDataToday => isLastDateDataToday', NEW u \in Online, u # t,
             hourPtr' # None \/ hourPtr' = hourPtr \/ pc[t] \in {"reset0", "reset"}
      PROVE  Sharing(u)'
  <2>1. Sharing(u)
    BY <1>a
  <2>2. pc'[u] = pc[u] /\ slot'[u] = slot[u] /\ prev'[u] = prev[u]
    BY <1>o, <1>c
  <2>3. ASSUME pc[u] \in {"dptr0", "dptr"}
        PROVE  slot'[u] \in DateIdx /\ date'[slot'[u]].day = Today'
    BY <2>1, <2>2, <2>3, <1>h DEF Sharing
  <2>4. ASSUME pc[u] \in {"hour", "hptr"} PROVE isLastDateDataToday'
    BY <2>1, <2>4, <1>c DEF Sharing
  <2>5. ASSUME pc[u] = "hptr" PROVE slot'[u] \in HourIdx /\ hour'[slot'[u]] = RecordAt(now)'
    BY <2>1, <2>2, <2>5, <1>h DEF Sharing
  <2>6. ASSUME pc[u] = "loop", prev[u] # None PROVE \E n \in Recent' : prev'[u] = n % Hours
    BY <2>1, <2>2, <2>6, <1>h DEF Sharing
  <2>7. ASSUME pc[u] = "avg" PROVE prev'[u] = Hr' /\ Hr' = Hours - 1 /\ hourPtr' # None
    BY <2>1, <2>2, <2>7, <1>c, <1>z, <1>h DEF Sharing
  <2>8. /\ pc[u] \in {"sum", "reset0"} => Hr' # Hours - 1
        /\ pc[u] = "reset" => Hr' = 0
    BY <2>1, <1>h DEF Sharing
  <2> QED
    BY <2>2, <2>3, <2>4, <2>5, <2>6, <2>7, <2>8 DEF Sharing
\* A step that writes no hour record, and after which its task has still to do.
<1>d. ASSUME UNCHANGED hourPtr, UNCHANGED hour, pc'[t] \notin {"off", "loop", "avg"}, LastDay',
             isLastDateDataToday => isLastDateDataToday', Sharing(t)'
      PROVE  Together'
  <2>1. ~Done(t)'
    BY <1>d DEF Done
  <2>2. LastDone'
    BY <2>1 DEF LastDone
  <2>3. LastRecent'
    BY <1>a, <1>d, <1>h, <1>n DEF LastRecent, RecordAt
  <2>4. HourRecorded' = HourRecorded
    BY <1>d, <1>h DEF HourRecorded
  <2> QED
    BY <2>2, <2>3, <2>4, <1>a, <1>c, <1>d, <1>v DEF Together
<1>1. CASE DateWrite(t)
  <2>1. /\ pc'[t] \in {"dptr0", "dptr"} /\ UNCHANGED hourPtr /\ UNCHANGED hour /\ datePtr' = datePtr
        /\ slot'[t] = NextDate
    BY <1>1, <1>k, <1>t DEF DateWrite, Go, After, OnlineSteps
  <2>2. NextDate \in DateIdx
    BY NextDateType DEF TypeInv
  <2>3. date'[NextDate].day = Today
    BY <1>1, <2>2, <1>t DEF DateWrite
  <2>4. Sharing(t)'
    BY <2>1, <2>2, <2>3, <1>h DEF Sharing
  <2> QED
    BY <2>1, <2>4, <1>b, <1>d, <1>l
<1>2. CASE DatePtr(t)
  <2>1. /\ pc'[t] \in {"prev", "hour"} /\ UNCHANGED hourPtr /\ UNCHANGED hour /\ UNCHANGED date
        /\ datePtr' = slot[t] /\ pc[t] \in {"dptr0", "dptr"}
    BY <1>2, <1>k, <1>t DEF DatePtr, Go, After, OnlineSteps
  <2>2. slot[t] \in DateIdx /\ date[slot[t]].day = Today
    BY <1>a, <2>1 DEF Sharing
  <2>3. isLastDateDataToday'
    BY <2>1, <2>2, <1>h, <1>t DEF isLastDateDataToday, DateIdx
  <2>4. Sharing(t)'
    BY <2>1, <2>3 DEF Sharing
  <2>5. LastDay'
    <3>1. datePtr' # None /\ date'[datePtr'].day = 1 + now \div Hours
      BY <2>1, <2>2, <1>t DEF Today, DateIdx, None
    <3> QED
      BY <3>1, <1>r, <1>h, <1>n DEF LastDay
  <2> QED
    BY <2>1, <2>3, <2>4, <2>5, <1>d
<1>3. CASE HourWrite(t)
  <2> DEFINE n == Next8(hourPtr)
  <2>1. n < Hours
    BY <1>3, Zenon DEF HourWrite
  <2>2. hour' = [hour EXCEPT ![n] = [hr |-> Hr, day |-> Today]]
    BY <1>3, <2>1, Zenon DEF HourWrite
  <2>3. /\ pc[t] = "hour" /\ pc'[t] = "hptr" /\ UNCHANGED hourPtr /\ datePtr' = datePtr
        /\ slot'[t] = n
    BY <1>3, <1>k, <1>t DEF HourWrite, Go, After, OnlineSteps
  <2>4. n \in HourIdx
    BY <2>1, WarehouseAssumption DEF TypeInv, TypeOK, Next8, HourIdx
  <2>5. isLastDateDataToday /\ isLastDateDataToday'
    BY <1>a, <1>b, <2>3 DEF Sharing
  <2>6. hour'[n] = RecordAt(now) /\ \A i \in HourIdx : hour'[i] \in {hour[i], RecordAt(now)}
    BY <2>2, <2>4, <1>t, <1>r
  <2> HIDE DEF n
  <2>7. Sharing(t)'
    BY <2>3, <2>4, <2>5, <2>6, <1>h DEF Sharing
  <2>8. LastDone'
    BY <2>3 DEF LastDone, Done
  <2>9. LastRecent'
    <3> SUFFICES ASSUME hourPtr # None
                 PROVE  hourPtr \in HourIdx /\ \E m \in Recent : hour'[hourPtr] = RecordAt(m)
      BY <2>3, <1>h, <1>n DEF LastRecent, RecordAt
    <3>1. PICK m \in Recent : hourPtr \in HourIdx /\ hour[hourPtr] = RecordAt(m)
      BY <1>a DEF LastRecent
    <3> QED
      BY <3>1, <2>6, <1>r
  <2> QED
    BY <2>3, <2>5, <2>7, <2>8, <2>9, <1>c, <1>l, <1>v DEF Together
<1>4. CASE HourPtr(t)
  <2>1. /\ pc[t] = "hptr" /\ pc'[t] = (IF Hr = Hours - 1 THEN "avg" ELSE "loop") /\ UNCHANGED hour /\ datePtr' = datePtr
        /\ hourPtr' = slot[t] /\ prev'[t] = Hr
    BY <1>4, <1>k, <1>t DEF HourPtr, Go, After, OnlineSteps
  <2>2. isLastDateDataToday' /\ slot[t] \in HourIdx /\ hour[slot[t]] = RecordAt(now)
    BY <1>a, <1>b, <2>1 DEF Sharing
  <2>3. HourRecorded'
    BY <2>1, <2>2, <1>r, <1>h DEF HourRecorded
  <2>6. hourPtr' # None
    BY <2>1, <2>2, <1>t
  <2>4. Sharing(t)'
    BY <2>1, <2>6, <1>r, <1>h DEF Sharing
  <2>5. LastRecent'
    BY <2>1, <2>2, <1>r, <1>h, <1>n DEF LastRecent, RecordAt
  <2> QED
    BY <2>1, <2>2, <2>3, <2>4, <2>5, <2>6, <1>c, <1>l, <1>v DEF Together, LastDone
<1>5. CASE Start(t)
  <2>1. /\ pc'[t] \in {"sum", "prev"} /\ UNCHANGED hourPtr /\ UNCHANGED hour /\ datePtr' = datePtr
    BY <1>5, <1>k, <1>t DEF Start, Test, eeprom, Go
  <2>3. ASSUME pc'[t] = "sum" PROVE Hr # Hours - 1
    <3>1. getDateDataLength > 0 /\ ~isLastDateDataToday
      BY <1>5, <2>3, <1>k, <1>t DEF Start, Test, Go
    <3>2. datePtr # None
      BY <3>1, <1>a DEF getDateDataLength, Next8, None, LastDay
    <3> QED
      BY <3>1, <3>2, <1>y
  <2>2. Sharing(t)'
    BY <2>1, <2>3, <1>h DEF Sharing
  <2> QED
    BY <2>1, <2>2, <1>b, <1>d, <1>l
<1>6. CASE Average(t)
  <2>1. UNCHANGED hourPtr /\ UNCHANGED hour /\ datePtr' = datePtr /\ UNCHANGED prev
    BY <1>6 DEF Average, Rest
  <2>2. CASE pc[t] = "sum"
    <3>1. pc'[t] = "reset0"
      BY <1>6, <2>2, <1>k, <1>t DEF Average, Go
    <3>2. Sharing(t)'
      BY <3>1, <2>2, <1>a, <1>h DEF Sharing
    <3> QED
      BY <2>1, <3>1, <3>2, <1>b, <1>d, <1>l
  <2>3. CASE pc[t] = "avg"
    <3>1. pc'[t] = "loop"
      BY <1>6, <2>3, <1>k, <1>t DEF Average, Go
    <3>2. prev[t] = Hr /\ prev'[t] = Hr
      BY <1>a, <2>1, <2>3 DEF Sharing
    <3>3. Sharing(t)'
      BY <3>1, <3>2, <1>r, <1>h DEF Sharing
    <3>4. LastRecent'
      BY <1>a, <2>1, <1>h, <1>n DEF LastRecent, RecordAt
    <3>5. HourRecorded' = HourRecorded
      BY <2>1, <1>h DEF HourRecorded
    <3>6. \A u \in Online : Done(u)' => Done(u)
      BY <1>o, <1>h, <2>3, <3>2 DEF Done
    <3>7. LastDone'
      BY <1>a, <3>5, <3>6, <1>n DEF LastDone
    <3> QED
      BY <2>1, <3>3, <3>4, <3>5, <3>7, <1>a, <1>b, <1>c, <1>l, <1>v DEF Together
  <2> QED
    BY <1>6, <2>2, <2>3 DEF Average
<1>7. CASE ResetHours(t)
  <2>1. /\ pc'[t] \in {"date0", "check"} /\ hourPtr' = None /\ UNCHANGED hour /\ datePtr' = datePtr
        /\ pc[t] \in {"reset0", "reset"}
    BY <1>7, <1>k, <1>t DEF ResetHours, Go
  <2>2. Sharing(t)' /\ LastDone'
    BY <2>1 DEF Sharing, LastDone, Done
  <2>3. LastRecent' /\ ~HourRecorded'
    BY <2>1, <1>t DEF LastRecent, HourRecorded
  <2> QED
    BY <2>1, <2>2, <2>3, <1>b, <1>c, <1>l, <1>v DEF Together
<1>8. CASE Previous(t)
  <2>1. PICK h \in HourIdx \cup {None} :
             /\ hourPtr = None => h = None
             /\ hourPtr \in HourIdx => h = hour[hourPtr].hr
             /\ prev' = [prev EXCEPT ![t] = h]
    BY <1>8 DEF Previous
  <2>2. pc'[t] = "loop" /\ UNCHANGED hourPtr /\ UNCHANGED hour /\ datePtr' = datePtr /\ prev'[t] = h
    BY <1>8, <2>1, <1>k, <1>t DEF Previous, Go, eeprom
  <2>3. ASSUME h # None
        PROVE  \E n \in Recent : /\ h = n % Hours
                                 /\ hourPtr \in HourIdx /\ hour[hourPtr] = RecordAt(n)
    <3>1. PICK n \in Recent : hourPtr \in HourIdx /\ hour[hourPtr] = RecordAt(n)
      BY <1>a, <2>1, <2>3 DEF LastRecent
    <3>2. h = n % Hours
      BY <2>1, <3>1 DEF RecordAt
    <3> QED
      BY <3>1, <3>2
  <2>4. Sharing(t)'
    BY <2>2, <2>3, <1>h DEF Sharing
  <2>5. LastRecent'
    BY <1>a, <2>2, <1>h, <1>n DEF LastRecent, RecordAt
  <2>6. HourRecorded' = HourRecorded
    BY <2>2, <1>h DEF HourRecorded
  <2>7. LastDone'
    <3> SUFFICES ASSUME \A u \in Online : Done(u)' PROVE HourRecorded'
      BY DEF LastDone
    <3>1. h = Hr
      BY <2>2, <1>h DEF Done
    <3>2. PICK n \in Recent : /\ h = n % Hours
                              /\ hourPtr \in HourIdx /\ hour[hourPtr] = RecordAt(n)
      BY <3>1, <2>3, <1>t
    <3>3. n = now
      BY <3>1, <3>2, RecordNow
    <3> QED
      BY <3>2, <3>3, <2>6, <1>r DEF HourRecorded
  <2> QED
    BY <2>2, <2>4, <2>5, <2>6, <2>7, <1>a, <1>b, <1>c, <1>l, <1>v DEF Together
<1>9. CASE Loop(t)
  <2>1. /\ pc'[t] = (IF Hr = 0 THEN "reset" ELSE "check")
        /\ UNCHANGED hourPtr /\ UNCHANGED hour /\ datePtr' = datePtr
    BY <1>9, <1>k, <1>t DEF Loop, Test, eeprom, Go
  <2>2. Sharing(t)'
    BY <2>1, <1>h DEF Sharing
  <2> QED
    BY <2>1, <2>2, <1>b, <1>d, <1>l
<1>10. CASE Check(t)
  <2>1. /\ pc'[t] = IF isLastDateDataToday THEN "hour" ELSE "date"
        /\ UNCHANGED hourPtr /\ UNCHANGED hour /\ datePtr' = datePtr
    BY <1>10, <1>k, <1>t DEF Check, Test, eeprom, Go
  <2>2. Sharing(t)'
    BY <2>1, <1>b DEF Sharing
  <2> QED
    BY <2>1, <2>2, <1>b, <1>d, <1>l
<1>11. CASE Format(t)
  BY <1>11, <1>t DEF Format, OnlineSteps
<1> QED
  BY <1>1, <1>2, <1>3, <1>4, <1>5, <1>6, <1>7, <1>8, <1>9, <1>10, <1>11, Zenon DEF Runs

\* The hour passes when every task has done what there was to do.
LEMMA SharedTick ==
  ASSUME TypeInv, TypeInv', Together, Regimes, clears = 0, BriefOutage, Tick
  PROVE  Together'
<1>k. Online \subseteq Tasks
  BY DEF Tasks
<1>v. ~divided'
  BY Zenon DEF Tick, Together
<1>t. /\ prev \in [Tasks -> HourIdx \cup {None}] /\ hourPtr \in 0..255
      /\ hour \in [HourIdx -> [hr : HourIdx, day : Days]]
      /\ Hr' \in HourIdx /\ None \notin HourIdx
  <2>1. None \notin HourIdx
    BY WarehouseAssumption DEF None, HourIdx
  <2> QED
    BY <2>1, HourTypesNext DEF TypeInv, TypeOK
<1>1. /\ now' = now + 1 /\ UNCHANGED <<hourPtr, hour, datePtr, date, up, pc, slot, prev>>
      /\ \A t \in Online : pc[t] = "off" \/ (pc[t] = "loop" /\ (up => prev[t] = Hr))
  BY <1>k DEF Tick, Noticed, eeprom
<1>2. IF up THEN downs' = downs ELSE downs' = downs + 1
  BY Zenon DEF Tick
<1>a. /\ LastRecent /\ LastDone /\ LastDay /\ (HourRecorded => isLastDateDataToday)
      /\ \A u \in Online : Sharing(u)
  BY DEF Together
\* Where a recent hour is noted, it stays recent, and is not the new hour.
<1>3. ASSUME NEW n \in Recent, up => n = now PROVE n \in Recent' /\ n % Hours # Hr'
  <2>1. IF up THEN downs' = downs /\ n = now ELSE downs' = downs + 1
    BY <1>2, <1>3, Zenon
  <2> QED
    BY <1>1, <2>1, RecentLater, Zenon
<1>4. ASSUME hourPtr # None
      PROVE  /\ hourPtr \in HourIdx
             /\ \E n \in Recent : hour[hourPtr] = RecordAt(n) /\ (up => n = now)
             /\ \E t \in Online : pc[t] # "off"
  <2>1. hourPtr \in HourIdx /\ \E t \in Online : pc[t] # "off"
    BY <1>4, <1>a DEF LastRecent
  <2>2. CASE up
    <3>1. \A t \in Online : Done(t)
      BY <1>1, <2>2, Zenon DEF Done
    <3>2. HourRecorded
      BY <1>a, <2>1, <3>1 DEF LastDone
    <3> QED
      BY <2>1, <3>2, RecordNow DEF HourRecorded
  <2>3. CASE ~up
    <3>1. PICK n \in Recent : hour[hourPtr] = RecordAt(n)
      BY <1>4, <1>a DEF LastRecent
    <3> QED
      BY <2>1, <2>3, <3>1, Zenon
  <2> QED
    BY <2>1, <2>2, <2>3
<1>5. LastRecent'
  <2> SUFFICES ASSUME hourPtr # None
               PROVE  /\ hourPtr \in HourIdx
                      /\ \E n \in Recent' : hour[hourPtr] = RecordAt(n)
                      /\ \E t \in Online : pc[t] # "off"
    BY <1>1 DEF LastRecent, RecordAt
  <2> QED
    BY <1>3, <1>4
<1>6. ~HourRecorded'
  <2> SUFFICES ASSUME hourPtr \in HourIdx, hour[hourPtr].hr = Hr' PROVE FALSE
    BY <1>1 DEF HourRecorded
  <2>1. PICK n \in Recent : hour[hourPtr] = RecordAt(n) /\ (up => n = now)
    BY <1>4, <1>t
  <2>2. n % Hours # Hr'
    BY <1>3, <2>1, Zenon
  <2> QED
    BY <2>1, <2>2 DEF RecordAt
<1>7. ASSUME NEW t \in Online, pc[t] = "loop", prev[t] # None
      PROVE  \E n \in Recent : prev[t] = n % Hours /\ (up => n = now)
  <2>1. CASE up
    <3>1. prev[t] = Hr
      BY <1>1, <1>7, <2>1
    <3> QED
      BY <3>1, RecordNow DEF Hr
  <2>2. CASE ~up
    <3>1. \E n \in Recent : prev[t] = n % Hours
      BY <1>a, <1>7 DEF Sharing
    <3> QED
      BY <2>2, <3>1, Zenon
  <2> QED
    BY <2>1, <2>2
<1>8. \A t \in Online : Sharing(t)'
  <2> SUFFICES ASSUME NEW t \in Online PROVE Sharing(t)'
    OBVIOUS
  <2>1. pc'[t] \in {"off", "loop"}
    BY <1>1
  <2>2. pc'[t] = "loop" /\ prev'[t] # None => \E n \in Recent' : prev'[t] = n % Hours
    BY <1>1, <1>3, <1>7
  <2> QED
    BY <2>1, <2>2 DEF Sharing
<1>9. ASSUME NEW t \in Online, pc[t] # "off" PROVE ~Done(t)'
  <2>1. pc[t] = "loop" /\ prev'[t] = prev[t] /\ pc'[t] = pc[t]
    BY <1>1, <1>9
  <2>2. CASE prev[t] = None
    BY <2>1, <2>2, <1>t DEF Done
  <2>3. CASE prev[t] # None
    <3>1. PICK n \in Recent : prev[t] = n % Hours /\ (up => n = now)
      BY <1>7, <2>1, <2>3
    <3>2. n % Hours # Hr'
      BY <1>3, <3>1, Zenon
    <3> QED
      BY <2>1, <3>1, <3>2 DEF Done
  <2> QED
    BY <2>2, <2>3
<1>10. LastDone'
  BY <1>1, <1>9 DEF LastDone
<1>11. LastDay'
  <2>1. ASSUME datePtr # None
        PROVE  \E n \in Recent : date[datePtr].day = 1 + n \div Hours /\ (up => n = now)
    <3>1. CASE up
      <4>1. \A t \in Online : Done(t)
        BY <1>1, <3>1, Zenon DEF Done
      <4>2. isLastDateDataToday
        BY <1>a, <2>1, <4>1 DEF LastDone, LastDay
      <4> QED
        BY <4>2, RecordNow DEF isLastDateDataToday, Today
    <3>2. CASE ~up
      <4>1. PICK n \in Recent : date[datePtr].day = 1 + n \div Hours
        BY <2>1, <1>a DEF LastDay
      <4> QED
        BY <3>2, <4>1, Zenon
    <3> QED
      BY <3>1, <3>2
  <2>2. datePtr # None => \E n \in Recent' : date[datePtr].day = 1 + n \div Hours
    BY <1>3, <2>1
  <2> QED
    BY <2>2, <1>1, <1>a DEF LastDay
<1> QED
  BY <1>5, <1>6, <1>8, <1>10, <1>11, <1>v DEF Together

\* The records stay recent through every step, and no task divides by zero.
LEMMA SharedStep ==
  ASSUME BriefOutage
  PROVE  TypeInv /\ AloneInv /\ SharedInv /\ [Next]_vars => SharedInv'
<1> SUFFICES ASSUME TypeInv, AloneInv, SharedInv, [Next]_vars, crashes' = 0, clears' = 0, ~spill'
             PROVE  Together'
  BY Zenon DEF SharedInv
<1>t. TypeInv' /\ crashes \in Nat /\ clears \in Nat /\ pc \in [Tasks -> Steps]
  BY TypeStep DEF TypeInv, TypeOK
<1>k. Online \subseteq Tasks
  BY DEF Tasks
\* A step that writes nothing and moves no task, but for one that starts.
<1>q. ASSUME Together, UNCHANGED <<hourPtr, hour, datePtr, date, slot, prev, now, downs, divided>>,
             \A t \in Online : pc'[t] \in {pc[t], "start"}
      PROVE  Together'
  <2>1. /\ Recent' = Recent /\ Hr' = Hr /\ Today' = Today /\ HourRecorded' = HourRecorded
        /\ isLastDateDataToday' = isLastDateDataToday
    BY <1>q, SameHour DEF Recent, HourRecorded, isLastDateDataToday
  <2>2. \A t \in Online : Sharing(t)'
    BY <1>q, <2>1 DEF Together, Sharing, RecordAt
  <2>3. LastRecent'
    BY <1>q, <2>1 DEF Together, LastRecent, RecordAt
  <2>4. LastDone'
    <3> SUFFICES ASSUME \A t \in Online : Done(t)', \E t \in Online : pc'[t] # "off"
                 PROVE  HourRecorded
      BY <2>1 DEF LastDone
    <3>1. \A t \in Online : pc'[t] = pc[t] /\ Done(t)
      BY <1>q, <2>1 DEF Done
    <3> QED
      BY <3>1, <1>q DEF Together, LastDone
  <2>5. LastDay' /\ ~divided'
    BY <1>q, <2>1 DEF Together, LastDay
  <2> QED
    BY <1>q, <2>1, <2>2, <2>3, <2>4, <2>5 DEF Together
<1>0. CASE UNCHANGED vars
  <2>1. /\ crashes = 0 /\ clears = 0 /\ ~spill
        /\ UNCHANGED <<hourPtr, hour, datePtr, date, slot, prev, now, downs, divided, pc>>
    BY <1>0, Zenon DEF vars
  <2>2. Together
    BY <2>1, Zenon DEF SharedInv
  <2> QED
    BY <2>1, <2>2, <1>q
<1>1. CASE ClearStart
  BY <1>1, <1>t DEF ClearStart
<1>2. CASE UpDown
  <2>1. /\ crashes = 0 /\ clears = 0 /\ ~spill
        /\ UNCHANGED <<hourPtr, hour, datePtr, date, slot, prev, now, downs, divided, pc>>
    BY <1>2, Zenon DEF UpDown, eeprom
  <2>2. Together
    BY <2>1, Zenon DEF SharedInv
  <2> QED
    BY <2>1, <2>2, <1>q
<1>3. CASE Tick
  <2>1. crashes = 0 /\ clears = 0 /\ ~spill
    BY <1>3, Zenon DEF Tick
  <2>2. Together
    BY <2>1, Zenon DEF SharedInv
  <2> QED
    BY <2>1, <2>2, <1>3, <1>t, SharedTick DEF AloneInv
<1>4. CASE Crash
  BY <1>4, <1>t DEF Crash
<1>7. ASSUME NEW t \in Tasks, DivideByZero(t) PROVE FALSE
  <2>1. /\ crashes = 0 /\ clears = 0 /\ ~spill /\ pc[t] = "avg" /\ getHourDataLength = 0
    BY <1>7, Zenon DEF DivideByZero, Restart
  <2>2. t \in Online
    BY <2>1 DEF TypeInv, Programs, ClearSteps, Tasks
  <2>3. Together
    BY <2>1, Zenon DEF SharedInv
  <2>4. hourPtr # None /\ hourPtr \in HourIdx
    BY <2>1, <2>2, <2>3 DEF Together, Sharing, LastRecent
  <2> QED
    BY <2>1, <2>4, WarehouseAssumption DEF getHourDataLength, Next8, HourIdx
<1>5. ASSUME NEW t \in Tasks, Runs(t) PROVE Together'
  <2>1. crashes = 0 /\ clears = 0 /\ pc[t] # "off"
    BY <1>5, Moves
  <2>2. t \in Online
    BY <2>1 DEF AloneInv, Regimes, Tasks
  <2>3. ~spill
    BY <1>5, <2>2, Writers
  <2>4. Together
    BY <2>1, <2>3, Zenon DEF SharedInv
  <2> QED
    BY <2>2, <2>4, <1>5, <1>t, SharedRuns
<1>6. ASSUME NEW t \in Tasks, GotIp(t) PROVE Together'
  <2>1. /\ crashes = 0 /\ clears = 0 /\ ~spill /\ pc' = [pc EXCEPT ![t] = "start"]
        /\ UNCHANGED <<hourPtr, hour, datePtr, date, slot, prev, now, downs, divided>>
    BY <1>6, Zenon DEF GotIp, eeprom, Go
  <2>2. Together
    BY <2>1, Zenon DEF SharedInv
  <2>3. \A u \in Online : pc'[u] \in {pc[u], "start"}
    BY <2>1, <1>t, <1>k
  <2> QED
    BY <2>1, <2>2, <2>3, <1>q
<1> QED
  BY Actions, <1>0, <1>1, <1>2, <1>3, <1>4, <1>5, <1>6, <1>7, Zenon DEF Runs, Halts

\* No task averages over an emptied hour list, and when every task has gone back
\* to waiting, the appends, cut off by restarts or interleaved, have left this
\* hour as the last hour record and this day as the last date record, if the
\* modules are never away for a whole day.
THEOREM SettledCorrect == ASSUME BriefOutage PROVE Spec => []Settled
<1>1. Init => AreaInv /\ SharedInv
  BY TypeInit, AloneInit, RingInit, HourInit, SharedInit DEF AreaInv
<1>2. AreaInv /\ SharedInv /\ [Next]_vars => AreaInv' /\ SharedInv'
  BY TypeStep, AloneStep, RingStep, HourStep, SharedStep DEF AreaInv
<1>3. AreaInv /\ SharedInv => Settled
  <2>5. AreaInv /\ SharedInv /\ clears = 0 /\ ~spill => ~divided
    <3>1. AreaInv /\ crashes # 0 => ~shared /\ downs = 0
      BY DEF AreaInv, AloneInv, Regimes, TypeInv, TypeOK
    <3> QED
      BY <3>1, Zenon DEF AreaInv, HourInv, SharedInv, Together
  <2> SUFFICES ASSUME AreaInv, SharedInv, Waiting, clears = 0, ~spill
               PROVE  HourRecorded /\ isLastDateDataToday
    BY <2>5, Zenon DEF Settled
  <2>1. PICK t \in Online : pc[t] # "off"
    BY DEF Waiting
  <2>2. \A u \in Online : Done(u)
    BY DEF Waiting, Noticed, Done, Tasks
  <2>3. CASE crashes = 0
    BY <2>1, <2>2, <2>3 DEF SharedInv, Together, LastDone
  <2>4. CASE crashes # 0
    <3>1. ~shared /\ downs = 0
      BY <2>4 DEF AreaInv, AloneInv, Regimes, TypeInv, TypeOK
    <3>2. HourList /\ Recording(t)
      BY <3>1, Zenon DEF AreaInv, HourInv
    <3>3. pc[t] = "loop" /\ prev[t] = Hr
      BY <2>1 DEF Waiting, Noticed, Tasks
    <3>4. Hr \in HourIdx /\ None \notin HourIdx
      BY HourTypes, WarehouseAssumption DEF AreaInv, TypeInv, None, HourIdx
    <3>5. hourPtr # None
      BY <3>2, <3>3, <3>4 DEF Recording
    <3>6. isLastDateDataToday /\ hour[hourPtr].hr = Hr
      BY <3>2, <3>3, <3>5 DEF Recording
    <3>7. hourPtr \in HourIdx /\ hour[hourPtr].day = date[datePtr].day
      BY <3>2, <3>5 DEF HourList, HourIdx, AreaInv, TypeInv, TypeOK
    <3>8. hour[hourPtr] = [hr |-> Hr, day |-> Today]
      BY <3>6, <3>7 DEF isLastDateDataToday, AreaInv, TypeInv, TypeOK
    <3> QED
      BY <3>6, <3>7, <3>8 DEF HourRecorded
  <2> QED
    BY <2>3, <2>4
<1> QED
  BY <1>1, <1>2, <1>3, PTL DEF Spec

=============================================================================
