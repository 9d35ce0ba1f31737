------------------------------ MODULE Warehouse ------------------------------
(***************************************************************************)
(* The current history in the I2C EEPROM (main/CoreBridge/Warehouse.cpp)   *)
(* and the tasks that write it: onlinePeriodicTask() (Perioder.cpp), one   *)
(* more of which is created by every IP_EVENT_STA_GOT_IP, and              *)
(* clearWarehouseData(), created by a factory reset.                       *)
(*                                                                         *)
(* Every EEPROM write blocks its task for 10 ms, so other tasks run        *)
(* between any two writes and power may be lost there: one action writes   *)
(* one field.  The bytes of a field are not told apart.  Head pointers are *)
(* uint8_t; 255 stands for an empty list and wraps to 0.  Values of the    *)
(* current are abstracted to how they were computed.  The cycle counter,   *)
(* which no code reads, is left out.                                       *)
(*                                                                         *)
(* Time is an hour count.  An hour is long against everything a task does: *)
(* it passes only when every task that may run has noticed the current     *)
(* one (a task sleeps five minutes at most).                               *)
(***************************************************************************)
EXTENDS Integers, Sequences

CONSTANTS
  Hours,     \* hours of a day and size of the hour area in records: 24
  DateNum,   \* EEPROM_DATE_RECORD_NUM: 31
  Online,    \* the instances of onlinePeriodicTask() that may be created
  Clear,     \* the task clearWarehouseData()
  MaxDays,   \* bound on time
  MaxShared, \* bound on time once two tasks have run, or modules been away
  MaxCrash,  \* bound on restarts
  MaxDown,   \* bound on hours that pass while no module is initialized
  MaxClear   \* bound on factory resets

ASSUME WarehouseAssumption ==
  /\ Hours \in 2..254 /\ DateNum \in 2..254
  /\ Clear \notin Online
  /\ MaxDays \in Nat \ {0} /\ MaxShared \in 0..MaxDays
  /\ MaxCrash \in Nat /\ MaxDown \in Nat /\ MaxClear \in Nat

Tasks == Online \cup {Clear}
None  == 255

\* Slip: the designated pointer is an int.
Next8_Int(ptr) == ptr + 1

Next8(ptr) == (ptr + 1) % 256

VARIABLES
  hourPtr,  \* EEPROM_HOUR_HEAD_PTR
  hour,     \* the hour area: records [hr, day]; day is a history field
  datePtr,  \* EEPROM_DATE_HEAD_PTR
  date,     \* the date area: records [day, avg], day = 0 is a year of 0
  now,      \* hours since the first day
  up,       \* system_status.module_initialized
  pc,       \* where each task is
  slot,     \* the designated pointer of each task's append
  prev,     \* each task's previousHr
  spill,    \* history: an hour record was written outside the hour area
  shared,   \* history: there was a second task that writes the EEPROM
  divided,  \* history: an average was divided by zero
  crashes, downs, clears  \* the counters behind the three bounds

vars == <<hourPtr, hour, datePtr, date, now, up, pc, slot, prev, spill,
          shared, divided, crashes, downs, clears>>
eeprom == <<hourPtr, hour, datePtr, date>>
env    == <<now, up, shared, divided, crashes, downs, clears>>

Hr    == now % Hours
Today == 1 + now \div Hours
Days  == 0..MaxDays
HourIdx == 0..(Hours - 1)
DateIdx == 0..(DateNum - 1)

\* "open" is the 0 a date record is appended with, "sum" the sum of the hour
\* records divided by a day's hours, "mean" that divided by their number.
Averages == {"open", "sum", "mean"}

\* The steps of onlinePeriodicTask() before its loop, in its loop, and those
\* of clearWarehouseData().
Steps == {"off", "start", "sum", "reset0", "date0", "dptr0", "prev",
          "loop", "reset", "check", "date", "dptr", "hour", "hptr", "avg",
          "format1", "format2", "format3", "hourC", "hptrC", "dateC", "dptrC"}

TypeOK ==
  /\ hourPtr \in 0..255 /\ datePtr \in 0..255
  /\ hour \in [HourIdx -> [hr : HourIdx, day : Days]]
  /\ date \in [DateIdx -> [day : Days, avg : Averages]]
  /\ now \in 0..(MaxDays * Hours - 1)
  /\ up \in BOOLEAN /\ spill \in BOOLEAN /\ shared \in BOOLEAN /\ divided \in BOOLEAN
  /\ pc \in [Tasks -> Steps]
  /\ slot \in [Tasks -> 0..255]
  /\ prev \in [Tasks -> HourIdx \cup {None}]
  /\ crashes \in 0..MaxCrash /\ downs \in 0..MaxDown /\ clears \in 0..MaxClear

-----------------------------------------------------------------------------
(* Reading the EEPROM *)

getHourDataLength == Next8(hourPtr)

\* A last record with a year says that the ring was filled once.
getDateDataLength ==
  IF Next8(datePtr) < DateNum /\ date[DateNum - 1].day > 0 THEN DateNum
  ELSE Next8(datePtr)

isLastDateDataToday == datePtr < DateNum /\ date[datePtr].day = Today

\* Slip: the end of the ring is not looked for.
NextDate_Endless == Next8(datePtr)

NextDate == LET n == Next8(datePtr) IN IF n = DateNum THEN 0 ELSE n

\* The records of the date report, in its order.
parseDateDatainJson ==
  (IF getDateDataLength = DateNum /\ datePtr < DateNum
   THEN [i \in 1..(DateNum - 1 - datePtr) |-> datePtr + i] ELSE <<>>)
  \o (IF getDateDataLength > 0 THEN [i \in 1..(datePtr + 1) |-> i - 1] ELSE <<>>)

-----------------------------------------------------------------------------
\* formatZero() was done in production; nothing runs yet.
Init ==
  /\ hourPtr = None /\ datePtr = None
  /\ hour = [i \in HourIdx |-> [hr |-> 0, day |-> 0]]
  /\ date = [i \in DateIdx |-> [day |-> 0, avg |-> "open"]]
  /\ now = 0 /\ up = TRUE
  /\ pc = [t \in Tasks |-> "off"]
  /\ slot = [t \in Tasks |-> 0]
  /\ prev = [t \in Tasks |-> None]
  /\ spill = FALSE /\ shared = FALSE /\ divided = FALSE
  /\ crashes = 0 /\ downs = 0 /\ clears = 0

Go(t, step) == pc' = [pc EXCEPT ![t] = step]
Rest == UNCHANGED <<slot, prev, spill, env>>

\* A step that only decides where to go on.
Test(t, from, step) ==
  /\ pc[t] = from /\ Go(t, step)
  /\ UNCHANGED eeprom /\ Rest

-----------------------------------------------------------------------------
(* appendDateRecord() and appendHourlyRecord() *)

After(step) ==
  CASE step = "date0" -> "dptr0" [] step = "date" -> "dptr" [] step = "dateC" -> "dptrC"
    [] step = "dptr0" -> "prev"  [] step = "dptr" -> "hour" [] step = "dptrC" -> "off"
    [] step = "hour"  -> "hptr"  [] step = "hourC" -> "hptrC"
    [] step = "hptr" -> IF Hr = Hours - 1 THEN "avg" ELSE "loop"
    [] step = "hptrC" -> "dateC"

DateWrite(t) ==
  /\ pc[t] \in {"date0", "date", "dateC"} /\ Go(t, After(pc[t]))
  /\ slot' = [slot EXCEPT ![t] = NextDate]
  /\ date' = IF NextDate \in DateIdx
             THEN [date EXCEPT ![NextDate] = [day |-> Today, avg |-> "open"]]
             ELSE date
  /\ UNCHANGED <<hourPtr, hour, datePtr, prev, spill, env>>

DatePtr(t) ==
  /\ pc[t] \in {"dptr0", "dptr", "dptrC"} /\ Go(t, After(pc[t]))
  /\ datePtr' = slot[t]
  /\ UNCHANGED <<hourPtr, hour, date>> /\ Rest

\* Beyond the hour area the three bytes of an hour record fall into the date
\* area, whose records have five: whether they leave a date there, and today's,
\* is left open.
HourWrite(t) ==
  /\ pc[t] \in {"hour", "hourC"} /\ Go(t, After(pc[t]))
  /\ slot' = [slot EXCEPT ![t] = Next8(hourPtr)]
  /\ LET n == Next8(hourPtr)
         hit == (3 * (n - Hours)) \div 5
     IN IF n < Hours
        THEN /\ hour' = [hour EXCEPT ![n] = [hr |-> Hr, day |-> Today]]
             /\ UNCHANGED <<date, spill>>
        ELSE /\ IF hit \in DateIdx THEN \E d \in {0, Today} : date' = [date EXCEPT ![hit].day = d]
                ELSE UNCHANGED date
             /\ spill' = TRUE
             /\ UNCHANGED hour
  /\ UNCHANGED <<hourPtr, datePtr, prev, env>>

\* After the append the loop remembers the hour, unless it has to sum up first.
HourPtr(t) ==
  /\ pc[t] \in {"hptr", "hptrC"} /\ Go(t, After(pc[t]))
  /\ hourPtr' = slot[t]
  /\ prev' = IF pc[t] = "hptr" THEN [prev EXCEPT ![t] = Hr] ELSE prev
  /\ UNCHANGED <<hour, datePtr, date, slot, spill, env>>

-----------------------------------------------------------------------------
(* onlinePeriodicTask() *)

Start(t) ==
  Test(t, "start", IF getDateDataLength > 0 /\ ~isLastDateDataToday THEN "sum" ELSE "prev")

\* The average goes to the last date record, if the pointer designates one.  The
\* one at the start divides by the hours of a day, that of the last hour by the
\* number of records.
Average(t) ==
  /\ \/ pc[t] = "sum" /\ Go(t, "reset0")
     \/ pc[t] = "avg" /\ Go(t, "loop") /\ getHourDataLength > 0
  /\ date' = IF datePtr \in DateIdx
             THEN [date EXCEPT ![datePtr].avg = IF pc[t] = "sum" THEN "sum" ELSE "mean"]
             ELSE date
  /\ UNCHANGED <<hourPtr, hour, datePtr>> /\ Rest

\* All tasks are gone; the EEPROM stays.
Restart ==
  /\ pc' = [t \in Tasks |-> "off"]
  /\ slot' = [t \in Tasks |-> 0]
  /\ prev' = [t \in Tasks |-> None]
  /\ UNCHANGED <<eeprom, spill, now, up>>

\* Another task emptied the hour list since this one's append: the division by
\* its length is an exception, and the panic handler restarts the program.
DivideByZero(t) ==
  /\ pc[t] = "avg" /\ getHourDataLength = 0
  /\ Restart
  /\ divided' = TRUE
  /\ UNCHANGED <<shared, crashes, downs, clears>>

\* Slip: the hour records of the day before stay.
ResetHours_Dropped(t) ==
  /\ pc[t] \in {"reset0", "reset"}
  /\ Go(t, IF pc[t] = "reset0" THEN "date0" ELSE "check")
  /\ UNCHANGED eeprom /\ Rest

ResetHours(t) ==
  /\ pc[t] \in {"reset0", "reset"}
  /\ Go(t, IF pc[t] = "reset0" THEN "date0" ELSE "check")
  /\ hourPtr' = None
  /\ UNCHANGED <<hour, datePtr, date>> /\ Rest

\* Slip: the loop starts from the current hour.
Previous_Now(t) ==
  /\ pc[t] = "prev" /\ Go(t, "loop")
  /\ prev' = [prev EXCEPT ![t] = Hr]
  /\ UNCHANGED <<eeprom, slot, spill, env>>

\* previousHr is the hour of the last record; an address outside the hour
\* area may hold anything.
Previous(t) ==
  /\ pc[t] = "prev" /\ Go(t, "loop")
  /\ \E h \in HourIdx \cup {None} :
       /\ hourPtr = None => h = None
       /\ hourPtr \in HourIdx => h = hour[hourPtr].hr
       /\ prev' = [prev EXCEPT ![t] = h]
  /\ UNCHANGED <<eeprom, slot, spill, env>>

Loop(t)  == up /\ Hr # prev[t] /\ Test(t, "loop", IF Hr = 0 THEN "reset" ELSE "check")

\* Slip: every hour appends a date record.
Check_EveryHour(t) == Test(t, "check", "date")

\* Slip: only an empty list gets a date record.
Check_EmptyOnly(t) == Test(t, "check", IF datePtr # None THEN "hour" ELSE "date")

Check(t) == Test(t, "check", IF isLastDateDataToday THEN "hour" ELSE "date")

-----------------------------------------------------------------------------
(* clearWarehouseData() *)

Format(t) ==
  /\ \/ /\ pc[t] = "format1" /\ Go(t, "format2")
        /\ hourPtr' = None /\ UNCHANGED <<datePtr, date>>
     \/ /\ pc[t] = "format2" /\ Go(t, "format3")
        /\ datePtr' = None /\ UNCHANGED <<hourPtr, date>>
     \/ /\ pc[t] = "format3" /\ Go(t, "hourC")
        /\ date' = [date EXCEPT ![DateNum - 1] = [day |-> 0, avg |-> "open"]]
        /\ UNCHANGED <<hourPtr, datePtr>>
  /\ UNCHANGED hour /\ Rest

-----------------------------------------------------------------------------
(* What happens around the tasks *)

\* Somebody else writes the EEPROM at the same time; bounded in time, and not
\* combined with restarts.
Shares ==
  /\ shared' = TRUE
  /\ crashes = 0 /\ now < MaxShared * Hours

\* The station gets an address: one more periodic task.
GotIp(t) ==
  /\ t \in Online /\ pc[t] = "off" /\ Go(t, "start")
  /\ \/ (\A o \in Tasks : pc[o] = "off") /\ UNCHANGED shared
     \/ (\E o \in Tasks : pc[o] # "off") /\ Shares
  /\ UNCHANGED <<eeprom, slot, prev, spill, now, up, divided, crashes, downs, clears>>

\* A factory reset.
ClearStart ==
  /\ pc[Clear] = "off" /\ clears < MaxClear
  /\ clears' = clears + 1
  /\ Shares
  /\ Go(Clear, "format1")
  /\ UNCHANGED <<eeprom, slot, prev, spill, now, up, divided, crashes, downs>>

\* A link round is in progress or the modules stopped in its middle; back.  Not
\* combined with restarts: together they could leave out a whole day, whose end
\* the loop would take for the hour it remembers.
UpDown ==
  /\ up' = ~up
  /\ up => downs < MaxDown /\ crashes = 0 /\ now < MaxShared * Hours
  /\ UNCHANGED <<eeprom, pc, slot, prev, spill, shared, divided, now, crashes, downs, clears>>

Noticed(t) == pc[t] = "off" \/ (pc[t] = "loop" /\ (up => prev[t] = Hr))

Tick ==
  /\ now < (IF shared \/ ~up \/ downs > 0 THEN MaxShared ELSE MaxDays) * Hours - 1
  /\ \A t \in Tasks : Noticed(t)
  /\ IF up THEN UNCHANGED downs ELSE downs < MaxDown /\ downs' = downs + 1
  /\ now' = now + 1
  /\ UNCHANGED <<eeprom, up, pc, slot, prev, spill, shared, divided, crashes, clears>>

\* A restart or power loss between two writes.  The modules are linked again
\* and the station gets an address some time later.
Crash ==
  /\ crashes < MaxCrash /\ ~shared /\ up /\ downs = 0
  /\ crashes' = crashes + 1
  /\ Restart
  /\ UNCHANGED <<shared, divided, downs, clears>>

Step(t) ==
  \/ DateWrite(t) \/ DatePtr(t) \/ HourWrite(t) \/ HourPtr(t)
  \/ Start(t) \/ Average(t) \/ DivideByZero(t) \/ ResetHours(t) \/ Previous(t) \/ Loop(t) \/ Check(t)
  \/ Format(t) \/ GotIp(t)

Next == (\E t \in Tasks : Step(t)) \/ ClearStart \/ UpDown \/ Tick \/ Crash

Spec == Init /\ [][Next]_vars

-----------------------------------------------------------------------------
(* Properties *)

\* The date report never lists a day twice nor out of order, whichever write a
\* restart cuts off and however often the ring wrapped, but for the one record
\* that a cut off append began to overwrite.
Chronological ==
  LET report == parseDateDatainJson IN
  \A i, j \in 1..Len(report) :
    i < j /\ NextDate \notin {report[i], report[j]} =>
      date[report[i]].day < date[report[j]].day

\* "Restart Daily Current Record": the hour records all belong to the day of
\* the last date record.
HoursDaily ==
  \A i \in HourIdx : i < getHourDataLength /\ datePtr \in DateIdx =>
    hour[i].day = date[datePtr].day

\* As long as one task writes the EEPROM its lists stay in order, through restarts
\* between any two writes, and the hours of one day, unless the first hour of a
\* day passed without modules: only that hour restarts the record.
LogOrdered == ~shared /\ ~spill => Chronological /\ (downs = 0 => HoursDaily)

\* The lists stay in the space the memory map gives them: the hour list as long
\* as one task writes it and no first hour of a day passes without modules, with
\* restarts anywhere; the date ring whatever tasks append at the same time, and
\* factory resets among them.
AreasKept ==
  /\ TypeOK
  /\ datePtr \in DateIdx \cup {None}
  /\ ~shared /\ downs = 0 => ~spill /\ (hourPtr = None \/ hourPtr < Hours)

HourRecorded == hourPtr \in HourIdx /\ hour[hourPtr] = [hr |-> Hr, day |-> Today]

Waiting == up /\ (\A t \in Tasks : Noticed(t)) /\ (\E t \in Online : pc[t] # "off")

\* Unless the hour area is full or a factory reset has been among them, no task
\* averages over an emptied hour list, and when every task has gone back to
\* waiting, the appends, cut off by restarts or interleaved, have left this hour
\* as the last hour record and this day as the last date record ("Appened Today's
\* Date Record if Not Existed").
Settled ==
  clears = 0 /\ ~spill => ~divided /\ (Waiting => HourRecorded /\ isLastDateDataToday)
=============================================================================
