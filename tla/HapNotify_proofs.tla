-------------------------- MODULE HapNotify_proofs --------------------------
(***************************************************************************)
(* Proofs about HapNotify, for every number of connections,                *)
(* characteristics, slots, reports and requests and every length of the    *)
(* two queues.  The inductive invariants are built in layers; a later one  *)
(* uses those above it:                                                    *)
(*   TypeInv     types, and that wake-ups never outnumber the reports;     *)
(*   TableInv    one slot per connection, subscriptions of the connected;  *)
(*   EarnedInv   the owner marks, those a GET may yet take away included;  *)
(*   OnceInv     the announcements;                                        *)
(*   Delivered   the events, with the wake-ups that carry them.            *)
(***************************************************************************)
EXTENDS HapNotify, SequenceTheorems, WellFoundedInduction, TLAPS

\* The queues of characteristics: the empty one, and one with an entry more.
LEMMA EmptyQueue ==
  ASSUME NEW S, NEW n \in Nat
  PROVE  <<>> \in BoundedSeq(S, n) /\ Range(<<>>) = {}
<1>1. <<>> \in [1..0 -> S]
  OBVIOUS
<1>2. 0 \in 0..n
  OBVIOUS
<1>3. <<>> \in BoundedSeq(S, n)
  BY <1>1, <1>2 DEF BoundedSeq, SeqOf
<1>4. DOMAIN <<>> = {}
  OBVIOUS
<1>5. Range(<<>>) = {}
  BY <1>4, Zenon DEF Range
<1> QED
  BY <1>3, <1>5

\* A bounded queue is a sequence.
LEMMA QueueSeq ==
  ASSUME NEW S, NEW n \in Nat, NEW q \in BoundedSeq(S, n)
  PROVE  q \in Seq(S) /\ Len(q) \in 0..n /\ DOMAIN q = 1..Len(q) /\ Range(q) \subseteq S
<1>1. PICK m \in 0..n : q \in [1..m -> S]
  BY DEF BoundedSeq, SeqOf
<1>2. m \in Nat /\ Len(q) = m /\ q \in Seq(S)
  BY <1>1
<1> QED
  BY <1>1, <1>2 DEF Range

\* hap_queue_event() with room: the queue holds one characteristic more.
LEMMA QueueAppend ==
  ASSUME NEW S, NEW n \in Nat, NEW q \in BoundedSeq(S, n), Len(q) < n, NEW x \in S
  PROVE  /\ Append(q, x) \in BoundedSeq(S, n)
         /\ Range(Append(q, x)) = Range(q) \cup {x}
<1>1. q \in Seq(S) /\ Len(q) \in 0..n /\ DOMAIN q = 1..Len(q)
  BY QueueSeq
<1> DEFINE r == Append(q, x)
<1>2. r \in [1..(Len(q) + 1) -> S]
  <2>1. r \in Seq(S) /\ Len(r) = Len(q) + 1
    BY <1>1, AppendProperties
  <2> QED
    BY <2>1, LenProperties
<1>3. Len(q) + 1 \in 0..n
  BY <1>1
<1>4. r \in BoundedSeq(S, n)
  BY <1>2, <1>3 DEF BoundedSeq, SeqOf
<1>5. /\ DOMAIN r = 1..(Len(q) + 1)
      /\ \A i \in DOMAIN q : i \in DOMAIN r /\ r[i] = q[i]
      /\ \A i \in DOMAIN r : i \in DOMAIN q \/ i = Len(q) + 1
      /\ r[Len(q) + 1] = x /\ Len(q) + 1 \in DOMAIN r
  BY <1>1
<1>6. Range(r) = Range(q) \cup {x}
  <2> HIDE DEF r
  <2> QED
    BY <1>5 DEF Range
<1> QED
  BY <1>4, <1>6

-----------------------------------------------------------------------------
(* Types *)

\* The wake-ups on their way, a trigger not yet sent included, each stand for
\* a report.
Wakeups == works + triggers + (IF upd = Idle THEN 0 ELSE 1)
TypeInv == TypeOK /\ Wakeups <= reports

Gets == [op : {"get"}, conn : Conns, todo : SUBSET Chars, cur : Chars \cup {None}]
Notifies ==
  [op : {"notify"}, arr : BoundedSeq(Chars, MaxNotif), turn : 1..(NumSlots + 1), met : BOOLEAN]

\* What the HTTP server is doing, by its kind.
LEMMA HttpKinds ==
  ASSUME http \in Https
  PROVE  /\ http.op = "get" => http \in Gets
         /\ http.op = "notify" => http \in Notifies
         /\ http = Idle => http.op = "idle"
         /\ Gets \subseteq Https /\ Notifies \subseteq Https /\ Idle \in Https
BY DEF Https, Gets, Notifies, Idle

\* hap_get_ctrl_session_index() returns a slot or none.
LEMMA IndexType == \A s : Index(s) \in 0..NumSlots
BY HapNotifyAssumption DEF Index, Slots

\* At the start the types hold.
LEMMA TypeInit == Init => TypeInv
<1>1. <<>> \in BoundedSeq(Chars, MaxNotif)
  BY EmptyQueue, HapNotifyAssumption
<1> SUFFICES ASSUME Init PROVE TypeInv
  OBVIOUS
<1>2. pending \in BoundedSeq(Chars, MaxNotif)
  BY <1>1 DEF Init
<1>3. Wakeups <= reports
  BY DEF Init, Wakeups
<1>4. /\ slot \in [Slots -> live \cup {None}]
      /\ val \in [Chars -> BOOLEAN] /\ called \in [Chars -> BOOLEAN]
      /\ ev \in [Chars -> SUBSET Slots] /\ owner \in [Chars -> 0..NumSlots]
      /\ subs \in [Conns -> SUBSET Chars] /\ owed \in [Conns -> SUBSET Chars]
  BY HapNotifyAssumption DEF Init
<1>5. /\ live \subseteq Conns /\ lost \subseteq Chars /\ earned \subseteq Chars
      /\ triggers \in 0..LoopLen /\ works \in 0..MaxReports /\ bumps \in Nat
      /\ reports \in 0..MaxReports /\ requests \in 0..MaxRequests
      /\ upd = Idle
  BY HapNotifyAssumption DEF Init
<1>6. announced \in BOOLEAN
  BY DEF Init
<1>7. http \in Https
  BY DEF Init, Https
<1> QED
  BY <1>2, <1>3, <1>4, <1>5, <1>6, <1>7 DEF TypeInv, TypeOK

\* A step of the system is a step of one of its actions.
LEMMA Actions ==
  ASSUME [Next]_vars
  PROVE  \/ UNCHANGED vars
         \/ \E c \in Chars, v \in BOOLEAN : Report(c, v)
         \/ Changed \/ Same \/ Queue \/ Trigger \/ Forward
         \/ \E s \in Conns : Verify(s) \/ Close(s)
         \/ \E s \in Conns, cs \in SUBSET Chars, on \in BOOLEAN : PutEvents(s, cs, on)
         \/ \E s \in Conns, cs \in SUBSET Chars : PutValues(s, cs) \/ GetBegin(s, cs)
         \/ \E c \in Chars : GetCheck(c)
         \/ GetRead \/ NotifyBegin \/ NotifySlot \/ NotifyEnd
<1>1. ASSUME NEW s \in Conns, Requests(s)
      PROVE  \/ Verify(s) \/ Close(s)
             \/ \E cs \in SUBSET Chars, on \in BOOLEAN : PutEvents(s, cs, on)
             \/ \E cs \in SUBSET Chars : PutValues(s, cs) \/ GetBegin(s, cs)
  <2>1. ASSUME NEW c \in Chars, GetBegin(s, {c})
        PROVE  \E cs \in SUBSET Chars : GetBegin(s, cs)
    <3>1. {c} \in SUBSET Chars
      OBVIOUS
    <3> QED
      BY <2>1, <3>1, Zenon
  <2>2. CharSets \subseteq SUBSET Chars
    BY DEF CharSets
  <2> QED
    BY <1>1, <2>1, <2>2, Zenon DEF Requests, GetService
<1> QED
  BY <1>1, Zenon DEF Next, Update, GetStep, NotifyStep

\* Every action keeps the types, and sends no wake-up without a report.
LEMMA TypeStep == TypeInv /\ [Next]_vars => TypeInv'
<1> SUFFICES ASSUME TypeInv, [Next]_vars PROVE TypeInv'
  OBVIOUS
<1> USE DEF TypeInv, TypeOK, Wakeups, table, chars, queues, hist
<1>0. CASE UNCHANGED vars
  BY <1>0 DEF vars
<1>1. ASSUME NEW c \in Chars, NEW v \in BOOLEAN, Report(c, v) PROVE TypeInv'
  BY <1>1, HapNotifyAssumption DEF Report, Idle
<1>2. CASE Changed
  BY <1>2 DEF Changed, Idle
<1>3. CASE Same
  BY <1>3, HapNotifyAssumption DEF Same, Idle
<1>4. CASE Queue
  <2>1. pending' \in BoundedSeq(Chars, MaxNotif)
    <3>1. CASE Len(pending) < MaxNotif
      <4>1. upd.char \in Chars
        BY <1>4 DEF Queue, Idle
      <4> QED
        <5>1. pending' = Append(pending, upd.char)
          BY <1>4, <3>1, HapNotifyAssumption DEF Queue
        <5>2. pending \in BoundedSeq(Chars, MaxNotif) /\ MaxNotif \in Nat
          BY HapNotifyAssumption
        <5> QED
          BY <3>1, <4>1, <5>1, <5>2, QueueAppend
    <3>2. CASE Len(pending) = MaxNotif
      BY <1>4, <3>2, HapNotifyAssumption DEF Queue
    <3> QED
      BY <1>4, <3>1, <3>2 DEF Queue
  <2>2. upd' = Idle \/ upd' = [upd EXCEPT !.op = "trigger"]
    BY <1>4 DEF Queue
  <2>3. upd # Idle /\ upd.char \in Chars
    BY <1>4 DEF Queue, Idle
  <2>4. upd' \in {Idle} \cup [op : {"compare", "queue", "trigger"}, char : Chars, new : BOOLEAN]
    BY <2>2, <2>3
  <2>5. lost' \subseteq Chars
    BY <1>4, <2>3 DEF Queue
  <2> QED
    BY <1>4, <2>1, <2>3, <2>4, <2>5 DEF Queue
<1>5. CASE Trigger
  BY <1>5, HapNotifyAssumption DEF Trigger, Idle
<1>6. CASE Forward
  BY <1>6, HapNotifyAssumption DEF Forward
<1>7. ASSUME NEW s \in Conns, Verify(s) PROVE TypeInv'
  <2>1. slot' \in [Slots -> live' \cup {None}]
    BY <1>7 DEF Verify
  <2>2. announced' \in BOOLEAN
    BY <1>7, Zenon DEF Verify
  <2>4. bumps' \in Nat
    BY <1>7 DEF Verify
  <2>3. live' \subseteq Conns /\ requests' \in 0..MaxRequests
    BY <1>7, HapNotifyAssumption DEF Verify, Request
  <2> QED
    BY <1>7, <2>1, <2>2, <2>3, <2>4 DEF Verify
<1>8. ASSUME NEW s \in Conns, Close(s) PROVE TypeInv'
  BY <1>8 DEF Close
<1>9. ASSUME NEW s \in Conns, NEW cs \in SUBSET Chars, NEW on \in BOOLEAN, PutEvents(s, cs, on)
      PROVE  TypeInv'
  BY <1>9, IndexType, HapNotifyAssumption DEF PutEvents, Request, Slots
<1>10. ASSUME NEW s \in Conns, NEW cs \in SUBSET Chars, PutValues(s, cs) PROVE TypeInv'
  BY <1>10, IndexType, HapNotifyAssumption DEF PutValues, Request
<1>11. ASSUME NEW s \in Conns, NEW cs \in SUBSET Chars, GetBegin(s, cs) PROVE TypeInv'
  <2>1. http' \in Gets
    BY <1>11 DEF GetBegin, Gets
  <2>2. http' \in Https
    BY <2>1, Zenon DEF Https, Gets
  <2>3. owner' \in [Chars -> 0..NumSlots] /\ called' \in [Chars -> BOOLEAN]
    BY <1>11, IndexType DEF GetBegin
  <2> QED
    BY <1>11, <2>2, <2>3, HapNotifyAssumption DEF GetBegin, Request
<1>12. ASSUME NEW c \in Chars, GetCheck(c) PROVE TypeInv'
  <2>1. http \in Gets
    BY <1>12, HttpKinds DEF GetCheck
  <2>2. http' \in Gets
    BY <1>12, <2>1 DEF GetCheck, Gets
  <2>3. http' \in Https
    BY <2>2, HttpKinds
  <2>4. owner' \in [Chars -> 0..NumSlots] /\ called' \in [Chars -> BOOLEAN]
    BY <1>12, HapNotifyAssumption DEF GetCheck
  <2>5. earned' \subseteq Chars
    BY <1>12 DEF GetCheck
  <2> QED
    BY <1>12, <2>3, <2>4, <2>5 DEF GetCheck
<1>13. CASE GetRead
  <2>1. http \in Gets
    BY <1>13, HttpKinds DEF GetRead
  <2>2. http' = Idle \/ http' \in Gets
    BY <1>13, <2>1 DEF GetRead, Gets
  <2>3. http' \in Https
    BY <2>2, HttpKinds
  <2>4. owed' \in [Conns -> SUBSET Chars]
    BY <1>13, <2>1 DEF GetRead, Gets
  <2> QED
    BY <1>13, <2>3, <2>4 DEF GetRead
<1>14. CASE NotifyBegin
  <2>1. pending' \in BoundedSeq(Chars, MaxNotif)
    BY <1>14, EmptyQueue, HapNotifyAssumption DEF NotifyBegin
  <2>2. http' = http \/ http' \in Notifies
    <3>1. \/ http' = http
          \/ http' = [op |-> "notify", arr |-> pending, turn |-> 1, met |-> FALSE]
      BY <1>14, Zenon DEF NotifyBegin
    <3>2. 1 \in 1..(NumSlots + 1) /\ pending \in BoundedSeq(Chars, MaxNotif)
      BY HapNotifyAssumption
    <3>3. [op |-> "notify", arr |-> pending, turn |-> 1, met |-> FALSE] \in Notifies
      BY <3>2 DEF Notifies
    <3> QED
      BY <3>1, <3>3, Zenon
  <2>3. http' \in Https
    BY <2>2, HttpKinds
  <2>4. works' \in 0..MaxReports /\ works' <= works
    BY <1>14, HapNotifyAssumption DEF NotifyBegin
  <2>5. lost' \subseteq Chars
    BY <1>14 DEF NotifyBegin
  <2> QED
    BY <1>14, <2>1, <2>3, <2>4, <2>5 DEF NotifyBegin
<1>15. CASE NotifySlot
  <2>1. http \in Notifies /\ http.turn \in Slots
    BY <1>15, HttpKinds DEF NotifySlot
  <2>2. http' \in Notifies
    <3>1. http.turn + 1 \in 1..(NumSlots + 1)
      BY <2>1, HapNotifyAssumption DEF Slots
    <3>2. \/ http' = [http EXCEPT !.turn = http.turn + 1]
          \/ http' = [http EXCEPT !.turn = http.turn + 1, !.met = TRUE]
      BY <1>15, Zenon DEF NotifySlot
    <3> QED
      BY <2>1, <3>1, <3>2 DEF Notifies
  <2>3. http' \in Https
    BY <2>2, HttpKinds
  <2>4. owner' \in [Chars -> 0..NumSlots]
    BY <1>15, HapNotifyAssumption DEF NotifySlot
  <2>5. owed' \in [Conns -> SUBSET Chars] /\ earned' \subseteq Chars
    BY <1>15, <2>1 DEF NotifySlot
  <2> QED
    BY <1>15, <2>3, <2>4, <2>5 DEF NotifySlot
<1>16. CASE NotifyEnd
  <2>1. announced' \in BOOLEAN
    BY <1>16, Zenon DEF NotifyEnd
  <2>3. bumps' \in Nat
    BY <1>16 DEF NotifyEnd, Announce
  <2>2. http' \in Https
    BY <1>16, HttpKinds DEF NotifyEnd
  <2> QED
    BY <1>16, <2>1, <2>2, <2>3 DEF NotifyEnd
<1> HIDE DEF TypeInv, TypeOK, Wakeups, table, chars, queues, hist
<1> QED
  BY <1>0, <1>1, <1>2, <1>3, <1>4, <1>5, <1>6, <1>7, <1>8, <1>9, <1>10, <1>11, <1>12,
     <1>13, <1>14, <1>15, <1>16, Actions, Zenon

\* The types hold, and hap_http_send_notif() never has more calls to make than
\* the modules have sent reports.
THEOREM TypeCorrect == Spec => []TypeInv
BY TypeInit, TypeStep, PTL DEF Spec

-----------------------------------------------------------------------------
(* The session table and the subscriptions *)

\* A connection has at most one slot, the one that Index() finds.
Seated == \A s \in Conns, i \in Slots : slot[i] = s <=> Index(s) = i

\* Only an open connection subscribes, and a change is owed only to a
\* connection that has a slot and subscribed to the characteristic.
OpenOnly == \A s \in Conns : s \notin live => subs[s] = {}
OwedSubscribed == \A s \in Conns : \A c \in owed[s] : Index(s) # 0 /\ c \in subs[s]

TableInv == Seated /\ OpenOnly /\ OwedSubscribed /\ OwnSubscriptions

\* The search for a session in a table that holds it once at most.
Search(f, s) == IF \E i \in Slots : f[i] = s THEN CHOOSE i \in Slots : f[i] = s ELSE 0

\* It finds the one slot, if there is one.
LEMMA SearchOnce ==
  ASSUME NEW f, NEW s, \A i, j \in Slots : f[i] = s /\ f[j] = s => i = j
  PROVE  \A i \in Slots : f[i] = s <=> Search(f, s) = i
BY HapNotifyAssumption DEF Search, Slots

\* So a table without duplicates, before or after a step, is Seated.
LEMMA SeatedOnce ==
  /\ (\A s \in Conns : \A i, j \in Slots : slot[i] = s /\ slot[j] = s => i = j) => Seated
  /\ (\A s \in Conns : \A i, j \in Slots : slot'[i] = s /\ slot'[j] = s => i = j) => Seated'
<1>1. \A s : Index(s) = Search(slot, s) /\ Index(s)' = Search(slot', s)
  BY DEF Index, Search
<1>2. ASSUME \A s \in Conns : \A i, j \in Slots : slot[i] = s /\ slot[j] = s => i = j
      PROVE  Seated
  BY <1>1, <1>2, SearchOnce DEF Seated
<1>3. ASSUME \A s \in Conns : \A i, j \in Slots : slot'[i] = s /\ slot'[j] = s => i = j
      PROVE  Seated'
  BY <1>1, <1>3, SearchOnce DEF Seated
<1> QED
  BY <1>2, <1>3

\* At the start the table is empty.
LEMMA TableInit == Init => TableInv
<1> SUFFICES ASSUME Init PROVE TableInv
  OBVIOUS
<1>1. \A s \in Conns, i \in Slots : slot[i] # s
  BY HapNotifyAssumption DEF Init
<1>2. Seated
  BY <1>1, SeatedOnce
<1>3. OpenOnly /\ OwedSubscribed /\ OwnSubscriptions
  BY DEF Init, OpenOnly, OwedSubscribed, OwnSubscriptions
<1> QED
  BY <1>2, <1>3 DEF TableInv

\* The first free slot, where hap_add_secure_session() puts a session.
LEMMA FreeSlot ==
  ASSUME \E i \in Slots : slot[i] = None
  PROVE  \E i \in Slots : slot[i] = None /\ \A j \in 1..(i - 1) : slot[j] # None
<1> DEFINE Less == {p \in Nat \X Nat : p[1] < p[2]}
           F == {i \in Slots : slot[i] = None}
<1>1. Less = OpToRel(<, Nat)
  BY Zenon DEF OpToRel
<1>2. IsWellFoundedOn(Less, Nat)
  BY <1>1, NatLessThanWellFounded, Zenon
<1>3. F \subseteq Nat /\ F # {}
  BY HapNotifyAssumption DEF Slots
<1>4. PICK i \in F : \A j \in F : ~(<<j, i>> \in Less)
  BY <1>2, <1>3, WFMin, Zenon
<1>5. \A j \in Nat : j < i => <<j, i>> \in Less
  BY <1>3
<1> HIDE DEF Less
<1>6. \A j \in 1..(i - 1) : j \in Slots /\ j < i
  BY HapNotifyAssumption DEF Slots
<1>7. \A j \in 1..(i - 1) : slot[j] # None
  BY <1>3, <1>4, <1>5, <1>6
<1> QED
  BY <1>7

\* A connection that keeps its place in the table keeps its index.
LEMMA SameIndex ==
  ASSUME Seated, Seated', NEW s \in Conns, \A i \in Slots : slot'[i] = s <=> slot[i] = s
  PROVE  Index(s)' = Index(s)
<1>1. Index(s) \in 0..NumSlots /\ Index(s)' \in 0..NumSlots
  <2>1. Index(s) = Search(slot, s) /\ Index(s)' = Search(slot', s)
    BY DEF Index, Search
  <2>2. \A f : Search(f, s) \in 0..NumSlots
    BY HapNotifyAssumption DEF Search, Slots
  <2> QED
    BY <2>1, <2>2
<1> QED
  BY <1>1, HapNotifyAssumption DEF Seated, Slots

\* Every action keeps the table and the subscriptions in step.
LEMMA TableStep == TypeInv /\ TableInv /\ [Next]_vars => TableInv'
<1> SUFFICES ASSUME TypeInv, TableInv, [Next]_vars PROVE TableInv'
  OBVIOUS
<1> USE DEF TypeInv, TypeOK, TableInv, table, chars, queues, hist
\* Most actions leave the slots and the subscriptions alone.
<1>a. ASSUME UNCHANGED <<live, slot, ev, subs>>,
             \A s \in Conns : \A c \in owed'[s] : Index(s) # 0 /\ c \in subs[s]
      PROVE  TableInv'
  <2>1. \A s : Index(s)' = Index(s)
    BY <1>a DEF Index
  <2> QED
    BY <1>a, <2>1 DEF Seated, OpenOnly, OwedSubscribed, OwnSubscriptions
<1>0. CASE UNCHANGED vars
  BY <1>0, <1>a DEF vars, OwedSubscribed
<1>1. ASSUME NEW c \in Chars, NEW v \in BOOLEAN, Report(c, v) PROVE TableInv'
  BY <1>1, <1>a DEF Report, OwedSubscribed
<1>2. CASE Changed
  <2>1. \A s \in Conns : \A c \in owed'[s] : Index(s) # 0 /\ c \in subs[s]
    BY <1>2 DEF Changed, OwedSubscribed
  <2> QED
    BY <1>2, <2>1, <1>a DEF Changed
<1>3. CASE Same
  BY <1>3, <1>a DEF Same, OwedSubscribed
<1>4. CASE Queue
  BY <1>4, <1>a DEF Queue, OwedSubscribed
<1>5. CASE Trigger
  BY <1>5, <1>a DEF Trigger, OwedSubscribed
<1>6. CASE Forward
  BY <1>6, <1>a DEF Forward, OwedSubscribed
\* The new session is the only one of its connection; nobody subscribed in its slot.
<1>7. ASSUME NEW s \in Conns, Verify(s) PROVE TableInv'
  <2>0. /\ s \notin live /\ live' = live \cup {s} /\ subs[s] = {} /\ owed[s] = {} /\ s # None
        /\ \A i \in Slots : slot[i] # s
        /\ UNCHANGED <<ev, subs, owed>>
    BY <1>7, HapNotifyAssumption DEF Verify, OpenOnly, OwedSubscribed
  <2>1. CASE UNCHANGED slot
    <3>1. \A t : Index(t)' = Index(t)
      BY <2>1 DEF Index
    <3> QED
      BY <2>0, <2>1, <3>1 DEF Seated, OpenOnly, OwedSubscribed, OwnSubscriptions
  <2>2. CASE \E i \in Slots : slot[i] = None
    <3> DEFINE i == CHOOSE i \in Slots : slot[i] = None /\ \A j \in 1..(i - 1) : slot[j] # None
    <3>1. i \in Slots /\ slot[i] = None
      BY <2>2, FreeSlot
    <3>2. slot' = [slot EXCEPT ![i] = s]
      BY <1>7, <2>2, Zenon DEF Verify
    <3> HIDE DEF i
    <3>3. \A t \in Conns \ {s} : \A j \in Slots : slot'[j] = t <=> slot[j] = t
      BY <3>1, <3>2, HapNotifyAssumption
    <3>4. \A j \in Slots : slot'[j] = s <=> j = i
      BY <3>1, <3>2, <2>0
    <3>5. Seated'
      BY <3>3, <3>4, SeatedOnce DEF Seated
    <3>6. \A t \in Conns \ {s} : Index(t)' = Index(t)
      BY <3>3, <3>5, SameIndex
    <3>7. OpenOnly'
      BY <2>0 DEF OpenOnly
    <3>8. OwedSubscribed'
      BY <2>0, <3>6 DEF OwedSubscribed
    <3>9. OwnSubscriptions'
      BY <2>0, <3>1, <3>2 DEF OwnSubscriptions
    <3> QED
      BY <3>5, <3>7, <3>8, <3>9
  <2> QED
    BY <1>7, <2>1, <2>2 DEF Verify
\* The slot and the subscriptions in it go together.
<1>8. ASSUME NEW s \in Conns, Close(s) PROVE TableInv'
  <2>0. /\ live' = live \ {s}
        /\ slot' = [i \in Slots |-> IF slot[i] = s THEN None ELSE slot[i]]
        /\ ev' = [c \in Chars |-> ev[c] \ {Index(s)}]
        /\ subs' = [subs EXCEPT ![s] = {}] /\ owed' = [owed EXCEPT ![s] = {}]
    BY <1>8 DEF Close
  <2>1. \A t \in Conns \ {s} : \A j \in Slots : slot'[j] = t <=> slot[j] = t
    BY <2>0, HapNotifyAssumption
  <2>2. \A j \in Slots : slot'[j] # s
    BY <2>0, HapNotifyAssumption
  <2>3. Seated'
    BY <2>1, <2>2, SeatedOnce DEF Seated
  <2>4. \A t \in Conns \ {s} : Index(t)' = Index(t)
    BY <2>1, <2>3, SameIndex
  <2>5. OpenOnly'
    BY <2>0 DEF OpenOnly
  <2>6. OwedSubscribed'
    BY <2>0, <2>4 DEF OwedSubscribed
  <2>7. ASSUME NEW i \in Slots, NEW c \in Chars
        PROVE  (i \in ev[c] <=> slot[i] # None /\ c \in subs[slot[i]])'
    <3>1. CASE slot[i] = s
      BY <2>0, <3>1 DEF Seated
    <3>2. CASE slot[i] # s
      <4>1. Index(s) # i
        BY <3>2 DEF Seated
      <4> QED
        BY <2>0, <3>2, <4>1 DEF OwnSubscriptions
    <3> QED
      BY <3>1, <3>2
  <2>8. OwnSubscriptions'
    BY <2>7 DEF OwnSubscriptions
  <2> QED
    BY <2>3, <2>5, <2>6, <2>8
\* A subscription without a slot leaves no bit, and no slot can stand for it.
<1>9. ASSUME NEW s \in Conns, NEW cs \in SUBSET Chars, NEW on \in BOOLEAN, PutEvents(s, cs, on)
      PROVE  TableInv'
  <2>0. /\ s \in live /\ UNCHANGED <<live, slot>>
        /\ ev' = [c \in Chars |-> IF c \notin cs THEN ev[c]
                                  ELSE IF on THEN ev[c] \cup ({Index(s)} \ {0})
                                  ELSE ev[c] \ {Index(s)}]
        /\ subs' = [subs EXCEPT ![s] = IF on THEN subs[s] \cup cs ELSE subs[s] \ cs]
        /\ owed' = [owed EXCEPT ![s] = IF on THEN owed[s] ELSE owed[s] \ cs]
    BY <1>9 DEF PutEvents
  <2>1. \A t : Index(t)' = Index(t)
    BY <2>0 DEF Index
  <2>2. Seated' /\ OpenOnly'
    BY <2>0, <2>1 DEF Seated, OpenOnly
  <2>3. OwedSubscribed'
    BY <2>0, <2>1 DEF OwedSubscribed
  <2>4. ASSUME NEW i \in Slots, NEW c \in Chars
        PROVE  (i \in ev[c] <=> slot[i] # None /\ c \in subs[slot[i]])'
    <3>1. i # 0
      BY HapNotifyAssumption DEF Slots
    <3>2. slot[i] = s <=> Index(s) = i
      BY DEF Seated
    <3>3. slot[i] # None => slot[i] \in Conns
      OBVIOUS
    <3>4. s # None
      BY HapNotifyAssumption
    <3> QED
      BY <2>0, <3>1, <3>2, <3>3, <3>4 DEF OwnSubscriptions
  <2>5. OwnSubscriptions'
    BY <2>4 DEF OwnSubscriptions
  <2> QED
    BY <2>2, <2>3, <2>5
<1>10. ASSUME NEW s \in Conns, NEW cs \in SUBSET Chars, PutValues(s, cs) PROVE TableInv'
  BY <1>10, <1>a DEF PutValues, OwedSubscribed
<1>11. ASSUME NEW s \in Conns, NEW cs \in SUBSET Chars, GetBegin(s, cs) PROVE TableInv'
  BY <1>11, <1>a DEF GetBegin, OwedSubscribed
<1>12. ASSUME NEW c \in Chars, GetCheck(c) PROVE TableInv'
  BY <1>12, <1>a DEF GetCheck, OwedSubscribed
<1>13. CASE GetRead
  <2>1. \A s \in Conns : owed'[s] \subseteq owed[s]
    BY <1>13 DEF GetRead
  <2> QED
    BY <1>13, <2>1, <1>a DEF GetRead, OwedSubscribed
<1>14. CASE NotifyBegin
  BY <1>14, <1>a DEF NotifyBegin, OwedSubscribed
<1>15. CASE NotifySlot
  <2>1. \A s \in Conns : owed'[s] \subseteq owed[s]
    BY <1>15 DEF NotifySlot
  <2> QED
    BY <1>15, <2>1, <1>a DEF NotifySlot, OwedSubscribed
<1>16. CASE NotifyEnd
  BY <1>16, <1>a DEF NotifyEnd, OwedSubscribed
<1> HIDE DEF TypeInv, TypeOK, TableInv, table, chars, queues, hist
<1> QED
  BY <1>0, <1>1, <1>2, <1>3, <1>4, <1>5, <1>6, <1>7, <1>8, <1>9, <1>10, <1>11, <1>12,
     <1>13, <1>14, <1>15, <1>16, Actions, Zenon

\* hap_priv.sessions holds a connection once, and ev_ctrls holds the bits of the
\* sessions that asked for them (hap_add_secure_session(), hap_free_session(),
\* hap_disable_all_char_notif()).
THEOREM TableCorrect == Spec => []TableInv
BY TableInit, TableStep, TypeCorrect, PTL DEF Spec
-----------------------------------------------------------------------------
(* The owner marks and the announcements *)

\* A mark that an update has confirmed while the GET that set it goes on will
\* outlive that GET: it is earned already.
MarkConfirmed ==
  \A c \in Chars :
    http.op = "get" /\ c \in http.todo /\ called[c] /\ owner[c] # 0 => c \in earned
EarnedInv == OwnerEarned /\ MarkConfirmed

\* At the start there are no marks.
LEMMA EarnedInit == Init => EarnedInv
BY DEF Init, EarnedInv, OwnerEarned, MarkConfirmed

\* Every action leaves only marks that are earned.
LEMMA EarnedStep == TypeInv /\ EarnedInv /\ [Next]_vars => EarnedInv'
<1> SUFFICES ASSUME TypeInv, EarnedInv, [Next]_vars PROVE EarnedInv'
  OBVIOUS
<1> USE DEF TypeInv, TypeOK, EarnedInv, OwnerEarned, MarkConfirmed, table, chars, queues, hist
\* Most actions leave the marks and the HTTP server alone.
<1>a. ASSUME UNCHANGED <<owner, called, http, earned>> PROVE EarnedInv'
  BY <1>a
<1>0. CASE UNCHANGED vars
  BY <1>0, <1>a DEF vars
<1>1. ASSUME NEW c \in Chars, NEW v \in BOOLEAN, Report(c, v) PROVE EarnedInv'
  BY <1>1 DEF Report
<1>2. CASE Changed
  BY <1>2, <1>a DEF Changed
<1>3. CASE Same
  BY <1>3 DEF Same
<1>4. CASE Queue
  BY <1>4, <1>a DEF Queue
<1>5. CASE Trigger
  BY <1>5, <1>a DEF Trigger
<1>6. CASE Forward
  BY <1>6, <1>a DEF Forward
<1>7. ASSUME NEW s \in Conns, Verify(s) PROVE EarnedInv'
  BY <1>7, <1>a DEF Verify
<1>8. ASSUME NEW s \in Conns, Close(s) PROVE EarnedInv'
  BY <1>8, <1>a DEF Close
<1>9. ASSUME NEW s \in Conns, NEW cs \in SUBSET Chars, NEW on \in BOOLEAN, PutEvents(s, cs, on)
      PROVE  EarnedInv'
  BY <1>9, <1>a DEF PutEvents
<1>10. ASSUME NEW s \in Conns, NEW cs \in SUBSET Chars, PutValues(s, cs) PROVE EarnedInv'
  BY <1>10 DEF PutValues, Request, Free, Idle
<1>11. ASSUME NEW s \in Conns, NEW cs \in SUBSET Chars, GetBegin(s, cs) PROVE EarnedInv'
  BY <1>11 DEF GetBegin, Request, Free, Idle
\* The mark stays only if an update came in between, and is then confirmed.
<1>12. ASSUME NEW c \in Chars, GetCheck(c) PROVE EarnedInv'
  <2>1. http \in Gets
    BY <1>12, HttpKinds DEF GetCheck
  <2>2. http'.op = "get" /\ http'.todo = http.todo \ {c}
    BY <1>12, <2>1 DEF GetCheck, Gets
  <2> QED
    BY <1>12, <2>1, <2>2 DEF GetCheck
<1>13. CASE GetRead
  <2>1. http \in Gets
    BY <1>13, HttpKinds DEF GetRead
  <2>2. \/ http.todo = {} /\ http'.op = "idle"
        \/ http'.op = "get" /\ http'.todo = http.todo
    BY <1>13, <2>1 DEF GetRead, Gets, Idle
  <2> QED
    BY <1>13, <2>2 DEF GetRead
<1>14. CASE NotifyBegin
  <2>1. http'.op = "idle" \/ http'.op = "notify"
    BY <1>14 DEF NotifyBegin, Free, Idle
  <2> QED
    BY <1>14, <2>1 DEF NotifyBegin, Free, Idle
\* A withheld event uses the mark up.
<1>15. CASE NotifySlot
  <2>1. http \in Notifies /\ http'.op = "notify"
    BY <1>15, HttpKinds DEF NotifySlot, Notifies
  <2> QED
    BY <1>15, <2>1 DEF NotifySlot
<1>16. CASE NotifyEnd
  BY <1>16 DEF NotifyEnd, Idle
<1> HIDE DEF TypeInv, TypeOK, EarnedInv, OwnerEarned, MarkConfirmed, table, chars, queues, hist
<1> QED
  BY <1>0, <1>1, <1>2, <1>3, <1>4, <1>5, <1>6, <1>7, <1>8, <1>9, <1>10, <1>11, <1>12,
     <1>13, <1>14, <1>15, <1>16, Actions, Zenon

\* What a slot carries over from one connection to the next never speaks for the
\* wrong one (hap_free_session(), hap_disable_all_char_notif(), owner_ctrl).
THEOREM MarksOwnedCorrect == Spec => []MarksOwned
<1>1. TypeInv /\ TableInv /\ EarnedInv => MarksOwned
  BY DEF TypeInv, TableInv, EarnedInv, MarksOwned
<1> QED
  BY <1>1, EarnedInit, EarnedStep, TypeCorrect, TableCorrect, PTL DEF Spec

\* Until the first announcement there is none.
OnceInv == AnnouncedOnce /\ (~announced => bumps = 0)

\* Only hap_http_send_notif() announces, and only the first time.
LEMMA OnceStep == TypeInv /\ OnceInv /\ [Next]_vars => OnceInv'
<1> SUFFICES ASSUME TypeInv, OnceInv, [Next]_vars PROVE OnceInv'
  OBVIOUS
<1> USE DEF OnceInv, AnnouncedOnce
<1>a. ASSUME UNCHANGED <<announced, bumps>> PROVE OnceInv'
  BY <1>a
<1>1. ASSUME NEW s \in Conns, Verify(s) PROVE OnceInv'
  BY <1>1, <1>a DEF Verify
<1>2. CASE NotifyEnd
  BY <1>2, <1>a DEF NotifyEnd, Announce
<1>3. \/ UNCHANGED <<announced, bumps>>
      \/ \E s \in Conns : Verify(s)
      \/ NotifyEnd
  BY Actions, Zenon DEF vars, hist, Report, Changed, Same, Queue, Trigger, Forward, Close,
    PutEvents, PutValues, GetBegin, GetCheck, GetRead, NotifyBegin, NotifySlot
<1> QED
  BY <1>a, <1>1, <1>2, <1>3

\* hap_http_send_notif() announces a change to absent controllers once
\* (disconnected_event_sent), until a session is added.
THEOREM AnnouncedOnceCorrect == Spec => []AnnouncedOnce
<1>1. Init => OnceInv
  BY DEF Init, OnceInv, AnnouncedOnce
<1>2. OnceInv => AnnouncedOnce
  BY DEF OnceInv
<1> QED
  BY <1>1, <1>2, OnceStep, TypeCorrect, PTL DEF Spec

-----------------------------------------------------------------------------
(* The events *)

Owed == \A s \in Conns : \A c \in owed[s] : OnItsWay(s, c) \/ c \in lost

\* At the start nothing is owed and nothing queued.
LEMMA DeliveredInit == Init => Delivered
BY DEF Init, Delivered, NoLostWakeup

\* A step that leaves a wake-up behind whatever is queued: the loop's queue
\* drops one only when it holds others.
LEMMA WakeupStep == TypeInv /\ NoLostWakeup /\ [Next]_vars => NoLostWakeup'
<1> SUFFICES ASSUME TypeInv, NoLostWakeup, [Next]_vars PROVE NoLostWakeup'
  OBVIOUS
<1> USE DEF NoLostWakeup
<1>a. ASSUME UNCHANGED <<pending, triggers, works, upd>> PROVE NoLostWakeup'
  BY <1>a
<1>1. ASSUME NEW c \in Chars, NEW v \in BOOLEAN, Report(c, v) PROVE NoLostWakeup'
  BY <1>1 DEF Report, Idle, queues
<1>2. CASE Changed
  BY <1>2 DEF Changed, queues
<1>3. CASE Same
  BY <1>3 DEF Same, queues
<1>4. CASE Queue
  <2>1. CASE Len(pending) < MaxNotif
    <3>1. upd' = [upd EXCEPT !.op = "trigger"]
      BY <1>4, <2>1, HapNotifyAssumption DEF Queue
    <3>2. upd # Idle
      BY <1>4 DEF Queue, Idle
    <3> QED
      BY <3>1, <3>2 DEF TypeInv, TypeOK
  \* A full queue is not empty, and its wake-up is another one's.
  <2>2. CASE Len(pending) = MaxNotif
    <3>1. pending # <<>>
      <4>1. MaxNotif # 0
        BY HapNotifyAssumption
      <4> QED
        BY <2>2, <4>1
    <3> QED
      BY <1>4, <2>2, <3>1 DEF Queue
  <2> QED
    BY <1>4, <2>1, <2>2 DEF Queue
<1>5. CASE Trigger
  BY <1>5, HapNotifyAssumption DEF Trigger, TypeInv, TypeOK
<1>6. CASE Forward
  BY <1>6 DEF Forward, TypeInv, TypeOK
<1>7. CASE NotifyBegin
  BY <1>7 DEF NotifyBegin
<1>8. \/ UNCHANGED <<pending, triggers, works, upd>>
      \/ \E c \in Chars, v \in BOOLEAN : Report(c, v)
      \/ Changed \/ Same \/ Queue \/ Trigger \/ Forward \/ NotifyBegin
  BY Actions, Zenon DEF vars, queues, Verify, Close,
    PutEvents, PutValues, GetBegin, GetCheck, GetRead, NotifySlot, NotifyEnd
<1> QED
  BY <1>a, <1>1, <1>2, <1>3, <1>4, <1>5, <1>6, <1>7, <1>8

\* No action takes a change off its way to a subscriber.
LEMMA OwedStep == TypeInv /\ TableInv /\ Owed /\ [Next]_vars => Owed'
<1> SUFFICES ASSUME TypeInv, TableInv, Owed, [Next]_vars PROVE Owed'
  OBVIOUS
<1> USE DEF TypeInv, TypeOK, Owed, OnItsWay, table, chars, queues, hist
\* While no events are being sent, what is on its way is queued or about to be.
<1>a. ASSUME UNCHANGED <<pending, lost>>, http.op # "notify",
             \A s \in Conns : owed'[s] \subseteq owed[s],
             upd' = upd \/ upd.op # "queue"
      PROVE  Owed'
  BY <1>a
<1>b. ASSUME UNCHANGED <<slot, pending, lost, http, owed>>, upd.op # "queue"
      PROVE  Owed'
  <2>1. \A s : Index(s)' = Index(s)
    BY <1>b DEF Index
  <2> QED
    BY <1>b, <2>1
<1>0. CASE UNCHANGED vars
  <2>1. \A s : Index(s)' = Index(s)
    BY <1>0 DEF Index, vars
  <2> QED
    BY <1>0, <2>1 DEF vars
<1>1. ASSUME NEW c \in Chars, NEW v \in BOOLEAN, Report(c, v) PROVE Owed'
  BY <1>1, <1>b DEF Report, Idle
<1>2. CASE Changed
  <2>1. \A s : Index(s)' = Index(s)
    BY <1>2 DEF Changed, Index
  <2>2. upd # Idle /\ upd.op = "compare"
    BY <1>2 DEF Changed, Idle
  <2>3. upd'.op = "queue" /\ upd'.char = upd.char
    BY <1>2, <2>2 DEF Changed
  <2>4. \A s \in Conns : owed'[s] \subseteq owed[s] \cup {upd.char}
    BY <1>2 DEF Changed
  <2> QED
    BY <1>2, <2>1, <2>2, <2>3, <2>4 DEF Changed
<1>3. CASE Same
  BY <1>3, <1>b DEF Same
<1>4. CASE Queue
  <2>1. \A s : Index(s)' = Index(s)
    BY <1>4 DEF Queue, Index
  <2>2. upd.char \in Chars
    BY <1>4 DEF Queue, Idle
  <2>3. upd.char \in Range(pending') \cup lost' /\ Range(pending) \subseteq Range(pending')
        /\ lost \subseteq lost'
    <3>1. CASE Len(pending) < MaxNotif
      <4>1. pending' = Append(pending, upd.char) /\ lost' = lost
        BY <1>4, <3>1, HapNotifyAssumption DEF Queue
      <4>2. pending \in BoundedSeq(Chars, MaxNotif) /\ MaxNotif \in Nat
        BY HapNotifyAssumption
      <4>3. Range(pending') = Range(pending) \cup {upd.char}
        BY <2>2, <3>1, <4>1, <4>2, QueueAppend
      <4> QED
        BY <4>1, <4>3
    <3>2. CASE Len(pending) = MaxNotif
      BY <1>4, <3>2, HapNotifyAssumption DEF Queue
    <3> QED
      BY <1>4, <3>1, <3>2 DEF Queue
  <2> QED
    BY <1>4, <2>1, <2>3 DEF Queue
<1>5. CASE Trigger
  BY <1>5, <1>b DEF Trigger
<1>6. CASE Forward
  <2>1. \A s : Index(s)' = Index(s)
    BY <1>6 DEF Forward, Index
  <2> QED
    BY <1>6, <2>1 DEF Forward
<1>7. ASSUME NEW s \in Conns, Verify(s) PROVE Owed'
  BY <1>7, <1>a DEF Verify, Request, Free, Idle
<1>8. ASSUME NEW s \in Conns, Close(s) PROVE Owed'
  BY <1>8, <1>a DEF Close, Free, Idle
<1>9. ASSUME NEW s \in Conns, NEW cs \in SUBSET Chars, NEW on \in BOOLEAN, PutEvents(s, cs, on)
      PROVE  Owed'
  BY <1>9, <1>a DEF PutEvents, Request, Free, Idle
<1>10. ASSUME NEW s \in Conns, NEW cs \in SUBSET Chars, PutValues(s, cs) PROVE Owed'
  BY <1>10, <1>a DEF PutValues, Request, Free, Idle
<1>11. ASSUME NEW s \in Conns, NEW cs \in SUBSET Chars, GetBegin(s, cs) PROVE Owed'
  BY <1>11, <1>a DEF GetBegin, Request, Free, Idle
<1>12. ASSUME NEW c \in Chars, GetCheck(c) PROVE Owed'
  BY <1>12, <1>a DEF GetCheck
<1>13. CASE GetRead
  <2>1. \A s \in Conns : owed'[s] \subseteq owed[s]
    BY <1>13 DEF GetRead
  <2> QED
    BY <1>13, <2>1, <1>a DEF GetRead
\* The whole queue is taken, and everyone who is owed something has a slot to
\* be visited.
<1>14. CASE NotifyBegin
  <2>1. \A s : Index(s)' = Index(s)
    BY <1>14 DEF NotifyBegin, Index
  <2>2. CASE pending = <<>>
    BY <1>14, <2>1, <2>2 DEF NotifyBegin
  <2>3. CASE pending # <<>>
    <3>1. /\ http' = [op |-> "notify", arr |-> pending, turn |-> 1, met |-> FALSE]
          /\ lost' = lost \ Range(pending)
          /\ UNCHANGED <<owed, upd>> /\ http.op # "notify"
      BY <1>14, <2>3 DEF NotifyBegin, Free, Idle
    <3>2. http'.op = "notify" /\ http'.arr = pending /\ http'.turn = 1
      BY <3>1
    <3>3. \A s \in Conns : owed[s] # {} => Index(s) >= 1
      <4>1. \A s : Index(s) \in Nat
        BY IndexType, HapNotifyAssumption
      <4> QED
        BY <4>1 DEF TableInv, OwedSubscribed
    <3> QED
      BY <2>1, <3>1, <3>2, <3>3
  <2> QED
    BY <2>2, <2>3
\* A subscriber in the slot is told, or it is the owner.
<1>15. CASE NotifySlot
  <2> DEFINE i == http.turn
  <2>1. /\ http \in Notifies /\ i \in Slots
        /\ http'.op = "notify" /\ http'.arr = http.arr /\ http'.turn = i + 1
    BY <1>15, HttpKinds DEF NotifySlot, Notifies
  <2>2. UNCHANGED <<slot, ev, subs, pending, lost, upd>>
    BY <1>15 DEF NotifySlot
  <2>3. \A s : Index(s)' = Index(s)
    BY <2>2 DEF Index
  <2>4. \A s \in Conns : owed'[s] \subseteq owed[s]
    BY <1>15 DEF NotifySlot
  <2>5. ASSUME NEW s \in Conns, Index(s) = i, NEW c \in owed'[s] PROVE c \notin Range(http.arr)
    <3>1. slot[i] = s /\ s # None
      BY <2>1, <2>5, HapNotifyAssumption DEF TableInv, Seated
    <3>2. c \in owed[s] /\ c \in subs[s]
      BY <2>4, <2>5 DEF TableInv, OwedSubscribed
    <3>3. i \in ev[c]
      BY <2>1, <3>1, <3>2 DEF TableInv, OwnSubscriptions
    <3>4. c \notin Told(i) /\ c \notin Skipped(i)
      BY <1>15, <2>1, <2>5, <3>1, <3>2 DEF NotifySlot
    <3> QED
      BY <3>3, <3>4, Zenon DEF Told, Skipped
  <2>6. \A s : Index(s) \in Int
    BY IndexType, HapNotifyAssumption
  <2>7. i \in Int
    BY <2>1, HapNotifyAssumption DEF Slots
  <2>8. \A s \in Conns : Index(s) >= i => Index(s) = i \/ Index(s) >= i + 1
    BY <2>6, <2>7
  <2> HIDE DEF i
  <2>9. ASSUME NEW s \in Conns, NEW c \in owed'[s]
        PROVE  (OnItsWay(s, c) \/ c \in lost)'
    <3>1. c \in owed[s]
      BY <2>4, <2>9
    <3>2. CASE Index(s) = i
      BY <2>1, <2>2, <2>3, <2>5, <2>9, <3>1, <3>2 DEF i
    <3>3. CASE Index(s) # i
      BY <2>1, <2>2, <2>3, <2>8, <2>9, <3>1, <3>3 DEF i
    <3> QED
      BY <3>2, <3>3
  <2> QED
    BY <2>9
\* After the last turn nobody is left to be told.
<1>16. CASE NotifyEnd
  <2>1. \A s \in Conns : ~(Index(s) >= http.turn)
    BY <1>16, IndexType, HapNotifyAssumption DEF NotifyEnd
  <2> QED
    BY <1>16, <2>1 DEF NotifyEnd
<1> HIDE DEF TypeInv, TypeOK, Owed, OnItsWay, table, chars, queues, hist
<1> QED
  BY <1>0, <1>1, <1>2, <1>3, <1>4, <1>5, <1>6, <1>7, <1>8, <1>9, <1>10, <1>11, <1>12,
     <1>13, <1>14, <1>15, <1>16, Actions, Zenon

\* A change that a subscribed controller has not seen is queued, about to be
\* queued or about to be sent to its slot, and somebody will wake the sender
\* (hap_queue_event(), hap_send_event(), hap_send_notification()).
THEOREM DeliveredCorrect == Spec => []Delivered
<1>1. Delivered <=> NoLostWakeup /\ Owed
  BY DEF Delivered, Owed
<1> QED
  BY <1>1, DeliveredInit, WakeupStep, OwedStep, TypeCorrect, TableCorrect, PTL DEF Spec

=============================================================================
