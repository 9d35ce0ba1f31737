------------------------------ MODULE UartQueue ------------------------------
(***************************************************************************)
(* uartMsgQueue (CommandHandler.cpp): the linked list through which all    *)
(* tasks send messages to the SAMD21.  The SPI loop takes them out in      *)
(* uartTransmit(); the loop itself, moduleLiveCheck(), the periodic tasks, *)
(* the MQTT and the HTTP server task put them in.  Nothing locks the list, *)
(* so every action is one access to front, back or a next pointer.         *)
(*                                                                         *)
(* A cell is a block of the heap.  A freed block keeps its contents until  *)
(* it is taken again, but a write into it may destroy the allocator's own  *)
(* data: corrupt records that, and nothing is said of what happens then.   *)
(* raced records that two calls have been in progress at the same time     *)
(* since the queue was last seen empty with no call in progress.           *)
(* The size of the queue, which nothing reads, is left out.                *)
(***************************************************************************)
EXTENDS Integers, Sequences, FiniteSets

CONSTANTS
  Pushers,  \* the tasks that push
  Loop,     \* the SPI loop, which pops and pushes
  Cells,    \* blocks of the heap
  Null,     \* the null pointer
  MaxMsgs   \* bound on messages

ASSUME UartQueueAssumption ==
  /\ Loop \in Pushers /\ Null \notin Cells
  /\ MaxMsgs \in Nat /\ IsFiniteSet(Cells) /\ Cardinality(Cells) >= MaxMsgs

VARIABLES
  front, back, \* the two pointers of the queue
  cell,        \* the heap: used, msg and next of each block
  pc,          \* the next access of each task
  new,         \* newPack of each task
  mine,        \* the message each task pushes
  pack,        \* the message uartTransmit() has taken
  pushed,      \* history: the messages in the order their push began
  sent,        \* history: the messages in the order they were transmitted
  raced, corrupt, dangled \* history

vars == <<front, back, cell, pc, new, mine, pack, pushed, sent, raced, corrupt, dangled>>
hist == <<pushed, sent, raced, corrupt, dangled>>

Ptrs == Cells \cup {Null}
Msgs == 1..MaxMsgs
Empty == front = Null \/ back = Null   \* isEmpty()
Allocated == {c \in Cells : cell[c].used}

PushSteps == {"test", "newFirst", "newLast", "first", "back", "link", "last"}
PopSteps  == {"pop", "take", "next", "send"}

TypeOK ==
  /\ front \in Ptrs /\ back \in Ptrs
  /\ cell \in [Cells -> [used : BOOLEAN, msg : 0..MaxMsgs, next : Ptrs]]
  /\ pc \in [Pushers -> {"idle"} \cup PushSteps \cup PopSteps]
  /\ new \in [Pushers -> Ptrs] /\ mine \in [Pushers -> 0..MaxMsgs] /\ pack \in Ptrs
  /\ pushed \in Seq(Msgs) /\ sent \in Seq(Msgs) /\ Len(sent) <= Len(pushed)
  /\ raced \in BOOLEAN /\ corrupt \in BOOLEAN /\ dangled \in BOOLEAN

Init ==
  /\ front = Null /\ back = Null
  /\ cell = [c \in Cells |-> [used |-> FALSE, msg |-> 0, next |-> Null]]
  /\ pc = [t \in Pushers |-> "idle"]
  /\ new = [t \in Pushers |-> Null] /\ mine = [t \in Pushers |-> 0] /\ pack = Null
  /\ pushed = <<>> /\ sent = <<>>
  /\ raced = FALSE /\ corrupt = FALSE /\ dangled = FALSE

Go(t, step) == pc' = [pc EXCEPT ![t] = step]

\* A call begins: it races with those in progress.
Quiet == \A t \in Pushers : pc[t] = "idle"
Begin == raced' = (~Quiet \/ (raced /\ (front # Null \/ corrupt)))

-----------------------------------------------------------------------------
(* push() *)

PushBegin(t) ==
  /\ pc[t] = "idle" /\ Len(pushed) < MaxMsgs
  /\ pushed' = Append(pushed, Len(pushed) + 1)
  /\ mine' = [mine EXCEPT ![t] = Len(pushed) + 1]
  /\ Begin /\ Go(t, "test")
  /\ UNCHANGED <<front, back, cell, new, pack, sent, corrupt, dangled>>

\* Slip: an emptied queue still has its back pointer.
PushTest_Back(t) ==
  /\ pc[t] = "test" /\ Go(t, IF back = Null THEN "newFirst" ELSE "newLast")
  /\ UNCHANGED <<front, back, cell, new, mine, pack, hist>>

PushTest(t) ==
  /\ pc[t] = "test" /\ Go(t, IF Empty THEN "newFirst" ELSE "newLast")
  /\ UNCHANGED <<front, back, cell, new, mine, pack, hist>>

\* The message is allocated in either branch; any free block may be taken.
PushNew(t) ==
  /\ \/ pc[t] = "newFirst" /\ Go(t, "first")
     \/ pc[t] = "newLast" /\ Go(t, "link")
  /\ \E c \in Cells \ Allocated :
       /\ new' = [new EXCEPT ![t] = c]
       /\ cell' = [cell EXCEPT ![c] = [used |-> TRUE, msg |-> mine[t], next |-> Null]]
  /\ UNCHANGED <<front, back, mine, pack, hist>>

PushFirst(t) ==
  /\ pc[t] = "first" /\ Go(t, "back")
  /\ front' = new[t]
  /\ UNCHANGED <<back, cell, new, mine, pack, hist>>

\* back = front, whatever front is by now.
PushBack(t) ==
  /\ pc[t] = "back" /\ Go(t, "idle")
  /\ back' = front
  /\ UNCHANGED <<front, cell, new, mine, pack, hist>>

\* back->next = newPack
PushLink(t) ==
  /\ pc[t] = "link" /\ Go(t, "last")
  /\ IF back = Null THEN corrupt' = TRUE /\ UNCHANGED cell
     ELSE /\ cell' = [cell EXCEPT ![back].next = new[t]]
          /\ corrupt' = (corrupt \/ ~cell[back].used)
  /\ UNCHANGED <<front, back, new, mine, pack, pushed, sent, raced, dangled>>

\* Slip: the back pointer stays where it was.
PushLast_Dropped(t) ==
  /\ pc[t] = "last" /\ Go(t, "idle")
  /\ UNCHANGED <<front, back, cell, new, mine, pack, hist>>

PushLast(t) ==
  /\ pc[t] = "last" /\ Go(t, "idle")
  /\ back' = new[t]
  /\ UNCHANGED <<front, cell, new, mine, pack, hist>>

-----------------------------------------------------------------------------
(* uartTransmit() with pop() *)

\* Slip: a queue of one message is taken to be empty.
Transmit_Single ==
  /\ pc[Loop] = "idle" /\ ~Empty /\ front # back /\ Go(Loop, "pop")
  /\ Begin
  /\ UNCHANGED <<front, back, cell, new, mine, pack, pushed, sent, corrupt, dangled>>

\* An idle message is sent when the queue is empty.
Transmit ==
  /\ pc[Loop] = "idle" /\ ~Empty /\ Go(Loop, "pop")
  /\ Begin
  /\ UNCHANGED <<front, back, cell, new, mine, pack, pushed, sent, corrupt, dangled>>

\* pop() tests again; it returned no message if the queue had become empty.
PopTake ==
  /\ pc[Loop] = "pop" /\ Go(Loop, "next")
  /\ pack' = front
  /\ dangled' = (dangled \/ Empty)
  /\ UNCHANGED <<front, back, cell, new, mine, pushed, sent, raced, corrupt>>

\* Slip: the front pointer is not moved on.
PopNext_Dropped ==
  /\ pc[Loop] = "next" /\ Go(Loop, "send")
  /\ UNCHANGED <<front, back, cell, new, mine, pack, hist>>

\* front = front->next
PopNext ==
  /\ pc[Loop] = "next" /\ Go(Loop, "send")
  /\ IF front = Null THEN UNCHANGED front ELSE front' = cell[front].next
  /\ dangled' = (dangled \/ front \notin Allocated)
  /\ UNCHANGED <<back, cell, new, mine, pack, pushed, sent, raced, corrupt>>

\* The message is copied to the response and deleted.
Send ==
  /\ pc[Loop] = "send" /\ Go(Loop, "idle")
  /\ IF pack = Null THEN UNCHANGED <<sent, cell>>
     ELSE /\ sent' = Append(sent, cell[pack].msg)
          /\ cell' = [cell EXCEPT ![pack].used = FALSE]
  /\ dangled' = (dangled \/ pack \notin Allocated)
  /\ pack' = Null
  /\ UNCHANGED <<front, back, new, mine, pushed, raced, corrupt>>

PushStep(t) == PushTest(t) \/ PushNew(t) \/ PushFirst(t) \/ PushBack(t) \/ PushLink(t) \/ PushLast(t)
Pop == Transmit \/ PopTake \/ PopNext \/ Send

Next == Pop \/ \E t \in Pushers : PushBegin(t) \/ PushStep(t)

\* Every call that was begun ends, and the SAMD21 polls.
Spec == Init /\ [][Next]_vars
FairSpec == Spec /\ WF_vars(Pop) /\ \A t \in Pushers : WF_vars(PushStep(t))

-----------------------------------------------------------------------------
(* Properties *)

\* l lists the cells a reader finds from front on, each of them in use.
Listing(l) ==
  /\ front = IF l = <<>> THEN Null ELSE l[1]
  /\ \A i \in DOMAIN l :
       cell[l[i]].used /\ cell[l[i]].next = IF i = Len(l) THEN Null ELSE l[i + 1]

\* The messages of l are the last ones of the first n.
LastOf(l, n) == \A i \in DOMAIN l : cell[l[i]].msg = n - Len(l) + i

\* A queue that no two calls used at the same time since it was last empty is
\* a queue: what was sent since, and what is listed, is what was pushed, in
\* order, nothing lost, and the list ends.
Fifo ==
  Quiet /\ ~raced =>
    \E k \in 0..Len(pushed) : \E l \in [1..k -> Cells] : Listing(l) /\ LastOf(l, Len(pushed))

\* No interleaving sends a message twice.
NoDuplicate ==
  ~corrupt => \A i, j \in 1..Len(sent) : sent[i] = sent[j] => i = j

\* The loop never follows a pointer to nothing or to a message it deleted.
PopLive == ~corrupt => ~dangled

\* Two calls have to meet for the heap to be written to after a free.
CorruptOnlyByRace == corrupt => raced

\* Whatever calls meet, no message is sent twice and the loop never follows a
\* pointer to nothing, as long as the heap is intact, and only calls that meet
\* can damage it.
PopSafe == TypeOK /\ NoDuplicate /\ PopLive /\ CorruptOnlyByRace

\* The queue drains: no interleaving makes a cycle or stops the loop.
Drains == <>[](corrupt \/ front = Null)
=============================================================================
