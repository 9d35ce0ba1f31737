-------------------------- MODULE UartQueue_proofs --------------------------
(***************************************************************************)
(* Proofs about UartQueue, for every number of tasks, blocks and messages  *)
(* and every interleaving of their accesses.  The inductive invariants:    *)
(*   TypeInv    types, and what the pop may rely on;                       *)
(*   PoolInv    the blocks that may still be reached: each is pointed to   *)
(*              at most once and holds a message of its own;               *)
(*   CalmInv    while no two calls have met, the queue is a list from      *)
(*              front to back.                                             *)
(***************************************************************************)
EXTENDS UartQueue, FiniteSetTheorems, SequenceTheorems, TLAPS

-----------------------------------------------------------------------------
(* Types *)

\* A push that has its block, and one whose block nothing points to yet.
Fresh(t) == pc[t] \in {"first", "back", "link", "last"}
Holds(t) == pc[t] \in {"first", "link"}

\* A push whose message is not in a block yet.
Begun(t) == pc[t] \in {"test", "newFirst", "newLast"}

\* The loop found the queue not empty, and nobody else empties it.
PopReady ==
  /\ pc[Loop] = "pop" => front # Null /\ back # Null
  /\ pc[Loop] = "next" => front # Null

CellSet == [Cells -> [used : BOOLEAN, msg : 0..MaxMsgs, next : Ptrs]]
TypeInv ==
  /\ front \in Ptrs /\ back \in Ptrs
  /\ cell \in CellSet
  /\ pc \in [Pushers -> {"idle"} \cup PushSteps \cup PopSteps]
  /\ new \in [Pushers -> Ptrs] /\ mine \in [Pushers -> 0..MaxMsgs] /\ pack \in Ptrs
  /\ pushed \in Seq(Msgs)
  /\ raced \in BOOLEAN /\ corrupt \in BOOLEAN /\ dangled \in BOOLEAN
  /\ \A t \in Pushers : Fresh(t) => new[t] \in Cells
  /\ PopReady

\* A step of the system is a step of one of its actions.
LEMMA Actions ==
  ASSUME [Next]_vars
  PROVE  \/ UNCHANGED vars
         \/ Transmit \/ PopTake \/ PopNext \/ Send
         \/ \E t \in Pushers : PushBegin(t)
         \/ \E t \in Pushers : PushTest(t)
         \/ \E t \in Pushers : PushNew(t)
         \/ \E t \in Pushers : PushFirst(t)
         \/ \E t \in Pushers : PushBack(t)
         \/ \E t \in Pushers : PushLink(t)
         \/ \E t \in Pushers : PushLast(t)
BY Zenon DEF Next, Pop, PushStep

\* The heap after a block is freed, and after a pointer of one is set.
LEMMA CellFree ==
  ASSUME NEW h \in CellSet, NEW c \in Cells
  PROVE  /\ [h EXCEPT ![c].used = FALSE] \in CellSet
         /\ \A d \in Cells : /\ [h EXCEPT ![c].used = FALSE][d].msg = h[d].msg
                             /\ [h EXCEPT ![c].used = FALSE][d].next = h[d].next
                             /\ d # c => [h EXCEPT ![c].used = FALSE][d].used = h[d].used
<1>1. [h[c] EXCEPT !.used = FALSE] \in [used : BOOLEAN, msg : 0..MaxMsgs, next : Ptrs]
  BY DEF CellSet
<1>2. [h EXCEPT ![c].used = FALSE] = [h EXCEPT ![c] = [h[c] EXCEPT !.used = FALSE]]
  BY DEF CellSet
<1>3. [h EXCEPT ![c] = [h[c] EXCEPT !.used = FALSE]] \in CellSet
  BY <1>1 DEF CellSet
<1> QED
  BY <1>2, <1>3 DEF CellSet

\* A message whose next pointer is set.
LEMMA CellLink ==
  ASSUME NEW h \in CellSet, NEW c \in Cells, NEW n \in Ptrs
  PROVE  /\ [h EXCEPT ![c].next = n] \in CellSet
         /\ \A d \in Cells : /\ [h EXCEPT ![c].next = n][d].msg = h[d].msg
                             /\ [h EXCEPT ![c].next = n][d].used = h[d].used
                             /\ d # c => [h EXCEPT ![c].next = n][d].next = h[d].next
         /\ [h EXCEPT ![c].next = n][c].next = n
<1>1. [h[c] EXCEPT !.next = n] \in [used : BOOLEAN, msg : 0..MaxMsgs, next : Ptrs]
  BY DEF CellSet
<1>2. [h EXCEPT ![c].next = n] = [h EXCEPT ![c] = [h[c] EXCEPT !.next = n]]
  BY DEF CellSet
<1>3. [h EXCEPT ![c] = [h[c] EXCEPT !.next = n]] \in CellSet
  BY <1>1 DEF CellSet
<1> QED
  BY <1>2, <1>3 DEF CellSet

\* At the start the types hold.
LEMMA TypeInit == Init => TypeInv
<1> SUFFICES ASSUME Init PROVE TypeInv
  OBVIOUS
<1>1. pc[Loop] = "idle" /\ \A t \in Pushers : ~Fresh(t)
  BY UartQueueAssumption DEF Init, Fresh
<1>2. raced \in BOOLEAN /\ corrupt \in BOOLEAN /\ dangled \in BOOLEAN
  BY DEF Init
<1> QED
  BY <1>1, <1>2, UartQueueAssumption DEF Init, TypeInv, PopReady, Ptrs, Msgs, CellSet

\* raced, corrupt and dangled stay truth values.
LEMMA FlagsStep ==
  ASSUME TypeInv, [Next]_vars
  PROVE  raced' \in BOOLEAN /\ corrupt' \in BOOLEAN /\ dangled' \in BOOLEAN
<1>1. raced \in BOOLEAN /\ corrupt \in BOOLEAN /\ dangled \in BOOLEAN
  BY DEF TypeInv
<1>2. raced' = raced \/ Begin
  BY Actions, Zenon DEF vars, hist, Transmit, PopTake, PopNext, Send, PushBegin, PushTest,
       PushNew, PushFirst, PushBack, PushLink, PushLast
<1>3. raced' \in BOOLEAN
  BY <1>1, <1>2, Zenon DEF Begin
<1>4. corrupt' \in {corrupt, TRUE, corrupt \/ ~cell[back].used}
  BY Actions, Zenon DEF vars, hist, Transmit, PopTake, PopNext, Send, PushBegin, PushTest,
       PushNew, PushFirst, PushBack, PushLink, PushLast
<1>5. corrupt' \in BOOLEAN
  BY <1>1, <1>4, Zenon
<1>6. \/ dangled' = dangled \/ dangled' = (dangled \/ Empty)
      \/ dangled' = (dangled \/ front \notin Allocated)
      \/ dangled' = (dangled \/ pack \notin Allocated)
  BY Actions, Zenon DEF vars, hist, Transmit, PopTake, PopNext, Send, PushBegin, PushTest,
       PushNew, PushFirst, PushBack, PushLink, PushLast
<1>7. dangled' \in BOOLEAN
  BY <1>1, <1>6, Zenon
<1> QED
  BY <1>3, <1>5, <1>7

\* Every access keeps the types, and nobody but the loop empties the queue.
LEMMA TypeStep == TypeInv /\ [Next]_vars => TypeInv'
<1> SUFFICES ASSUME TypeInv, [Next]_vars PROVE TypeInv'
  OBVIOUS
<1>f. raced' \in BOOLEAN /\ corrupt' \in BOOLEAN /\ dangled' \in BOOLEAN
  BY FlagsStep
<1> USE UartQueueAssumption DEF TypeInv, PopReady, Fresh, Ptrs, Msgs, PushSteps, PopSteps, Go, hist
<1>0. CASE UNCHANGED vars
  BY <1>0 DEF vars
<1>1. CASE Transmit
  BY <1>1, <1>f DEF Transmit, Empty
<1>2. CASE PopTake
  BY <1>2, <1>f DEF PopTake
<1>3. CASE PopNext
  BY <1>3, <1>f DEF PopNext, CellSet
<1>4. CASE Send
  <2>1. cell' \in CellSet
    <3>1. CASE pack = Null
      BY <1>4, <3>1 DEF Send
    <3>2. CASE pack \in Cells
      <4>1. pack # Null
        BY <3>2
      <4>2. cell' = [cell EXCEPT ![pack].used = FALSE]
        BY <1>4, <4>1, Zenon DEF Send
      <4>3. [cell EXCEPT ![pack].used = FALSE] \in CellSet
        BY <3>2, CellFree, Zenon
      <4> QED
        BY <4>2, <4>3, Zenon
    <3> QED
      BY <3>1, <3>2
  <2> QED
    BY <1>4, <2>1, <1>f DEF Send
<1>5. ASSUME NEW t \in Pushers, PushBegin(t) PROVE TypeInv'
  <2>1. Len(pushed) + 1 \in Msgs /\ Len(pushed) + 1 \in 0..MaxMsgs
    BY <1>5 DEF PushBegin
  <2>2. pushed' \in Seq(Msgs)
    BY <1>5, <2>1 DEF PushBegin
  <2> QED
    BY <1>5, <2>1, <2>2, <1>f DEF PushBegin
<1>6. ASSUME NEW t \in Pushers, PushTest(t) PROVE TypeInv'
  BY <1>6, <1>f DEF PushTest
<1>7. ASSUME NEW t \in Pushers, PushNew(t) PROVE TypeInv'
  <2>1. PICK c \in Cells \ Allocated :
          /\ new' = [new EXCEPT ![t] = c]
          /\ cell' = [cell EXCEPT ![c] = [used |-> TRUE, msg |-> mine[t], next |-> Null]]
    BY <1>7 DEF PushNew
  <2>2. cell' \in CellSet
    BY <2>1 DEF CellSet
  <2>3. new' \in [Pushers -> Ptrs] /\ new'[t] \in Cells
        /\ \A u \in Pushers : u # t => new'[u] = new[u]
    BY <2>1
  <2> QED
    BY <1>7, <2>2, <2>3, <1>f DEF PushNew
<1>8. ASSUME NEW t \in Pushers, PushFirst(t) PROVE TypeInv'
  BY <1>8, <1>f DEF PushFirst
<1>9. ASSUME NEW t \in Pushers, PushBack(t) PROVE TypeInv'
  BY <1>9, <1>f DEF PushBack
<1>10. ASSUME NEW t \in Pushers, PushLink(t) PROVE TypeInv'
  <2>1. cell' \in CellSet
    <3>1. CASE back = Null
      BY <1>10, <3>1 DEF PushLink
    <3>2. CASE back \in Cells
      <4>1. back # Null
        BY <3>2
      <4>2. cell' = [cell EXCEPT ![back].next = new[t]]
        BY <1>10, <4>1, Zenon DEF PushLink
      <4>3. new[t] \in Ptrs
        OBVIOUS
      <4>4. [cell EXCEPT ![back].next = new[t]] \in CellSet
        BY <3>2, <4>3, CellLink, Zenon
      <4> QED
        BY <4>2, <4>4, Zenon
    <3> QED
      BY <3>1, <3>2
  <2> QED
    BY <1>10, <2>1, <1>f DEF PushLink
<1>11. ASSUME NEW t \in Pushers, PushLast(t) PROVE TypeInv'
  BY <1>11, <1>f DEF PushLast
<1> HIDE DEF TypeInv
<1> QED
  BY <1>0, <1>1, <1>2, <1>3, <1>4, <1>5, <1>6, <1>7, <1>8, <1>9, <1>10, <1>11, Actions, Zenon

-----------------------------------------------------------------------------
(* The blocks that may still be reached *)

\* L holds the blocks a pointer may still lead to, in whatever way calls have
\* met: none is pointed to twice, nothing points to the front, to the block a
\* push holds or to the one that is being popped.
Shape(L) ==
  /\ L \subseteq Allocated /\ front \in L \cup {Null}
  /\ \A c \in L : cell[c].next \in L \cup {Null}
  /\ \A c, d \in L : cell[c].next = cell[d].next /\ cell[c].next # Null => c = d
  /\ \A c \in L : cell[c].next # Null => cell[c].next # front
Held(L) ==
  /\ \A t \in Pushers : Holds(t) =>
       new[t] \in L /\ new[t] # front /\ \A c \in L : cell[c].next # new[t]
  /\ \A t, u \in Pushers : Holds(t) /\ Holds(u) /\ new[t] = new[u] => t = u
Popped(L) ==
  /\ pc[Loop] = "next" =>
       /\ pack \in L /\ \A c \in L : cell[c].next # pack
       /\ \A t \in Pushers : Holds(t) => new[t] # pack
  /\ pc[Loop] = "send" => pack \in Allocated \ L

\* The messages of these blocks, those of the calls that have no block yet and
\* those sent are all different.
Unsent == {m \in 1..Len(pushed) : \A i \in 1..Len(sent) : sent[i] # m}
Carriers(L) == IF pc[Loop] = "send" THEN L \cup {pack} ELSE L
Texts(L) ==
  /\ \A c \in Carriers(L) : cell[c].msg \in Unsent
  /\ \A c, d \in Carriers(L) : cell[c].msg = cell[d].msg => c = d
  /\ \A t \in Pushers : Begun(t) =>
       mine[t] \in Unsent /\ \A c \in Carriers(L) : cell[c].msg # mine[t]
  /\ \A t, u \in Pushers : Begun(t) /\ Begun(u) /\ mine[t] = mine[u] => t = u
SentOnce ==
  /\ sent \in Seq(Msgs)
  /\ \A i \in 1..Len(sent) : sent[i] \in 1..Len(pushed)
  /\ \A i, j \in 1..Len(sent) : sent[i] = sent[j] => i = j

Pool(L) == Shape(L) /\ Held(L) /\ Popped(L) /\ Texts(L)
PoolInv == ~dangled /\ SentOnce /\ \E L \in SUBSET Cells : Pool(L)

\* The start: no block is in use.
LEMMA PoolInit == Init => PoolInv
<1> SUFFICES ASSUME Init PROVE PoolInv
  OBVIOUS
<1>1. pc[Loop] = "idle" /\ \A t \in Pushers : pc[t] = "idle"
  BY UartQueueAssumption DEF Init
<1>2. ~dangled
  BY DEF Init
<1>3. SentOnce
  BY DEF Init, SentOnce
<1>4. Pool({})
  BY <1>1, UartQueueAssumption DEF Init, Pool, Shape, Held, Popped, Texts, Holds, Begun, Carriers
<1> QED
  BY <1>2, <1>3, <1>4, Zenon DEF PoolInv

\* The accesses that leave the blocks and what leads to them alone.
LEMMA PoolSame ==
  ASSUME TypeInv, NEW L, Pool(L),
         UNCHANGED <<front, cell, new, mine, pack, pushed, sent>>,
         \A t \in Pushers : Holds(t)' => Holds(t),
         \A t \in Pushers : Begun(t)' => Begun(t),
         pc'[Loop] = pc[Loop] \/ (pc[Loop] \notin {"next", "send"} /\ pc'[Loop] \notin {"next", "send"})
  PROVE  Pool(L)'
<1>1. Allocated' = Allocated
  BY DEF Allocated
<1>2. Carriers(L)' = Carriers(L) /\ (pc'[Loop] = "next" <=> pc[Loop] = "next")
      /\ (pc'[Loop] = "send" <=> pc[Loop] = "send")
  BY DEF Carriers
<1>3. Shape(L)'
  BY <1>1 DEF Pool, Shape
<1>4. Held(L)'
  BY DEF Pool, Held
<1>5. Popped(L)'
  BY <1>1, <1>2 DEF Pool, Popped
<1>6. Unsent \subseteq Unsent'
  BY DEF Unsent
<1>7. Texts(L)'
  BY <1>2, <1>6 DEF Pool, Texts
<1> QED
  BY <1>3, <1>4, <1>5, <1>7 DEF Pool

\* pop() takes the front block, which nothing points to.
LEMMA PoolTake ==
  ASSUME TypeInv, NEW L \in SUBSET Cells, Pool(L), PopTake
  PROVE  Pool(L)' /\ ~Empty
<1> USE UartQueueAssumption
<1>1. /\ pc[Loop] = "pop" /\ pc' = [pc EXCEPT ![Loop] = "next"] /\ pack' = front
      /\ UNCHANGED <<front, cell, new, mine, pushed, sent>>
  BY DEF PopTake, Go, hist
<1>2. pc'[Loop] = "next" /\ \A t \in Pushers : t # Loop => pc'[t] = pc[t]
  BY <1>1 DEF TypeInv
<1>3. ~Empty /\ front # Null
  BY <1>1 DEF TypeInv, PopReady, Empty
<1>4. Allocated' = Allocated
  BY <1>1 DEF Allocated
<1>5. \A t \in Pushers : (Holds(t)' <=> Holds(t)) /\ (Begun(t)' <=> Begun(t))
  BY <1>1, <1>2 DEF Holds, Begun
<1>6. Shape(L)'
  BY <1>1, <1>4 DEF Pool, Shape
<1>7. Held(L)'
  BY <1>1, <1>5 DEF Pool, Held
<1>8. Popped(L)'
  BY <1>1, <1>2, <1>3, <1>5 DEF Pool, Popped, Shape, Held
<1>9. Unsent \subseteq Unsent'
  BY <1>1 DEF Unsent
<1>10. Carriers(L)' = L /\ Carriers(L) = L
  BY <1>1, <1>2 DEF Carriers
<1>11. Texts(L)'
  BY <1>1, <1>5, <1>9, <1>10 DEF Pool, Texts
<1> QED
  BY <1>3, <1>6, <1>7, <1>8, <1>11 DEF Pool

\* front = front->next: two blocks less may be reached, the one that was at the
\* front and the one that is being popped.  They differ when a push put its
\* block at the front meanwhile.
LEMMA PoolNext ==
  ASSUME TypeInv, NEW L \in SUBSET Cells, Pool(L), PopNext
  PROVE  /\ front \in Allocated
         /\ \E M \in SUBSET Cells : Pool(M)'
<1> USE UartQueueAssumption
<1>1. /\ pc[Loop] = "next" /\ pc' = [pc EXCEPT ![Loop] = "send"]
      /\ UNCHANGED <<cell, new, mine, pack, pushed, sent>>
  BY DEF PopNext, Go, hist
<1>2. pc'[Loop] = "send" /\ \A t \in Pushers : t # Loop => pc'[t] = pc[t]
  BY <1>1 DEF TypeInv
<1>3. front \in L /\ front \in Allocated
  BY <1>1 DEF TypeInv, PopReady, Pool, Shape
<1>3a. front' = cell[front].next
  BY <1>1 DEF TypeInv, PopReady, PopNext
<1>4. Allocated' = Allocated
  BY <1>1 DEF Allocated
<1>5. \A t \in Pushers : (Holds(t)' <=> Holds(t)) /\ (Begun(t)' <=> Begun(t))
  BY <1>1, <1>2 DEF Holds, Begun
<1>6. PICK M \in SUBSET Cells : M = L \ {front, pack}
  OBVIOUS
<1>p. pack \in L /\ (\A c \in L : cell[c].next # pack) /\ \A t \in Pushers : Holds(t) => new[t] # pack
  BY <1>1 DEF Pool, Popped
<1>7. Shape(M)'
  <2>1. M \subseteq Allocated' /\ front' \in M \cup {Null}
    BY <1>3, <1>3a, <1>4, <1>6, <1>p DEF Pool, Shape
  <2>2. \A c \in M : cell[c].next \in M \cup {Null}
    BY <1>6, <1>p, <1>3 DEF Pool, Shape
  <2>3. \A c \in M : cell[c].next # Null => cell[c].next # front'
    BY <1>3, <1>3a, <1>6 DEF Pool, Shape
  <2>4. \A c, d \in M : cell[c].next = cell[d].next /\ cell[c].next # Null => c = d
    BY <1>6 DEF Pool, Shape
  <2> QED
    BY <1>1, <2>1, <2>2, <2>3, <2>4 DEF Shape
<1>8. Held(M)'
  BY <1>1, <1>3, <1>3a, <1>5, <1>6, <1>p DEF Pool, Held
<1>9. Popped(M)'
  BY <1>1, <1>2, <1>4, <1>6, <1>p DEF Pool, Popped, Shape
<1>10. Unsent \subseteq Unsent'
  BY <1>1 DEF Unsent
<1>11. Carriers(M)' \subseteq L /\ Carriers(L) = L
  BY <1>1, <1>2, <1>6, <1>p DEF Carriers
<1>12. Texts(M)'
  BY <1>1, <1>5, <1>10, <1>11 DEF Pool, Texts
<1> QED
  BY <1>3, <1>7, <1>8, <1>9, <1>12 DEF Pool

\* The message is sent and its block freed; the block is not one of the pool.
LEMMA PoolSend ==
  ASSUME TypeInv, SentOnce, NEW L \in SUBSET Cells, Pool(L), Send
  PROVE  Pool(L)' /\ SentOnce' /\ pack \in Allocated
<1> USE UartQueueAssumption
<1>1. /\ pc[Loop] = "send" /\ pc' = [pc EXCEPT ![Loop] = "idle"]
      /\ UNCHANGED <<front, new, mine, pushed>>
  BY DEF Send, Go, hist
<1>2. pc'[Loop] = "idle" /\ \A t \in Pushers : t # Loop => pc'[t] = pc[t]
  BY <1>1 DEF TypeInv
<1>3. pack \in Allocated /\ pack \in Cells /\ pack # Null /\ pack \notin L
  BY <1>1 DEF Pool, Popped, Allocated
<1>4. /\ sent' = Append(sent, cell[pack].msg)
      /\ cell' = [cell EXCEPT ![pack].used = FALSE]
  BY <1>3, Zenon DEF Send
<1>5. \A c \in Cells : /\ cell'[c].msg = cell[c].msg /\ cell'[c].next = cell[c].next
                       /\ c # pack => cell'[c].used = cell[c].used
  <2>1. cell \in CellSet
    BY DEF TypeInv
  <2>2. \A c \in Cells : /\ [cell EXCEPT ![pack].used = FALSE][c].msg = cell[c].msg
                         /\ [cell EXCEPT ![pack].used = FALSE][c].next = cell[c].next
                         /\ c # pack => [cell EXCEPT ![pack].used = FALSE][c].used = cell[c].used
    BY <1>3, <2>1, CellFree, Zenon
  <2> QED
    BY <1>4, <2>2, Zenon
<1>6. L \subseteq Allocated /\ L \subseteq Allocated'
  BY <1>3, <1>5 DEF Pool, Shape, Allocated
<1>7. \A t \in Pushers : (Holds(t)' <=> Holds(t)) /\ (Begun(t)' <=> Begun(t))
  BY <1>1, <1>2 DEF Holds, Begun
<1>8. Carriers(L) = L \cup {pack} /\ Carriers(L)' = L
  BY <1>1, <1>2 DEF Carriers
<1>9. cell[pack].msg \in Unsent /\ cell[pack].msg \in Msgs
  BY <1>3, <1>8 DEF Pool, Texts, Unsent, TypeInv, CellSet, Msgs
<1>10. /\ sent' \in Seq(Msgs) /\ Len(sent') = Len(sent) + 1 /\ Len(sent) \in Nat
       /\ sent'[Len(sent) + 1] = cell[pack].msg
       /\ \A i \in 1..Len(sent) : sent'[i] = sent[i]
  BY <1>4, <1>9 DEF SentOnce
<1>11. SentOnce'
  <2>1. cell[pack].msg \in 1..Len(pushed) /\ \A i \in 1..Len(sent) : sent[i] # cell[pack].msg
    BY <1>9 DEF Unsent
  <2>2. \A i \in 1..Len(sent') : i \in 1..Len(sent) \/ i = Len(sent) + 1
    BY <1>10
  <2>3. \A i \in 1..Len(sent') : sent'[i] \in 1..Len(pushed')
    BY <1>1, <1>10, <2>1, <2>2 DEF SentOnce
  <2>4. \A i, j \in 1..Len(sent') : sent'[i] = sent'[j] => i = j
    BY <1>10, <2>1, <2>2 DEF SentOnce
  <2> QED
    BY <1>10, <2>3, <2>4 DEF SentOnce
<1>12. \A m \in Unsent : m # cell[pack].msg => m \in Unsent'
  BY <1>1, <1>10 DEF Unsent
<1>13. Shape(L)'
  BY <1>1, <1>5, <1>6 DEF Pool, Shape
<1>14. Held(L)'
  BY <1>1, <1>5, <1>7 DEF Pool, Held
<1>15. Popped(L)'
  BY <1>2 DEF Popped
<1>16. Texts(L)'
  <2>1. \A c \in L : cell[c].msg \in Unsent /\ cell[c].msg # cell[pack].msg
    BY <1>3, <1>8 DEF Pool, Texts
  <2>2. \A c, d \in L : cell[c].msg = cell[d].msg => c = d
    BY <1>8 DEF Pool, Texts
  <2>3. \A t \in Pushers : Begun(t) =>
          mine[t] \in Unsent /\ mine[t] # cell[pack].msg /\ \A c \in L : cell[c].msg # mine[t]
    BY <1>8 DEF Pool, Texts
  <2>4. \A t, u \in Pushers : Begun(t) /\ Begun(u) /\ mine[t] = mine[u] => t = u
    BY DEF Pool, Texts
  <2> QED
    BY <1>1, <1>5, <1>7, <1>8, <1>12, <2>1, <2>2, <2>3, <2>4 DEF Texts
<1> QED
  BY <1>3, <1>11, <1>13, <1>14, <1>15, <1>16 DEF Pool

\* A push begins: its message is a new one.
LEMMA PoolBegin ==
  ASSUME TypeInv, SentOnce, NEW L \in SUBSET Cells, Pool(L), NEW t \in Pushers, PushBegin(t)
  PROVE  Pool(L)' /\ SentOnce'
<1> USE UartQueueAssumption
<1>1. /\ pc[t] = "idle" /\ pc' = [pc EXCEPT ![t] = "test"]
      /\ pushed' = Append(pushed, Len(pushed) + 1)
      /\ mine' = [mine EXCEPT ![t] = Len(pushed) + 1]
      /\ UNCHANGED <<front, cell, new, pack, sent>>
  BY DEF PushBegin, Go
<1>2. pc'[t] = "test" /\ mine'[t] = Len(pushed) + 1
      /\ \A u \in Pushers : u # t => pc'[u] = pc[u] /\ mine'[u] = mine[u]
  BY <1>1 DEF TypeInv
<1>3. Len(pushed) \in Nat /\ Len(pushed') = Len(pushed) + 1
  BY <1>1 DEF TypeInv
<1>4. Allocated' = Allocated
  BY <1>1 DEF Allocated
<1>5. /\ \A u \in Pushers : Holds(u)' <=> Holds(u)
      /\ \A u \in Pushers : Begun(u)' <=> (u = t \/ Begun(u))
      /\ pc'[Loop] = pc[Loop] \/ (pc[Loop] = "idle" /\ pc'[Loop] = "test")
  BY <1>1, <1>2 DEF Holds, Begun
<1>6. SentOnce'
  BY <1>1, <1>3 DEF SentOnce
<1>7. /\ \A m \in Unsent : m \in Unsent' /\ m # Len(pushed) + 1
      /\ Len(pushed) + 1 \in Unsent'
  BY <1>1, <1>3 DEF Unsent, SentOnce
<1>8. Shape(L)'
  BY <1>1, <1>4 DEF Pool, Shape
<1>9. Held(L)'
  BY <1>1, <1>5 DEF Pool, Held
<1>10. Popped(L)'
  BY <1>1, <1>4, <1>5 DEF Pool, Popped
<1>11. Carriers(L)' = Carriers(L)
  BY <1>1, <1>5 DEF Carriers
<1>12. Texts(L)'
  <2>1. \A c \in Carriers(L) : cell[c].msg \in Unsent' /\ cell[c].msg # Len(pushed) + 1
    BY <1>1, <1>7 DEF Pool, Texts
  <2>2. \A u \in Pushers : Begun(u)' =>
          /\ mine'[u] \in Unsent' /\ \A c \in Carriers(L) : cell[c].msg # mine'[u]
    BY <1>2, <1>5, <1>7, <2>1 DEF Pool, Texts
  <2>3. \A u, v \in Pushers : Begun(u)' /\ Begun(v)' /\ mine'[u] = mine'[v] => u = v
    BY <1>2, <1>5, <1>7 DEF Pool, Texts
  <2>4. \A c, d \in Carriers(L) : cell[c].msg = cell[d].msg => c = d
    BY DEF Pool, Texts
  <2> QED
    BY <1>1, <1>11, <2>1, <2>2, <2>3, <2>4 DEF Texts
<1> QED
  BY <1>6, <1>8, <1>9, <1>10, <1>12 DEF Pool

\* The block that is allocated joins the pool, with its push's message.
LEMMA PoolNew ==
  ASSUME TypeInv, NEW L \in SUBSET Cells, Pool(L), NEW t \in Pushers, PushNew(t)
  PROVE  \E M \in SUBSET Cells : Pool(M)'
<1> USE UartQueueAssumption
<1>1. PICK c \in Cells \ Allocated :
        /\ new' = [new EXCEPT ![t] = c]
        /\ cell' = [cell EXCEPT ![c] = [used |-> TRUE, msg |-> mine[t], next |-> Null]]
  BY DEF PushNew
<1>2. UNCHANGED <<front, mine, pack, pushed, sent>>
  BY DEF PushNew, hist
<1>3. /\ Begun(t) /\ ~Holds(t) /\ pc'[t] \in {"first", "link"} /\ pc[t] \notin {"next", "send"}
      /\ \A u \in Pushers : u # t => pc'[u] = pc[u]
  BY DEF PushNew, Go, TypeInv, Begun, Holds
<1>4. /\ \A u \in Pushers : Holds(u)' <=> (u = t \/ Holds(u))
      /\ \A u \in Pushers : Begun(u)' <=> (u # t /\ Begun(u))
      /\ pc'[Loop] = "next" <=> pc[Loop] = "next"
      /\ pc'[Loop] = "send" <=> pc[Loop] = "send"
  BY <1>3 DEF Holds, Begun
<1>5. /\ new'[t] = c /\ \A u \in Pushers : u # t => new'[u] = new[u]
      /\ cell'[c] = [used |-> TRUE, msg |-> mine[t], next |-> Null]
      /\ \A d \in Cells : d # c => cell'[d] = cell[d]
  BY <1>1 DEF TypeInv, CellSet
<1>6. Allocated' = Allocated \cup {c}
  BY <1>5 DEF Allocated
<1>7. PICK M \in SUBSET Cells : M = L \cup {c}
  OBVIOUS
<1>8. c \notin L /\ L \subseteq Cells /\ c # Null /\ L \subseteq Allocated
  BY DEF Pool, Shape
<1>9. \A d \in L : cell'[d] = cell[d]
  BY <1>5, <1>8
<1>10. front # c /\ \A d \in L : cell[d].next # c
  BY <1>8 DEF Pool, Shape
<1>11. Shape(M)'
  <2>1. M \subseteq Allocated' /\ front' \in M \cup {Null}
    BY <1>2, <1>6, <1>7 DEF Pool, Shape
  <2>2. \A d \in M : cell'[d].next \in M \cup {Null}
    BY <1>5, <1>7, <1>9 DEF Pool, Shape
  <2>3. \A d, e \in M : cell'[d].next = cell'[e].next /\ cell'[d].next # Null => d = e
    BY <1>5, <1>7, <1>9 DEF Pool, Shape
  <2>4. \A d \in M : cell'[d].next # Null => cell'[d].next # front'
    BY <1>2, <1>5, <1>7, <1>9 DEF Pool, Shape
  <2> QED
    BY <2>1, <2>2, <2>3, <2>4 DEF Shape
<1>12. Held(M)'
  <2>1. \A u \in Pushers : Holds(u) => new[u] \in L /\ u # t /\ new[u] # c
    BY <1>3, <1>8 DEF Pool, Held
  <2>2. \A d \in M : cell'[d].next # c /\ \A u \in Pushers : Holds(u) => cell'[d].next # new[u]
    BY <1>5, <1>7, <1>8, <1>9, <1>10, <2>1 DEF Pool, Held
  <2>3. \A u \in Pushers : Holds(u)' =>
          new'[u] \in M /\ new'[u] # front' /\ \A d \in M : cell'[d].next # new'[u]
    BY <1>2, <1>4, <1>5, <1>7, <1>10, <2>1, <2>2 DEF Pool, Held
  <2>4. \A u, v \in Pushers : Holds(u)' /\ Holds(v)' /\ new'[u] = new'[v] => u = v
    BY <1>4, <1>5, <2>1 DEF Pool, Held
  <2> QED
    BY <2>3, <2>4 DEF Held
<1>13. Popped(M)'
  <2>1. ASSUME pc[Loop] = "next"
        PROVE  /\ pack \in M /\ \A d \in M : cell'[d].next # pack
               /\ \A u \in Pushers : Holds(u)' => new'[u] # pack
    <3>1. pack \in L /\ (\A d \in L : cell[d].next # pack) /\ \A u \in Pushers : Holds(u) => new[u] # pack
      BY <2>1 DEF Pool, Popped
    <3>2. pack # Null
      BY <3>1
    <3> QED
      BY <1>4, <1>5, <1>7, <1>8, <1>9, <3>1, <3>2
  <2>2. ASSUME pc[Loop] = "send" PROVE pack \in Allocated' \ M
    BY <1>6, <1>7, <2>2 DEF Pool, Popped
  <2> QED
    BY <1>2, <1>4, <2>1, <2>2 DEF Popped
<1>14. Unsent' = Unsent
  BY <1>2 DEF Unsent
<1>15. /\ Carriers(M)' = Carriers(L) \cup {c} /\ c \notin Carriers(L)
       /\ Carriers(L) \subseteq Cells
  BY <1>2, <1>4, <1>7, <1>8 DEF Carriers, Pool, Popped, Allocated
<1>16. Texts(M)'
  <2>1. \A d \in Carriers(L) : cell'[d].msg = cell[d].msg
    BY <1>5, <1>15
  <2>2. cell'[c].msg = mine[t] /\ mine[t] \in Unsent /\ \A d \in Carriers(L) : cell[d].msg # mine[t]
    BY <1>3, <1>5 DEF Pool, Texts
  <2>3. \A d \in Carriers(M)' : cell'[d].msg \in Unsent'
    BY <1>14, <1>15, <2>1, <2>2 DEF Pool, Texts
  <2>4. \A d, e \in Carriers(M)' : cell'[d].msg = cell'[e].msg => d = e
    BY <1>15, <2>1, <2>2 DEF Pool, Texts
  <2>5. \A u \in Pushers : Begun(u)' =>
          mine'[u] \in Unsent' /\ \A d \in Carriers(M)' : cell'[d].msg # mine'[u]
    BY <1>2, <1>3, <1>4, <1>14, <1>15, <2>1, <2>2 DEF Pool, Texts
  <2>6. \A u, v \in Pushers : Begun(u)' /\ Begun(v)' /\ mine'[u] = mine'[v] => u = v
    BY <1>2, <1>4 DEF Pool, Texts
  <2> QED
    BY <2>3, <2>4, <2>5, <2>6 DEF Texts
<1> QED
  BY <1>11, <1>12, <1>13, <1>16 DEF Pool

\* front = newPack: the block its push holds, which nothing points to.
LEMMA PoolFirst ==
  ASSUME TypeInv, NEW L \in SUBSET Cells, Pool(L), NEW t \in Pushers, PushFirst(t)
  PROVE  Pool(L)'
<1> USE UartQueueAssumption
<1>1. /\ pc[t] = "first" /\ pc' = [pc EXCEPT ![t] = "back"] /\ front' = new[t]
      /\ UNCHANGED <<cell, new, mine, pack, pushed, sent>>
  BY DEF PushFirst, Go, hist
<1>2. pc'[t] = "back" /\ \A u \in Pushers : u # t => pc'[u] = pc[u]
  BY <1>1 DEF TypeInv
<1>3. /\ Holds(t) /\ \A u \in Pushers : Holds(u)' <=> (u # t /\ Holds(u))
      /\ \A u \in Pushers : Begun(u)' <=> Begun(u)
      /\ pc'[Loop] = "next" <=> pc[Loop] = "next"
      /\ pc'[Loop] = "send" <=> pc[Loop] = "send"
  BY <1>1, <1>2 DEF Holds, Begun
<1>4. Allocated' = Allocated /\ Unsent' = Unsent /\ Carriers(L)' = Carriers(L)
  BY <1>1, <1>3 DEF Allocated, Unsent, Carriers
<1>5. new[t] \in L /\ \A c \in L : cell[c].next # new[t]
  BY <1>3 DEF Pool, Held
<1>6. Shape(L)'
  BY <1>1, <1>4, <1>5 DEF Pool, Shape
<1>7. Held(L)'
  BY <1>1, <1>3 DEF Pool, Held
<1>8. Popped(L)'
  BY <1>1, <1>3, <1>4 DEF Pool, Popped
<1>9. Texts(L)'
  BY <1>1, <1>3, <1>4 DEF Pool, Texts
<1> QED
  BY <1>6, <1>7, <1>8, <1>9 DEF Pool

\* back->next = newPack: into a block of the pool or into one that no pointer
\* leads to any more; in neither case is newPack pointed to twice.
LEMMA PoolLink ==
  ASSUME TypeInv, NEW L \in SUBSET Cells, Pool(L), NEW t \in Pushers, PushLink(t), back # Null
  PROVE  Pool(L)'
<1> USE UartQueueAssumption
<1>1. /\ pc[t] = "link" /\ pc' = [pc EXCEPT ![t] = "last"]
      /\ UNCHANGED <<front, new, mine, pack, pushed, sent>>
  BY DEF PushLink, Go, hist
<1>2. pc'[t] = "last" /\ \A u \in Pushers : u # t => pc'[u] = pc[u]
  BY <1>1 DEF TypeInv
<1>3. /\ Holds(t) /\ \A u \in Pushers : Holds(u)' <=> (u # t /\ Holds(u))
      /\ \A u \in Pushers : Begun(u)' <=> Begun(u)
      /\ pc'[Loop] = "next" <=> pc[Loop] = "next"
      /\ pc'[Loop] = "send" <=> pc[Loop] = "send"
  BY <1>1, <1>2 DEF Holds, Begun
<1>4. new[t] \in L /\ new[t] # front /\ \A c \in L : cell[c].next # new[t]
  BY <1>3 DEF Pool, Held
<1>5. /\ \A c \in Cells : /\ cell'[c].msg = cell[c].msg /\ cell'[c].used = cell[c].used
                          /\ c # back => cell'[c].next = cell[c].next
      /\ cell'[back].next = new[t]
  <2>1. back \in Cells
    BY DEF TypeInv, Ptrs
  <2>a. new[t] \in Ptrs
    BY DEF TypeInv
  <2>b. cell \in CellSet
    BY DEF TypeInv
  <2>2. cell' = [cell EXCEPT ![back].next = new[t]]
    BY Zenon DEF PushLink
  <2>3. \A c \in Cells : /\ [cell EXCEPT ![back].next = new[t]][c].msg = cell[c].msg
                         /\ [cell EXCEPT ![back].next = new[t]][c].used = cell[c].used
                         /\ c # back => [cell EXCEPT ![back].next = new[t]][c].next = cell[c].next
    BY <2>1, <2>a, <2>b, CellLink
  <2>4. [cell EXCEPT ![back].next = new[t]][back].next = new[t]
    BY <2>1, <2>b DEF CellSet
  <2> QED
    BY <2>2, <2>3, <2>4, Zenon
<1>6. Allocated' = Allocated /\ Unsent' = Unsent /\ Carriers(L)' = Carriers(L)
  BY <1>1, <1>3, <1>5 DEF Allocated, Unsent, Carriers
<1>7. L \subseteq Cells /\ Carriers(L) \subseteq Cells /\ new[t] # Null
  BY <1>4 DEF Carriers, Pool, Popped, Allocated
<1>8. \A c \in L : cell'[c].next = cell[c].next \/ (c = back /\ cell'[c].next = new[t])
  BY <1>5, <1>7
<1>9. Shape(L)'
  <2>1. \A c, d \in L : cell'[c].next = cell'[d].next /\ cell'[c].next # Null => c = d
    BY <1>4, <1>8 DEF Pool, Shape
  <2>2. \A c \in L : cell'[c].next \in L \cup {Null}
                     /\ (cell'[c].next # Null => cell'[c].next # front)
    BY <1>4, <1>8 DEF Pool, Shape
  <2> QED
    BY <1>1, <1>6, <2>1, <2>2 DEF Pool, Shape
<1>10. Held(L)'
  BY <1>1, <1>3, <1>8 DEF Pool, Held
<1>11. Popped(L)'
  BY <1>1, <1>3, <1>6, <1>8 DEF Pool, Popped
<1>12. Texts(L)'
  BY <1>1, <1>3, <1>5, <1>6, <1>7 DEF Pool, Texts
<1> QED
  BY <1>9, <1>10, <1>11, <1>12 DEF Pool

\* Every access keeps the pool, in whatever order the calls' accesses come.
LEMMA PoolStep == TypeInv /\ PoolInv /\ [Next]_vars => PoolInv'
<1> SUFFICES ASSUME TypeInv, PoolInv, [Next]_vars PROVE PoolInv'
  OBVIOUS
<1>p. PICK L \in SUBSET Cells : Pool(L)
  BY Zenon DEF PoolInv
<1>s. ~dangled /\ SentOnce
  BY Zenon DEF PoolInv
<1> USE UartQueueAssumption
<1>k. ASSUME ~dangled', SentOnce', \E M \in SUBSET Cells : Pool(M)' PROVE PoolInv'
  BY <1>k, Zenon DEF PoolInv
<1>e. ASSUME UNCHANGED <<pushed, sent>> PROVE SentOnce'
  BY <1>s, <1>e DEF SentOnce
<1>0. CASE UNCHANGED vars
  <2>1. Pool(L)'
    BY <1>0, <1>p, PoolSame DEF vars, Holds, Begun
  <2> QED
    BY <1>0, <1>k, <1>e, <1>s, <2>1, Zenon DEF vars
<1>1. CASE Transmit
  <2>1. Pool(L)'
    BY <1>1, <1>p, PoolSame DEF Transmit, Holds, Begun, Go, TypeInv
  <2> QED
    BY <1>1, <1>k, <1>e, <1>s, <2>1, Zenon DEF Transmit
<1>2. CASE PopTake
  <2>1. Pool(L)' /\ ~Empty
    BY <1>2, <1>p, PoolTake, Zenon
  <2> QED
    BY <1>2, <1>k, <1>e, <1>s, <2>1, Zenon DEF PopTake
<1>3. CASE PopNext
  <2>1. front \in Allocated /\ \E M \in SUBSET Cells : Pool(M)'
    BY <1>3, <1>p, PoolNext, Zenon
  <2> QED
    BY <1>3, <1>k, <1>e, <1>s, <2>1, Zenon DEF PopNext
<1>4. CASE Send
  <2>1. Pool(L)' /\ SentOnce' /\ pack \in Allocated
    BY <1>4, <1>p, <1>s, PoolSend, Zenon
  <2> QED
    BY <1>4, <1>k, <1>s, <2>1, Zenon DEF Send
<1>5. ASSUME NEW t \in Pushers, PushBegin(t) PROVE PoolInv'
  <2>1. Pool(L)' /\ SentOnce'
    BY <1>5, <1>p, <1>s, PoolBegin, Zenon
  <2> QED
    BY <1>5, <1>k, <1>s, <2>1, Zenon DEF PushBegin
<1>6. ASSUME NEW t \in Pushers, PushTest(t) PROVE PoolInv'
  <2>1. Pool(L)'
    BY <1>6, <1>p, PoolSame DEF PushTest, Holds, Begun, Go, TypeInv, hist
  <2> QED
    BY <1>6, <1>k, <1>e, <1>s, <2>1, Zenon DEF PushTest, hist
<1>7. ASSUME NEW t \in Pushers, PushNew(t) PROVE PoolInv'
  <2>1. \E M \in SUBSET Cells : Pool(M)'
    BY <1>7, <1>p, PoolNew, Zenon
  <2> QED
    BY <1>7, <1>k, <1>e, <1>s, <2>1, Zenon DEF PushNew, hist
<1>8. ASSUME NEW t \in Pushers, PushFirst(t) PROVE PoolInv'
  <2>1. Pool(L)'
    BY <1>8, <1>p, PoolFirst, Zenon
  <2> QED
    BY <1>8, <1>k, <1>e, <1>s, <2>1, Zenon DEF PushFirst, hist
<1>9. ASSUME NEW t \in Pushers, PushBack(t) PROVE PoolInv'
  <2>1. Pool(L)'
    BY <1>9, <1>p, PoolSame DEF PushBack, Holds, Begun, Go, TypeInv, hist
  <2> QED
    BY <1>9, <1>k, <1>e, <1>s, <2>1, Zenon DEF PushBack, hist
<1>10. ASSUME NEW t \in Pushers, PushLink(t) PROVE PoolInv'
  <2>1. CASE back = Null
    <3>1. UNCHANGED <<front, cell, new, mine, pack, pushed, sent>>
      BY <1>10, <2>1, Zenon DEF PushLink
    <3>2. Pool(L)'
      BY <1>10, <1>p, <3>1, PoolSame DEF PushLink, Holds, Begun, Go, TypeInv
    <3> QED
      BY <1>10, <1>k, <1>e, <1>s, <3>2, Zenon DEF PushLink
  <2>2. CASE back # Null
    <3>1. Pool(L)'
      BY <1>10, <1>p, <2>2, PoolLink, Zenon
    <3> QED
      BY <1>10, <1>k, <1>e, <1>s, <3>1, Zenon DEF PushLink
  <2> QED
    BY <2>1, <2>2, Zenon
<1>11. ASSUME NEW t \in Pushers, PushLast(t) PROVE PoolInv'
  <2>1. Pool(L)'
    BY <1>11, <1>p, PoolSame DEF PushLast, Holds, Begun, Go, TypeInv, hist
  <2> QED
    BY <1>11, <1>k, <1>e, <1>s, <2>1, Zenon DEF PushLast, hist
<1> QED
  BY <1>0, <1>1, <1>2, <1>3, <1>4, <1>5, <1>6, <1>7, <1>8, <1>9, <1>10, <1>11, Actions, Zenon

-----------------------------------------------------------------------------
(* The queue while calls do not meet *)

\* The messages of l end with the last one, but for a message on its way.
Behind == IF \E t \in Pushers : Begun(t) \/ Holds(t) THEN 1 ELSE 0

\* What each step of the one call in progress finds.
Calm(l) ==
  /\ Listing(l) /\ LastOf(l, Len(pushed) - Behind)
  /\ l # <<>> /\ (\A t \in Pushers : pc[t] \notin {"back", "last"}) => back = l[Len(l)]
  /\ \A t \in Pushers :
       /\ Begun(t) => mine[t] = Len(pushed)
       /\ pc[t] \in {"newFirst", "first"} => l = <<>>
       /\ pc[t] \in {"newLast", "link"} => l # <<>>
       /\ Holds(t) => new[t] \in Allocated /\ cell[new[t]].next = Null
                        /\ cell[new[t]].msg = Len(pushed) /\ \A i \in DOMAIN l : l[i] # new[t]
       /\ pc[t] = "back" => Len(l) = 1
       /\ pc[t] = "last" => l # <<>> /\ l[Len(l)] = new[t]
  /\ pc[Loop] = "next" => pack = front
  /\ pc[Loop] = "send" => \A i \in DOMAIN l : l[i] # pack
OneCall == \A t, u \in Pushers : pc[t] # "idle" /\ pc[u] # "idle" => t = u
CalmInv ==
  ~raced =>
    ~corrupt /\ OneCall
    /\ \E k \in 0..(Len(pushed) - Behind) : \E l \in [1..k -> Cells] : Calm(l)

\* A list of k blocks.
LEMMA ListFacts ==
  ASSUME NEW k \in Nat, NEW l \in [1..k -> Cells]
  PROVE  /\ Len(l) = k /\ DOMAIN l = 1..k /\ (l = <<>> <=> k = 0)
         /\ \A i \in 1..k : l[i] \in Cells
<1>1. Len(l) = k /\ DOMAIN l = 1..k /\ l \in Seq(Cells)
  OBVIOUS
<1> QED
  BY <1>1

\* The start: the list is empty.
LEMMA CalmInit == Init => CalmInv
<1> SUFFICES ASSUME Init PROVE CalmInv
  OBVIOUS
<1>1. \A t \in Pushers : pc[t] = "idle"
  BY DEF Init
<1>2. Behind = 0 /\ Len(pushed) = 0
  BY <1>1 DEF Init, Behind, Begun, Holds
<1>3. <<>> \in [1..0 -> Cells]
  OBVIOUS
<1>4. Calm(<<>>)
  BY <1>1, <1>2, UartQueueAssumption DEF Init, Calm, Listing, LastOf, Begun, Holds
<1>5. ~corrupt /\ OneCall
  BY <1>1, Zenon DEF Init, OneCall
<1>6. 0 \in 0..(Len(pushed) - Behind)
  BY <1>2
<1> QED
  BY <1>3, <1>4, <1>5, <1>6, Zenon DEF CalmInv

\* What a call in progress, the only one, makes of Behind.
LEMMA BehindOne ==
  ASSUME OneCall, NEW t \in Pushers, pc[t] # "idle"
  PROVE  /\ Behind = IF Begun(t) \/ Holds(t) THEN 1 ELSE 0
         /\ \A u \in Pushers : u # t => pc[u] = "idle"
BY DEF OneCall, Behind, Begun, Holds

\* No call is in progress.
LEMMA BehindNone ==
  ASSUME Quiet
  PROVE  Behind = 0 /\ OneCall
BY DEF Quiet, OneCall, Behind, Begun, Holds

\* A push begins: the queue was a list with no call in progress, or it was
\* empty, whatever calls had met before.
LEMMA CalmBegin ==
  ASSUME TypeInv, CalmInv, NEW t \in Pushers, PushBegin(t)
  PROVE  CalmInv'
<1> USE UartQueueAssumption
<1> SUFFICES ASSUME ~raced' PROVE CalmInv'
  BY Zenon DEF CalmInv
<1>1. /\ pc[t] = "idle" /\ pc' = [pc EXCEPT ![t] = "test"]
      /\ pushed' = Append(pushed, Len(pushed) + 1)
      /\ mine' = [mine EXCEPT ![t] = Len(pushed) + 1]
      /\ UNCHANGED <<front, back, cell, new, pack>>
  BY DEF PushBegin, Go
<1>2. Quiet /\ (~raced \/ (front = Null /\ ~corrupt))
  BY Zenon DEF PushBegin, Begin
<1>3. corrupt' = corrupt
  BY Zenon DEF PushBegin
<1>4. /\ \A u \in Pushers : pc'[u] = IF u = t THEN "test" ELSE "idle"
      /\ mine'[t] = Len(pushed) + 1 /\ Len(pushed) \in Nat /\ Len(pushed') = Len(pushed) + 1
  BY <1>1, <1>2 DEF TypeInv, Quiet
<1>5. OneCall' /\ Behind' = 1 /\ Behind = 0
  BY <1>2, <1>4, BehindNone DEF OneCall, Behind, Begun, Holds
<1>6. \E k \in 0..Len(pushed) : \E l \in [1..k -> Cells] : Calm(l)'
  <2>1. CASE front = Null
    <3>1. Calm(<<>>)'
      BY <1>1, <1>4, <2>1 DEF Calm, Listing, LastOf, Begun, Holds
    <3>2. <<>> \in [1..0 -> Cells] /\ 0 \in 0..Len(pushed)
      BY <1>4
    <3> QED
      BY <3>1, <3>2, Zenon
  <2>2. CASE ~raced
    <3>1. PICK k \in 0..(Len(pushed) - Behind) : \E l \in [1..k -> Cells] : Calm(l)
      BY <2>2, Zenon DEF CalmInv
    <3>2. PICK l \in [1..k -> Cells] : Calm(l)
      BY <3>1
    <3>3. \A u \in Pushers : pc[u] = "idle"
      BY <1>2 DEF Quiet
    <3>4. Calm(l)'
      BY <1>1, <1>4, <1>5, <3>2, <3>3 DEF Calm, Listing, LastOf, Begun, Holds
    <3>5. k \in 0..Len(pushed)
      BY <1>4, <1>5
    <3> QED
      BY <3>4, <3>5, Zenon
  <2> QED
    BY <1>2, <2>1, <2>2, Zenon
<1>7. ~corrupt
  BY <1>2, Zenon DEF CalmInv
<1>8. Len(pushed') - Behind' = Len(pushed)
  BY <1>4, <1>5
<1> QED
  BY <1>3, <1>5, <1>6, <1>7, <1>8, Zenon DEF CalmInv

\* The loop finds a message to pop.
LEMMA CalmTransmit ==
  ASSUME TypeInv, CalmInv, Transmit
  PROVE  CalmInv'
<1> USE UartQueueAssumption
<1> SUFFICES ASSUME ~raced' PROVE CalmInv'
  BY Zenon DEF CalmInv
<1>1. /\ pc[Loop] = "idle" /\ pc' = [pc EXCEPT ![Loop] = "pop"] /\ front # Null
      /\ UNCHANGED <<front, back, cell, new, pack, mine, pushed>>
  BY DEF Transmit, Go, Empty
<1>2. Quiet /\ ~raced /\ corrupt' = corrupt
  BY <1>1, Zenon DEF Transmit, Begin
<1>3. \A u \in Pushers : pc[u] = "idle" /\ pc'[u] = IF u = Loop THEN "pop" ELSE "idle"
  BY <1>1, <1>2 DEF TypeInv, Quiet
<1>4. OneCall' /\ Behind' = 0 /\ Behind = 0
  BY <1>2, <1>3, BehindNone DEF OneCall, Behind, Begun, Holds
<1>5. PICK k \in 0..(Len(pushed) - Behind) : \E l \in [1..k -> Cells] : Calm(l)
  BY <1>2, Zenon DEF CalmInv
<1>6. PICK l \in [1..k -> Cells] : Calm(l)
  BY <1>5
<1>7. Calm(l)'
  BY <1>1, <1>3, <1>4, <1>6 DEF Calm, Listing, LastOf, Begun, Holds
<1>8. k \in 0..(Len(pushed') - Behind') /\ ~corrupt'
  <2>1. k \in 0..(Len(pushed') - Behind')
    BY <1>1, <1>4
  <2>2. ~corrupt'
    BY <1>2, Zenon DEF CalmInv
  <2> QED
    BY <2>1, <2>2, Zenon
<1> QED
  BY <1>4, <1>7, <1>8, Zenon DEF CalmInv

\* Behind is a number.
LEMMA BehindNat == Behind \in 0..1
BY DEF Behind

\* isEmpty() tells the truth.
LEMMA CalmTest ==
  ASSUME TypeInv, CalmInv, NEW t \in Pushers, PushTest(t)
  PROVE  CalmInv'
<1> USE UartQueueAssumption
<1> SUFFICES ASSUME ~raced' PROVE CalmInv'
  BY Zenon DEF CalmInv
<1>r. ~raced
  BY Zenon DEF PushTest, hist
<1>c. ~corrupt /\ OneCall
  BY <1>r, Zenon DEF CalmInv
<1>k. PICK k \in 0..(Len(pushed) - Behind) : \E l \in [1..k -> Cells] : Calm(l)
  BY <1>r, Zenon DEF CalmInv
<1>l. PICK l \in [1..k -> Cells] : Calm(l)
  BY <1>k
<1>n. Len(pushed) \in Nat /\ k \in Nat
  BY <1>k, BehindNat DEF TypeInv
<1>f. /\ Len(l) = k /\ DOMAIN l = 1..k /\ (l = <<>> <=> k = 0)
      /\ \A i \in 1..k : l[i] \in Cells
  BY <1>n, ListFacts
<1>b. /\ Behind = IF Begun(t) \/ Holds(t) THEN 1 ELSE 0
      /\ \A u \in Pushers : u # t => pc[u] = "idle"
  <2>1. pc[t] # "idle"
    BY DEF PushTest
  <2> QED
    BY <1>c, <2>1, BehindOne
<1>1. /\ pc[t] = "test"
      /\ pc' = [pc EXCEPT ![t] = IF Empty THEN "newFirst" ELSE "newLast"]
      /\ UNCHANGED <<front, back, cell, new, mine, pack, pushed, corrupt>>
  BY DEF PushTest, Go, hist
<1>2. \A u \in Pushers : pc'[u] = IF u = t THEN IF Empty THEN "newFirst" ELSE "newLast" ELSE "idle"
  BY <1>1, <1>b DEF TypeInv
<1>3. OneCall' /\ Behind' = 1 /\ Behind = 1
  BY <1>1, <1>2, <1>b DEF OneCall, Behind, Begun, Holds
<1>4. Empty <=> l = <<>>
  <2>1. CASE l = <<>>
    BY <1>l, <2>1 DEF Calm, Listing, Empty
  <2>2. CASE l # <<>>
    <3>1. front \in Cells
      BY <1>l, <1>f, <1>n, <2>2 DEF Calm, Listing
    <3>2. back \in Cells
      BY <1>1, <1>b, <1>l, <1>f, <1>n, <2>2 DEF Calm
    <3> QED
      BY <2>2, <3>1, <3>2 DEF Empty
  <2> QED
    BY <2>1, <2>2
<1>5. Calm(l)'
  BY <1>1, <1>2, <1>3, <1>4, <1>l DEF Calm, Listing, LastOf, Begun, Holds
<1> QED
  BY <1>1, <1>3, <1>5, <1>k, <1>c, <1>r, Zenon DEF CalmInv

\* The new block is none of the list.
LEMMA CalmNew ==
  ASSUME TypeInv, CalmInv, NEW t \in Pushers, PushNew(t)
  PROVE  CalmInv'
<1> USE UartQueueAssumption
<1> SUFFICES ASSUME ~raced' PROVE CalmInv'
  BY Zenon DEF CalmInv
<1>r. ~raced
  BY Zenon DEF PushNew, hist
<1>c. ~corrupt /\ OneCall
  BY <1>r, Zenon DEF CalmInv
<1>k. PICK k \in 0..(Len(pushed) - Behind) : \E l \in [1..k -> Cells] : Calm(l)
  BY <1>r, Zenon DEF CalmInv
<1>l. PICK l \in [1..k -> Cells] : Calm(l)
  BY <1>k
<1>n. Len(pushed) \in Nat /\ k \in Nat
  BY <1>k, BehindNat DEF TypeInv
<1>f. /\ Len(l) = k /\ DOMAIN l = 1..k /\ (l = <<>> <=> k = 0)
      /\ \A i \in 1..k : l[i] \in Cells
  BY <1>n, ListFacts
<1>b. /\ Behind = IF Begun(t) \/ Holds(t) THEN 1 ELSE 0
      /\ \A u \in Pushers : u # t => pc[u] = "idle"
  <2>1. pc[t] # "idle"
    BY DEF PushNew
  <2> QED
    BY <1>c, <2>1, BehindOne
<1>0. PICK c \in Cells \ Allocated :
        /\ new' = [new EXCEPT ![t] = c]
        /\ cell' = [cell EXCEPT ![c] = [used |-> TRUE, msg |-> mine[t], next |-> Null]]
  BY DEF PushNew
<1>1. /\ \/ pc[t] = "newFirst" /\ pc'[t] = "first"
         \/ pc[t] = "newLast" /\ pc'[t] = "link"
      /\ \A u \in Pushers : u # t => pc'[u] = "idle"
      /\ UNCHANGED <<front, back, mine, pack, pushed, corrupt>>
  BY <1>b DEF PushNew, Go, hist, TypeInv
<1>2. /\ new'[t] = c /\ cell'[c] = [used |-> TRUE, msg |-> mine[t], next |-> Null]
      /\ \A d \in Cells : d # c => cell'[d] = cell[d]
  BY <1>0 DEF TypeInv, CellSet
<1>3. OneCall' /\ Behind' = 1 /\ Behind = 1
  BY <1>1, <1>b DEF OneCall, Behind, Begun, Holds
<1>4. \A i \in 1..k : l[i] # c /\ cell'[l[i]] = cell[l[i]]
  BY <1>0, <1>2, <1>f, <1>l DEF Calm, Listing, Allocated
<1>5. Listing(l)' /\ LastOf(l, Len(pushed) - Behind)'
  BY <1>1, <1>3, <1>4, <1>f, <1>l DEF Calm, Listing, LastOf
<1>6. Calm(l)'
  BY <1>1, <1>2, <1>3, <1>4, <1>5, <1>b, <1>f, <1>l DEF Calm, Begun, Holds, Allocated
<1> QED
  BY <1>1, <1>3, <1>6, <1>k, <1>c, <1>r, Zenon DEF CalmInv

\* front = newPack: a list of one.
LEMMA CalmFirst ==
  ASSUME TypeInv, CalmInv, NEW t \in Pushers, PushFirst(t)
  PROVE  CalmInv'
<1> USE UartQueueAssumption
<1> SUFFICES ASSUME ~raced' PROVE CalmInv'
  BY Zenon DEF CalmInv
<1>r. ~raced
  BY Zenon DEF PushFirst, hist
<1>c. ~corrupt /\ OneCall
  BY <1>r, Zenon DEF CalmInv
<1>k. PICK k \in 0..(Len(pushed) - Behind) : \E l \in [1..k -> Cells] : Calm(l)
  BY <1>r, Zenon DEF CalmInv
<1>l. PICK l \in [1..k -> Cells] : Calm(l)
  BY <1>k
<1>n. Len(pushed) \in Nat /\ k \in Nat
  BY <1>k, BehindNat DEF TypeInv
<1>f. /\ Len(l) = k /\ DOMAIN l = 1..k /\ (l = <<>> <=> k = 0)
      /\ \A i \in 1..k : l[i] \in Cells
  BY <1>n, ListFacts
<1>b. /\ Behind = IF Begun(t) \/ Holds(t) THEN 1 ELSE 0
      /\ \A u \in Pushers : u # t => pc[u] = "idle"
  <2>1. pc[t] # "idle"
    BY DEF PushFirst
  <2> QED
    BY <1>c, <2>1, BehindOne
<1>1. /\ pc[t] = "first" /\ pc' = [pc EXCEPT ![t] = "back"] /\ front' = new[t]
      /\ UNCHANGED <<back, cell, new, mine, pack, pushed, corrupt>>
  BY DEF PushFirst, Go, hist
<1>2. \A u \in Pushers : pc'[u] = IF u = t THEN "back" ELSE "idle"
  BY <1>1, <1>b DEF TypeInv
<1>3. OneCall' /\ Behind' = 0 /\ Behind = 1
  BY <1>1, <1>2, <1>b DEF OneCall, Behind, Begun, Holds
<1>4. new[t] \in Cells /\ cell[new[t]].used /\ cell[new[t]].next = Null
      /\ cell[new[t]].msg = Len(pushed)
  BY <1>1, <1>l DEF Calm, Holds, Allocated
<1>5. PICK m \in [1..1 -> Cells] : m[1] = new[t]
  <2> DEFINE f == [i \in 1..1 |-> new[t]]
  <2>1. f \in [1..1 -> Cells] /\ f[1] = new[t]
    BY <1>4
  <2> QED
    BY <2>1, Zenon
<1>6. Len(m) = 1 /\ DOMAIN m = 1..1 /\ m # <<>>
  <2>1. 1 \in Nat
    OBVIOUS
  <2>2. Len(m) = 1 /\ DOMAIN m = 1..1 /\ (m = <<>> <=> 1 = 0)
    BY <2>1, ListFacts, Zenon
  <2> QED
    BY <2>2
<1>7. Calm(m)'
  BY <1>1, <1>2, <1>3, <1>4, <1>5, <1>6, <1>n DEF Calm, Listing, LastOf, Begun, Holds
<1>8. 1 \in 0..(Len(pushed') - Behind')
  BY <1>1, <1>3, <1>k, <1>n
<1> QED
  BY <1>1, <1>3, <1>7, <1>8, <1>c, <1>r, Zenon DEF CalmInv

\* back = front: the same block.
LEMMA CalmBack ==
  ASSUME TypeInv, CalmInv, NEW t \in Pushers, PushBack(t)
  PROVE  CalmInv'
<1> USE UartQueueAssumption
<1> SUFFICES ASSUME ~raced' PROVE CalmInv'
  BY Zenon DEF CalmInv
<1>r. ~raced
  BY Zenon DEF PushBack, hist
<1>c. ~corrupt /\ OneCall
  BY <1>r, Zenon DEF CalmInv
<1>k. PICK k \in 0..(Len(pushed) - Behind) : \E l \in [1..k -> Cells] : Calm(l)
  BY <1>r, Zenon DEF CalmInv
<1>l. PICK l \in [1..k -> Cells] : Calm(l)
  BY <1>k
<1>n. Len(pushed) \in Nat /\ k \in Nat
  BY <1>k, BehindNat DEF TypeInv
<1>f. /\ Len(l) = k /\ DOMAIN l = 1..k /\ (l = <<>> <=> k = 0)
      /\ \A i \in 1..k : l[i] \in Cells
  BY <1>n, ListFacts
<1>b. /\ Behind = IF Begun(t) \/ Holds(t) THEN 1 ELSE 0
      /\ \A u \in Pushers : u # t => pc[u] = "idle"
  <2>1. pc[t] # "idle"
    BY DEF PushBack
  <2> QED
    BY <1>c, <2>1, BehindOne
<1>1. /\ pc[t] = "back" /\ pc' = [pc EXCEPT ![t] = "idle"] /\ back' = front
      /\ UNCHANGED <<front, cell, new, mine, pack, pushed, corrupt>>
  BY DEF PushBack, Go, hist
<1>2. \A u \in Pushers : pc'[u] = "idle"
  BY <1>1, <1>b DEF TypeInv
<1>3. OneCall' /\ Behind' = 0 /\ Behind = 0
  BY <1>1, <1>2, <1>b DEF OneCall, Behind, Begun, Holds
<1>4. Len(l) = 1
  BY <1>1, <1>l DEF Calm
<1>5. Calm(l)'
  BY <1>1, <1>2, <1>3, <1>4, <1>f, <1>l DEF Calm, Listing, LastOf, Begun, Holds
<1> QED
  BY <1>1, <1>3, <1>5, <1>k, <1>c, <1>r, Zenon DEF CalmInv

\* back->next = newPack: the list is longer by one.
LEMMA CalmLink ==
  ASSUME TypeInv, CalmInv, NEW t \in Pushers, PushLink(t)
  PROVE  CalmInv'
<1> USE UartQueueAssumption
<1> SUFFICES ASSUME ~raced' PROVE CalmInv'
  BY Zenon DEF CalmInv
<1>r. ~raced
  BY Zenon DEF PushLink, hist
<1>c. ~corrupt /\ OneCall
  BY <1>r, Zenon DEF CalmInv
<1>k. PICK k \in 0..(Len(pushed) - Behind) : \E l \in [1..k -> Cells] : Calm(l)
  BY <1>r, Zenon DEF CalmInv
<1>l. PICK l \in [1..k -> Cells] : Calm(l)
  BY <1>k
<1>n. Len(pushed) \in Nat /\ k \in Nat
  BY <1>k, BehindNat DEF TypeInv
<1>f. /\ Len(l) = k /\ DOMAIN l = 1..k /\ (l = <<>> <=> k = 0)
      /\ \A i \in 1..k : l[i] \in Cells
  BY <1>n, ListFacts
<1>b. /\ Behind = IF Begun(t) \/ Holds(t) THEN 1 ELSE 0
      /\ \A u \in Pushers : u # t => pc[u] = "idle"
  <2>1. pc[t] # "idle"
    BY DEF PushLink
  <2> QED
    BY <1>c, <2>1, BehindOne
<1>1. /\ pc[t] = "link" /\ pc' = [pc EXCEPT ![t] = "last"]
      /\ UNCHANGED <<front, back, new, mine, pack, pushed>>
  BY DEF PushLink, Go, hist
<1>2. \A u \in Pushers : pc'[u] = IF u = t THEN "last" ELSE "idle"
  BY <1>1, <1>b DEF TypeInv
<1>3. OneCall' /\ Behind' = 0 /\ Behind = 1
  BY <1>1, <1>2, <1>b DEF OneCall, Behind, Begun, Holds
<1>4. /\ new[t] \in Cells /\ cell[new[t]].used /\ cell[new[t]].next = Null
      /\ cell[new[t]].msg = Len(pushed) /\ \A i \in 1..k : l[i] # new[t]
  BY <1>1, <1>f, <1>l DEF Calm, Holds, Allocated
<1>5. k > 0 /\ back = l[k] /\ back \in Cells /\ cell[back].used /\ back # Null
  <2>1. l # <<>>
    BY <1>1, <1>l DEF Calm
  <2>2. k > 0 /\ back = l[k]
    BY <1>1, <1>b, <1>f, <1>l, <1>n, <2>1 DEF Calm
  <2> QED
    BY <1>f, <1>l, <1>n, <2>2 DEF Calm, Listing
<1>6. ~corrupt'
  <2>1. corrupt' = (corrupt \/ ~cell[back].used)
    BY <1>5, Zenon DEF PushLink
  <2> QED
    BY <1>c, <1>5, <2>1, Zenon
<1>7. /\ \A c \in Cells : /\ cell'[c].msg = cell[c].msg /\ cell'[c].used = cell[c].used
                          /\ c # back => cell'[c].next = cell[c].next
      /\ cell'[back].next = new[t]
  <2>1. cell \in CellSet /\ new[t] \in Ptrs
    BY DEF TypeInv
  <2>2. cell' = [cell EXCEPT ![back].next = new[t]]
    BY <1>5, Zenon DEF PushLink
  <2>3. \A c \in Cells : /\ [cell EXCEPT ![back].next = new[t]][c].msg = cell[c].msg
                         /\ [cell EXCEPT ![back].next = new[t]][c].used = cell[c].used
                         /\ c # back => [cell EXCEPT ![back].next = new[t]][c].next = cell[c].next
    BY <1>5, <2>1, CellLink
  <2>4. [cell EXCEPT ![back].next = new[t]][back].next = new[t]
    BY <1>5, <2>1 DEF CellSet
  <2> QED
    BY <2>2, <2>3, <2>4, Zenon
<1>8. PICK m \in [1..(k + 1) -> Cells] :
        m[k + 1] = new[t] /\ \A i \in 1..k : m[i] = l[i]
  <2> DEFINE f == [i \in 1..(k + 1) |-> IF i = k + 1 THEN new[t] ELSE l[i]]
  <2>1. f \in [1..(k + 1) -> Cells]
    BY <1>4, <1>f, <1>n
  <2>2. f[k + 1] = new[t] /\ \A i \in 1..k : f[i] = l[i]
    BY <1>n
  <2> HIDE DEF f
  <2> QED
    BY <2>1, <2>2, Zenon
<1>9. Len(m) = k + 1 /\ DOMAIN m = 1..(k + 1) /\ m # <<>>
  BY <1>n, ListFacts
<1>10. \A i \in 1..(k + 1) : i \in 1..k \/ i = k + 1
  BY <1>n
<1>11. \A i \in 1..k : i < k => l[i] # back
  BY <1>5, <1>f, <1>l, <1>n, UartQueueAssumption DEF Calm, Listing
<1>12. Listing(m)'
  <2>1. front' = m[1]
    BY <1>1, <1>5, <1>8, <1>f, <1>l, <1>n DEF Calm, Listing
  <2>2. \A i \in 1..k : cell'[m[i]].used /\ cell'[m[i]].next = m[i + 1]
    <3>1. ASSUME NEW i \in 1..k PROVE cell'[m[i]].used /\ cell'[m[i]].next = m[i + 1]
      <4>1. m[i] = l[i] /\ l[i] \in Cells /\ cell[l[i]].used
            /\ cell[l[i]].next = IF i = k THEN Null ELSE l[i + 1]
        BY <1>8, <1>f, <1>l DEF Calm, Listing
      <4>2. CASE i = k
        BY <1>5, <1>7, <1>8, <4>1, <4>2
      <4>3. CASE i # k
        <5>1. i < k /\ i + 1 \in 1..k
          BY <1>n, <4>3
        <5>2. m[i + 1] = l[i + 1] /\ l[i] # back
          BY <1>8, <1>11, <5>1
        <5> QED
          BY <1>7, <4>1, <4>3, <5>2
      <4> QED
        BY <4>2, <4>3
    <3> QED
      BY <3>1
  <2>3. cell'[m[k + 1]].used /\ cell'[m[k + 1]].next = Null
    BY <1>4, <1>5, <1>7, <1>8, <1>n
  <2>4. \A i \in 1..k : i # k + 1
    BY <1>n
  <2> QED
    BY <1>9, <1>10, <2>1, <2>2, <2>3, <2>4 DEF Listing
<1>13. LastOf(m, Len(pushed) - Behind)'
  <2>1. \A i \in 1..k : cell'[m[i]].msg = Len(pushed) - 1 - k + i
    <3>1. \A i \in 1..k : cell[l[i]].msg = Len(pushed) - Behind - k + i
      BY <1>f, <1>l, Zenon DEF Calm, LastOf
    <3>2. \A i \in 1..k : m[i] = l[i] /\ l[i] \in Cells
      BY <1>8, <1>f
    <3> QED
      BY <1>3, <1>7, <3>1, <3>2
  <2>2. cell'[m[k + 1]].msg = Len(pushed)
    BY <1>4, <1>7, <1>8
  <2>3. \A i \in 1..(k + 1) : cell'[m[i]].msg = Len(pushed) - (k + 1) + i
    <3>1. Len(pushed) - 1 - k \in Int /\ Len(pushed) = Len(pushed) - (k + 1) + (k + 1)
          /\ \A i \in 1..k : Len(pushed) - 1 - k + i = Len(pushed) - (k + 1) + i
      BY <1>n
    <3> QED
      BY <1>10, <2>1, <2>2, <3>1
  <2>4. Len(pushed') - Behind' = Len(pushed)
    BY <1>1, <1>3, <1>n
  <2> QED
    BY <1>9, <2>3, <2>4 DEF LastOf
<1>14. Calm(m)'
  BY <1>2, <1>8, <1>9, <1>12, <1>13, <1>1 DEF Calm, Begun, Holds
<1>15. k + 1 \in 0..(Len(pushed') - Behind')
  BY <1>1, <1>3, <1>k, <1>n
<1> QED
  BY <1>3, <1>6, <1>14, <1>15, Zenon DEF CalmInv

\* back = newPack: the last block of the list.
LEMMA CalmLast ==
  ASSUME TypeInv, CalmInv, NEW t \in Pushers, PushLast(t)
  PROVE  CalmInv'
<1> USE UartQueueAssumption
<1> SUFFICES ASSUME ~raced' PROVE CalmInv'
  BY Zenon DEF CalmInv
<1>r. ~raced
  BY Zenon DEF PushLast, hist
<1>c. ~corrupt /\ OneCall
  BY <1>r, Zenon DEF CalmInv
<1>k. PICK k \in 0..(Len(pushed) - Behind) : \E l \in [1..k -> Cells] : Calm(l)
  BY <1>r, Zenon DEF CalmInv
<1>l. PICK l \in [1..k -> Cells] : Calm(l)
  BY <1>k
<1>n. Len(pushed) \in Nat /\ k \in Nat
  BY <1>k, BehindNat DEF TypeInv
<1>f. /\ Len(l) = k /\ DOMAIN l = 1..k /\ (l = <<>> <=> k = 0)
      /\ \A i \in 1..k : l[i] \in Cells
  BY <1>n, ListFacts
<1>b. /\ Behind = IF Begun(t) \/ Holds(t) THEN 1 ELSE 0
      /\ \A u \in Pushers : u # t => pc[u] = "idle"
  <2>1. pc[t] # "idle"
    BY DEF PushLast
  <2> QED
    BY <1>c, <2>1, BehindOne
<1>1. /\ pc[t] = "last" /\ pc' = [pc EXCEPT ![t] = "idle"] /\ back' = new[t]
      /\ UNCHANGED <<front, cell, new, mine, pack, pushed, corrupt>>
  BY DEF PushLast, Go, hist
<1>2. \A u \in Pushers : pc'[u] = "idle"
  BY <1>1, <1>b DEF TypeInv
<1>3. OneCall' /\ Behind' = 0 /\ Behind = 0
  BY <1>1, <1>2, <1>b DEF OneCall, Behind, Begun, Holds
<1>4. l[Len(l)] = new[t]
  BY <1>1, <1>l DEF Calm
<1>5. Calm(l)'
  BY <1>1, <1>2, <1>3, <1>4, <1>l DEF Calm, Listing, LastOf, Begun, Holds
<1> QED
  BY <1>1, <1>3, <1>5, <1>k, <1>c, <1>r, Zenon DEF CalmInv

\* pop() takes the front block.
LEMMA CalmTake ==
  ASSUME TypeInv, CalmInv, PopTake
  PROVE  CalmInv'
<1> USE UartQueueAssumption
<1> SUFFICES ASSUME ~raced' PROVE CalmInv'
  BY Zenon DEF CalmInv
<1>r. ~raced
  BY Zenon DEF PopTake, hist
<1>c. ~corrupt /\ OneCall
  BY <1>r, Zenon DEF CalmInv
<1>k. PICK k \in 0..(Len(pushed) - Behind) : \E l \in [1..k -> Cells] : Calm(l)
  BY <1>r, Zenon DEF CalmInv
<1>l. PICK l \in [1..k -> Cells] : Calm(l)
  BY <1>k
<1>n. Len(pushed) \in Nat /\ k \in Nat
  BY <1>k, BehindNat DEF TypeInv
<1>f. /\ Len(l) = k /\ DOMAIN l = 1..k /\ (l = <<>> <=> k = 0)
      /\ \A i \in 1..k : l[i] \in Cells
  BY <1>n, ListFacts
<1>b. /\ Behind = IF Begun(Loop) \/ Holds(Loop) THEN 1 ELSE 0
      /\ \A u \in Pushers : u # Loop => pc[u] = "idle"
  <2>1. pc[Loop] # "idle"
    BY DEF PopTake
  <2> QED
    BY <1>c, <2>1, BehindOne
<1>1. /\ pc[Loop] = "pop" /\ pc' = [pc EXCEPT ![Loop] = "next"] /\ pack' = front
      /\ UNCHANGED <<front, back, cell, new, mine, pushed, corrupt>>
  BY DEF PopTake, Go
<1>2. \A u \in Pushers : pc'[u] = IF u = Loop THEN "next" ELSE "idle"
  BY <1>1, <1>b DEF TypeInv
<1>3. OneCall' /\ Behind' = 0 /\ Behind = 0
  BY <1>1, <1>2, <1>b DEF OneCall, Behind, Begun, Holds
<1>4. \A u \in Pushers : pc[u] \notin {"back", "last"}
  BY <1>1, <1>b
<1>5. Calm(l)'
  BY <1>1, <1>2, <1>3, <1>4, <1>l DEF Calm, Listing, LastOf, Begun, Holds
<1> QED
  BY <1>1, <1>3, <1>5, <1>k, <1>c, <1>r, Zenon DEF CalmInv

\* front = front->next: the list without its first block.
LEMMA CalmNext ==
  ASSUME TypeInv, CalmInv, PopNext
  PROVE  CalmInv'
<1> USE UartQueueAssumption
<1> SUFFICES ASSUME ~raced' PROVE CalmInv'
  BY Zenon DEF CalmInv
<1>r. ~raced
  BY Zenon DEF PopNext, hist
<1>c. ~corrupt /\ OneCall
  BY <1>r, Zenon DEF CalmInv
<1>k. PICK k \in 0..(Len(pushed) - Behind) : \E l \in [1..k -> Cells] : Calm(l)
  BY <1>r, Zenon DEF CalmInv
<1>l. PICK l \in [1..k -> Cells] : Calm(l)
  BY <1>k
<1>n. Len(pushed) \in Nat /\ k \in Nat
  BY <1>k, BehindNat DEF TypeInv
<1>f. /\ Len(l) = k /\ DOMAIN l = 1..k /\ (l = <<>> <=> k = 0)
      /\ \A i \in 1..k : l[i] \in Cells
  BY <1>n, ListFacts
<1>b. /\ Behind = IF Begun(Loop) \/ Holds(Loop) THEN 1 ELSE 0
      /\ \A u \in Pushers : u # Loop => pc[u] = "idle"
  <2>1. pc[Loop] # "idle"
    BY DEF PopNext
  <2> QED
    BY <1>c, <2>1, BehindOne
<1>1. /\ pc[Loop] = "next" /\ pc' = [pc EXCEPT ![Loop] = "send"]
      /\ UNCHANGED <<back, cell, new, mine, pack, pushed, corrupt>>
  BY DEF PopNext, Go
<1>2. \A u \in Pushers : pc'[u] = IF u = Loop THEN "send" ELSE "idle"
  BY <1>1, <1>b DEF TypeInv
<1>3. OneCall' /\ Behind' = 0 /\ Behind = 0
  BY <1>1, <1>2, <1>b DEF OneCall, Behind, Begun, Holds
<1>4. front # Null /\ front' = cell[front].next
  BY <1>1 DEF PopNext, TypeInv, PopReady
<1>5. k > 0 /\ front = l[1] /\ pack = l[1] /\ back = l[k]
  <2>1. l # <<>>
    BY <1>4, <1>l DEF Calm, Listing
  <2> QED
    BY <1>1, <1>b, <1>f, <1>l, <1>n, <2>1 DEF Calm, Listing
<1>6. PICK j \in Nat : k = j + 1
  <2>1. k - 1 \in Nat /\ k = (k - 1) + 1
    BY <1>5, <1>n
  <2> QED
    BY <2>1, Zenon
<1>7. PICK m \in [1..j -> Cells] : \A i \in 1..j : m[i] = l[i + 1]
  <2> DEFINE f == [i \in 1..j |-> l[i + 1]]
  <2>1. \A i \in 1..j : i + 1 \in 1..k
    BY <1>6
  <2>2. f \in [1..j -> Cells]
    BY <1>f, <2>1
  <2>3. \A i \in 1..j : f[i] = l[i + 1]
    OBVIOUS
  <2> HIDE DEF f
  <2> QED
    BY <2>2, <2>3, Zenon
<1>8. Len(m) = j /\ DOMAIN m = 1..j /\ (m = <<>> <=> j = 0)
  BY <1>6, ListFacts
<1>9. /\ \A i \in 1..k : /\ cell[l[i]].used /\ cell[l[i]].msg = Len(pushed) - k + i
                         /\ cell[l[i]].next = IF i = k THEN Null ELSE l[i + 1]
      /\ \A i \in 1..j : i + 1 \in 1..k /\ (i + 1 = k <=> i = j)
  <2>1. \A i \in 1..k : cell[l[i]].msg = Len(pushed) - Behind - k + i
    BY <1>f, <1>l, Zenon DEF Calm, LastOf
  <2>2. \A i \in 1..k : cell[l[i]].msg = Len(pushed) - k + i
    BY <1>3, <1>n, <2>1
  <2>3. \A i \in 1..k : cell[l[i]].used /\ cell[l[i]].next = IF i = k THEN Null ELSE l[i + 1]
    BY <1>f, <1>l, Zenon DEF Calm, Listing
  <2>4. \A i \in 1..j : i + 1 \in 1..k /\ (i + 1 = k <=> i = j)
    BY <1>6
  <2> QED
    BY <2>2, <2>3, <2>4
<1>10. Listing(m)'
  <2>1. front' = IF j = 0 THEN Null ELSE m[1]
    BY <1>4, <1>5, <1>6, <1>7, <1>9
  <2>2. \A i \in 1..j : cell[m[i]].used /\ cell[m[i]].next = IF i = j THEN Null ELSE m[i + 1]
    <3>1. ASSUME NEW i \in 1..j
          PROVE  cell[m[i]].used /\ cell[m[i]].next = IF i = j THEN Null ELSE m[i + 1]
      <4>1. i + 1 \in 1..k /\ m[i] = l[i + 1] /\ (i # j => m[i + 1] = l[i + 2])
        <5>1. i # j => i + 1 \in 1..j
          BY <1>6
        <5> QED
          BY <1>7, <1>9, <5>1
      <4> QED
        BY <1>6, <1>9, <4>1
    <3> QED
      BY <3>1
  <2> QED
    BY <1>1, <1>8, <2>1, <2>2 DEF Listing
<1>11. LastOf(m, Len(pushed) - Behind)'
  <2>1. \A i \in 1..j : cell[m[i]].msg = Len(pushed) - k + (i + 1)
    BY <1>7, <1>9
  <2>2. \A i \in 1..j : Len(pushed) - k + (i + 1) = Len(pushed') - Behind' - j + i
    BY <1>1, <1>3, <1>6, <1>n
  <2> QED
    BY <1>1, <1>8, <2>1, <2>2 DEF LastOf
<1>12. \A i \in 1..j : m[i] # pack
  <2>1. \A i \in 1..j : cell[m[i]].msg = Len(pushed) - k + (i + 1)
    BY <1>7, <1>9
  <2>2. cell[pack].msg = Len(pushed) - k + 1
    BY <1>5, <1>6, <1>9
  <2>3. \A i \in 1..j : Len(pushed) - k + (i + 1) # Len(pushed) - k + 1
    BY <1>6, <1>n
  <2> QED
    BY <2>1, <2>2, <2>3
<1>13. j > 0 => back = m[j]
  BY <1>5, <1>6, <1>7
<1>14. Calm(m)'
  BY <1>1, <1>2, <1>8, <1>10, <1>11, <1>12, <1>13 DEF Calm, Begun, Holds
<1>15. j \in 0..(Len(pushed') - Behind')
  BY <1>1, <1>3, <1>6, <1>k, <1>n
<1> QED
  BY <1>1, <1>3, <1>14, <1>15, <1>c, <1>r, Zenon DEF CalmInv

\* The block that is freed is none of the list.
LEMMA CalmSend ==
  ASSUME TypeInv, CalmInv, Send
  PROVE  CalmInv'
<1> USE UartQueueAssumption
<1> SUFFICES ASSUME ~raced' PROVE CalmInv'
  BY Zenon DEF CalmInv
<1>r. ~raced
  BY Zenon DEF Send, hist
<1>c. ~corrupt /\ OneCall
  BY <1>r, Zenon DEF CalmInv
<1>k. PICK k \in 0..(Len(pushed) - Behind) : \E l \in [1..k -> Cells] : Calm(l)
  BY <1>r, Zenon DEF CalmInv
<1>l. PICK l \in [1..k -> Cells] : Calm(l)
  BY <1>k
<1>n. Len(pushed) \in Nat /\ k \in Nat
  BY <1>k, BehindNat DEF TypeInv
<1>f. /\ Len(l) = k /\ DOMAIN l = 1..k /\ (l = <<>> <=> k = 0)
      /\ \A i \in 1..k : l[i] \in Cells
  BY <1>n, ListFacts
<1>b. /\ Behind = IF Begun(Loop) \/ Holds(Loop) THEN 1 ELSE 0
      /\ \A u \in Pushers : u # Loop => pc[u] = "idle"
  <2>1. pc[Loop] # "idle"
    BY DEF Send
  <2> QED
    BY <1>c, <2>1, BehindOne
<1>1. /\ pc[Loop] = "send" /\ pc' = [pc EXCEPT ![Loop] = "idle"]
      /\ UNCHANGED <<front, back, new, mine, pushed, corrupt>>
  BY DEF Send, Go
<1>2. \A u \in Pushers : pc'[u] = "idle"
  BY <1>1, <1>b DEF TypeInv
<1>3. OneCall' /\ Behind' = 0 /\ Behind = 0
  BY <1>1, <1>2, <1>b DEF OneCall, Behind, Begun, Holds
<1>4. \A i \in 1..k : l[i] # pack
  BY <1>1, <1>f, <1>l DEF Calm
<1>5. \A c \in Cells : c # pack => cell'[c] = cell[c]
  BY DEF Send, TypeInv, CellSet
<1>6. \A i \in 1..k : cell'[l[i]] = cell[l[i]]
  BY <1>4, <1>5, <1>f
<1>7. \A u \in Pushers : pc[u] \notin {"back", "last"}
  BY <1>1, <1>b
<1>8. Calm(l)'
  BY <1>1, <1>2, <1>3, <1>6, <1>7, <1>f, <1>l DEF Calm, Listing, LastOf, Begun, Holds
<1> QED
  BY <1>1, <1>3, <1>8, <1>k, <1>c, <1>r, Zenon DEF CalmInv

\* Every access keeps the list, until two calls meet.
LEMMA CalmStep == TypeInv /\ CalmInv /\ [Next]_vars => CalmInv'
<1> SUFFICES ASSUME TypeInv, CalmInv, [Next]_vars PROVE CalmInv'
  OBVIOUS
<1>0. CASE UNCHANGED vars
  <2>1. \A l : Calm(l)' <=> Calm(l)
    BY <1>0 DEF vars, Calm, Listing, LastOf, Behind, Begun, Holds, Allocated
  <2>2. (OneCall' <=> OneCall) /\ Behind' = Behind
    BY <1>0 DEF vars, OneCall, Behind, Begun, Holds
  <2>3. raced' = raced /\ corrupt' = corrupt /\ pushed' = pushed
    BY <1>0 DEF vars
  <2> QED
    BY <2>1, <2>2, <2>3, Zenon DEF CalmInv
<1>1. CASE Transmit
  BY <1>1, CalmTransmit
<1>2. CASE PopTake
  BY <1>2, CalmTake
<1>3. CASE PopNext
  BY <1>3, CalmNext
<1>4. CASE Send
  BY <1>4, CalmSend
<1>5. ASSUME NEW t \in Pushers, PushBegin(t) PROVE CalmInv'
  BY <1>5, CalmBegin
<1>6. ASSUME NEW t \in Pushers, PushTest(t) PROVE CalmInv'
  BY <1>6, CalmTest
<1>7. ASSUME NEW t \in Pushers, PushNew(t) PROVE CalmInv'
  BY <1>7, CalmNew
<1>8. ASSUME NEW t \in Pushers, PushFirst(t) PROVE CalmInv'
  BY <1>8, CalmFirst
<1>9. ASSUME NEW t \in Pushers, PushBack(t) PROVE CalmInv'
  BY <1>9, CalmBack
<1>10. ASSUME NEW t \in Pushers, PushLink(t) PROVE CalmInv'
  BY <1>10, CalmLink
<1>11. ASSUME NEW t \in Pushers, PushLast(t) PROVE CalmInv'
  BY <1>11, CalmLast
<1> QED
  BY <1>0, <1>1, <1>2, <1>3, <1>4, <1>5, <1>6, <1>7, <1>8, <1>9, <1>10, <1>11, Actions, Zenon

-----------------------------------------------------------------------------
(* The theorems *)

\* The types of all that push() and pop() touch; the loop, the only one that
\* empties the queue, never finds it emptied after it tested it.
THEOREM TypeCorrect == Spec => []TypeInv
BY TypeInit, TypeStep, PTL DEF Spec

\* In whatever order the accesses of push() and pop() come, no block is pointed
\* to twice and each that may still be reached carries a message of its own.
THEOREM PoolCorrect == Spec => []PoolInv
BY PoolInit, PoolStep, TypeCorrect, PTL DEF Spec

\* While no two calls have met, the blocks from front on are the messages that
\* were pushed and not popped, and back is the last of them.
THEOREM CalmCorrect == Spec => []CalmInv
BY CalmInit, CalmStep, TypeCorrect, PTL DEF Spec

\* The list of a calm queue, when no call is under way.
LEMMA CalmIsFifo == TypeInv /\ CalmInv => Fifo
<1> SUFFICES ASSUME TypeInv, CalmInv, Quiet, ~raced
             PROVE  \E k \in 0..Len(pushed) : \E l \in [1..k -> Cells] :
                      Listing(l) /\ LastOf(l, Len(pushed))
  BY Zenon DEF Fifo
<1>1. Behind = 0
  BY BehindNone
<1>2. PICK k \in 0..(Len(pushed) - Behind) : \E l \in [1..k -> Cells] : Calm(l)
  BY Zenon DEF CalmInv
<1>3. PICK l \in [1..k -> Cells] : Calm(l)
  BY <1>2
<1>4. Len(pushed) - Behind = Len(pushed)
  BY <1>1 DEF TypeInv
<1>5. Listing(l) /\ LastOf(l, Len(pushed))
  BY <1>3, <1>4 DEF Calm
<1> QED
  BY <1>4, <1>5, Zenon

\* push() and pop() without calls that meet: what is listed is the last that
\* was pushed, in order and with an end.
THEOREM FifoCorrect == Spec => []Fifo
BY CalmIsFifo, TypeCorrect, CalmCorrect, PTL

\* No more is sent than was pushed: each message that is sent is another one.
LEMMA SentFewer == TypeInv /\ SentOnce => Len(sent) <= Len(pushed)
<1> SUFFICES ASSUME TypeInv, SentOnce PROVE Len(sent) <= Len(pushed)
  OBVIOUS
<1>1. Len(sent) \in Nat /\ Len(pushed) \in Nat
  BY DEF TypeInv, SentOnce
<1> DEFINE S == 1..Len(sent)
           T == 1..Len(pushed)
           f == [i \in S |-> sent[i]]
<1>2. f \in [S -> T] /\ \A i, j \in S : f[i] = f[j] => i = j
  BY DEF SentOnce
<1>3. /\ IsFiniteSet(S) /\ Cardinality(S) = Len(sent)
      /\ IsFiniteSet(T) /\ Cardinality(T) = Len(pushed)
  <2>1. \A n \in Nat : IsFiniteSet(1..n) /\ Cardinality(1..n) = IF 1 > n THEN 0 ELSE n - 1 + 1
    BY FS_Interval
  <2>2. \A n \in Nat : (IF 1 > n THEN 0 ELSE n - 1 + 1) = n
    OBVIOUS
  <2> QED
    BY <1>1, <2>1, <2>2
<1>4. ~(Cardinality(T) < Cardinality(S))
  <2> HIDE DEF S, T, f
  <2> SUFFICES ASSUME Cardinality(T) < Cardinality(S) PROVE FALSE
    OBVIOUS
  <2>1. \E x, y \in S : x # y /\ f[x] = f[y]
    BY <1>2, <1>3, FS_PigeonHole
  <2> QED
    BY <1>2, <2>1
<1> QED
  BY <1>1, <1>3, <1>4

\* The three parts of PopSafe.
LEMMA PoolIsSafe == TypeInv /\ PoolInv /\ CalmInv => PopSafe
<1> SUFFICES ASSUME TypeInv, PoolInv, CalmInv PROVE PopSafe
  OBVIOUS
<1>1. SentOnce /\ ~dangled
  BY Zenon DEF PoolInv
<1>2. TypeOK
  <2>1. Len(sent) <= Len(pushed) /\ sent \in Seq(Msgs)
    BY <1>1, SentFewer DEF SentOnce
  <2> QED
    BY <2>1, Zenon DEF TypeInv, TypeOK, CellSet
<1>3. NoDuplicate
  BY <1>1 DEF SentOnce, NoDuplicate
<1>4. PopLive
  BY <1>1, Zenon DEF PopLive
<1>5. CorruptOnlyByRace
  BY Zenon DEF CalmInv, CorruptOnlyByRace
<1> QED
  BY <1>2, <1>3, <1>4, <1>5, Zenon DEF PopSafe

\* Whatever calls meet, uartTransmit() sends no message twice, and pop() never
\* follows a pointer to nothing or to a message that was deleted; only a push
\* that meets another call can write into a block that was freed.
THEOREM PopSafeCorrect == Spec => []PopSafe
BY PoolIsSafe, TypeCorrect, PoolCorrect, CalmCorrect, PTL
=============================================================================
