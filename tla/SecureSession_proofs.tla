------------------------- MODULE SecureSession_proofs -------------------------
(***************************************************************************)
(* Proofs about SecureSession, for every number of sockets, addresses,     *)
(* entries of the session table, requests, events and failures, and every  *)
(* size of requests, frames and reads.  The inductive invariants:          *)
(*   TypeInv    types;                                                     *)
(*   SessInv    sessions and sockets belong together one to one;           *)
(*   TableInv   the session table;                                         *)
(*   LeftInv    what is left of the request in service;                    *)
(*   EndInv     the sessions that are to be closed;                        *)
(*   NonceInv   the frames under way to a controller;                      *)
(*   OwnInv     the units of a connection, from its controller to the      *)
(*              server, and the request and reply they belong to.          *)
(***************************************************************************)
EXTENDS SecureSession, SequenceTheorems, FiniteSetTheorems, TLAPS

-----------------------------------------------------------------------------
(* Types *)

Units  == [gen : Nat, k : Nat]
Frames == [session : Addrs \cup {None}, data : Seq(Units), read : Nat]
Sent   == [nonce : Nat, data : Seq(Units)]
Msgs   == [kind : {"enc", "plain"}, nonce : Nat, last : BOOLEAN]
Peers  == [gen : Nat, enc : Nat, dec : Nat, todo : Nat, sent : Nat,
           waits : BOOLEAN, requests : Nat]
States == [state : {"free", "verified", "invalid"}, enc : Nat, dec : Nat]

TypeInv ==
  /\ sess \in [Socks -> Addrs \cup {None}] /\ heap \in [Addrs -> States] /\ table \subseteq Addrs
  /\ frame \in Frames /\ frame.read <= Len(frame.data) + 1
  /\ busy = [sock |-> busy.sock, left |-> busy.left] /\ busy.sock \in Socks \cup {None}
  /\ work \in Seq(Socks \cup {"notify"})
  /\ in \in [Socks -> Seq(Sent)] /\ out \in [Socks -> Seq(Msgs)]
  /\ peer \in [Socks -> Peers] /\ got \in [Socks -> Seq(Units)]
  /\ ghost \subseteq Socks /\ torn \subseteq Socks /\ clear \subseteq Socks
  /\ conns \in Nat

\* A session serves one open socket; what a closed one held is gone.
SessInv ==
  /\ \A c \in Socks : Open(c) => heap[sess[c]].state # "free"
  /\ \A c, d \in Socks : Open(c) /\ sess[c] = sess[d] => c = d
  /\ busy.sock # None => Open(busy.sock)
  /\ \A c \in Socks : ~Open(c) =>
       /\ in[c] = <<>> /\ out[c] = <<>> /\ got[c] = <<>>
       /\ c \notin ghost \cup torn \cup clear

-----------------------------------------------------------------------------
(* What a step does *)

\* A session ends: the frame stays, or is what a failed read left of it, and its
\* closing is queued or was at the head of the queue.
Close(c) ==
  /\ Open(c) /\ Closed(c) /\ heap' = Freed(heap, c) /\ conns' = conns
  /\ \/ frame' = frame
     \/ busy.sock = c /\ frame' \in Remains(c)
  /\ \/ work' = work \/ work' = work \o <<c>>
     \/ work # <<>> /\ Head(work) = c /\ work' = Tail(work)

\* A read fails in a body: the handler goes on to its reply.
Fail(c) ==
  /\ busy.sock = c /\ heap[sess[c]].state = "verified"
  /\ work' = IF Registered(c) THEN work \o <<c>> ELSE work
  /\ heap' = [heap EXCEPT ![sess[c]].state = "invalid"]
  /\ busy' = [busy EXCEPT !.left = 0]
  /\ \/ UNCHANGED <<in, peer>>
     \/ in' = [in EXCEPT ![c] = <<>>] /\ peer' = [peer EXCEPT ![c].todo = 0]
  /\ frame' \in Remains(c)
  /\ UNCHANGED <<sess, table, out, got, ghost, torn, clear, conns>>

\* The closing of a socket that is closed already.
Skip ==
  /\ work # <<>> /\ ~Open(Head(work)) /\ work' = Tail(work)
  /\ UNCHANGED <<sess, heap, table, busy, in, out, peer, got, ghost, torn, clear, frame, conns>>

Understand(c) ==
  /\ Open(c) /\ out[c] # <<>> /\ Understood(c) /\ out' = [out EXCEPT ![c] = Tail(@)]
  /\ peer' = [peer EXCEPT ![c].dec = @ + 1, ![c].waits = @ /\ ~Head(out[c]).last]
  /\ UNCHANGED <<sess, heap, table, busy, in, got, ghost, torn, clear, frame, work, conns>>

\* What the types say of one connection.
LEMMA Typed ==
  ASSUME TypeInv, NEW c \in Socks
  PROVE  /\ peer[c] \in Peers /\ peer[c].gen \in Nat /\ peer[c].enc \in Nat /\ peer[c].dec \in Nat
         /\ peer[c].todo \in Nat /\ peer[c].sent \in Nat
         /\ in[c] \in Seq(Sent) /\ out[c] \in Seq(Msgs) /\ got[c] \in Seq(Units)
         /\ Len(in[c]) \in Nat /\ Len(out[c]) \in Nat /\ Len(got[c]) \in Nat
         /\ Open(c) => /\ sess[c] \in Addrs /\ heap[sess[c]] \in States
                       /\ heap[sess[c]].enc \in Nat /\ heap[sess[c]].dec \in Nat
<1>1. peer[c] \in Peers /\ in[c] \in Seq(Sent) /\ out[c] \in Seq(Msgs) /\ got[c] \in Seq(Units)
  BY DEF TypeInv
<1>2. Len(in[c]) \in Nat /\ Len(out[c]) \in Nat /\ Len(got[c]) \in Nat
  BY <1>1
<1>3. Open(c) => sess[c] \in Addrs /\ heap[sess[c]] \in States
  BY DEF TypeInv, Open
<1>4. \A q \in States : q.enc \in Nat /\ q.dec \in Nat
  BY DEF States
<1>5. \A q \in Peers : q.gen \in Nat /\ q.enc \in Nat /\ q.dec \in Nat /\ q.todo \in Nat /\ q.sent \in Nat
  BY DEF Peers
<1> QED
  BY <1>1, <1>2, <1>3, <1>4, <1>5, Zenon

\* A session serves one open socket, so those of the server's calls are open.
LEMMA Serving ==
  ASSUME TypeInv, SessInv, NEW c \in Socks, busy.sock = c
  PROVE  Open(c) /\ sess[c] \in Addrs /\ c # None
<1>1. c # None
  BY SessionAssumption
<1> QED
  BY <1>1 DEF TypeInv, SessInv, Open

\* What a failed read leaves is a frame of its session, of which more may count as
\* handed out than it holds.
LEMMA RemainsFrames ==
  ASSUME NEW c \in Socks, sess[c] \in Addrs, NEW f \in Remains(c)
  PROVE  f \in Frames /\ f.session = sess[c] /\ f.read <= Len(f.data) + 1
<1>1. CASE f \in {[Empty(c) EXCEPT !.data = [i \in 1..k |-> Junk]] : k \in 0..FrameUnits}
  <2>1. PICK k \in 0..FrameUnits : f = [Empty(c) EXCEPT !.data = [i \in 1..k |-> Junk]]
    BY <1>1
  <2>2. k \in Nat /\ Junk \in Units
    BY SessionAssumption DEF Junk, Unit, Units
  <2>3. f = [session |-> sess[c], data |-> [i \in 1..k |-> Junk], read |-> 0]
    BY <2>1 DEF Empty
  <2>4. [i \in 1..k |-> Junk] \in Seq(Units) /\ Len([i \in 1..k |-> Junk]) = k
    BY <2>2
  <2> QED
    BY <2>2, <2>3, <2>4 DEF Frames
<1>2. CASE f = [Empty(c) EXCEPT !.read = 1]
  <2>1. f = [session |-> sess[c], data |-> <<>>, read |-> 1]
    BY <1>2 DEF Empty
  <2> QED
    BY <2>1 DEF Frames
<1> QED
  BY <1>1, <1>2 DEF Remains

\* A frame that is whole and does not decrypt leaves nothing.
LEMMA RemainsEmpty ==
  ASSUME NEW c \in Socks
  PROVE  Empty(c) \in Remains(c)
<1>1. [i \in 1..0 |-> Junk] = <<>> /\ 0 \in 0..FrameUnits
  BY SessionAssumption
<1>2. Empty(c) = [Empty(c) EXCEPT !.data = [i \in 1..0 |-> Junk]]
  BY <1>1 DEF Empty
<1> QED
  BY <1>1, <1>2 DEF Remains

\* A step of the system is one of these.
LEMMA Actions ==
  ASSUME TypeInv, SessInv, [Next]_vars
  PROVE  \/ UNCHANGED vars
         \/ \E c \in Socks : Verified(c)
         \/ \E c \in Socks : Close(c)
         \/ \E c \in Socks : Request(c)
         \/ \E c \in Socks : ReadRest(c)
         \/ \E c \in Socks : ReadFrame(c)
         \/ \E c \in Socks : Fail(c)
         \/ \E c \in Socks : Reply(c)
         \/ \E c \in Socks : NewRequest(c)
         \/ \E c \in Socks : SendFrame(c)
         \/ \E c \in Socks : Understand(c)
         \/ \E c \in Socks : Overrun(c)
         \/ Change \/ Notify \/ Skip
<1>1. ASSUME NEW c \in Socks, Purge(c) PROVE Close(c)
  BY <1>1, Zenon DEF Purge, Close
<1>2. ASSUME NEW c \in Socks, ReadFails(c) PROVE Close(c) \/ Fail(c)
  <2>1. Open(c)
    BY <1>2, Serving, Zenon DEF ReadFails
  <2>2. /\ hap_session_error(c).state = "invalid"
        /\ work \o hap_session_error(c).work = IF Registered(c) THEN work \o <<c>> ELSE work
    <3>1. hap_session_error(c).work = IF Registered(c) THEN <<c>> ELSE <<>>
      BY DEF hap_session_error
    <3>2. work \o <<>> = work
      BY ConcatEmptySeq DEF TypeInv
    <3> QED
      BY <3>1, <3>2 DEF hap_session_error
  <2>3. frame' \in Remains(c)
    BY <1>2, RemainsEmpty, Zenon DEF ReadFails, Unreadable
  <2> QED
    BY <1>2, <2>1, <2>2, <2>3, Zenon DEF ReadFails, Close, Fail
<1>3. ASSUME NEW c \in Socks, Abandon(c) \/ ReplyFails(c) PROVE Close(c)
  <2>1. Open(c)
    BY <1>3, Serving, Zenon DEF Abandon, ReplyFails
  <2> QED
    BY <1>3, <2>1, Zenon DEF Abandon, ReplyFails, Close
<1>4. ASSUME NEW c \in Socks, ReadInvalid(c) PROVE Close(c)
  BY <1>4, Zenon DEF ReadInvalid, Invalid, Close
<1>5. ASSUME NEW c \in Socks, ReceiveFrame(c) PROVE Close(c) \/ Understand(c)
  BY <1>5, Zenon DEF ReceiveFrame, Close, Understand
<1>6. ASSUME ExecuteClose PROVE Skip \/ \E c \in Socks : Close(c)
  BY <1>6, Zenon DEF ExecuteClose, Skip, Close
<1> QED
  BY <1>1, <1>2, <1>3, <1>4, <1>5, <1>6, Zenon DEF Next, Serve, Execute

\* A piece of a sequence.
LEMMA Piece ==
  ASSUME NEW S, NEW s \in Seq(S), NEW m \in Nat, NEW n \in Nat, m + n <= Len(s)
  PROVE  /\ SubSeq(s, m + 1, m + n) \in Seq(S) /\ Len(SubSeq(s, m + 1, m + n)) = n
         /\ \A i \in 1..n : SubSeq(s, m + 1, m + n)[i] = s[m + i]
OBVIOUS

\* n units of the frame f are handed over.
Copied(c, f, n) ==
  /\ n \in 0..Rest(f) /\ frame' = [f EXCEPT !.read = f.read + n]
  /\ got' \in [Socks -> Seq(Units)] /\ \A d \in Socks : d # c => got'[d] = got[d]
  /\ Len(got'[c]) = Len(got[c]) + n
  /\ \A i \in 1..Len(got'[c]) :
       got'[c][i] = IF i <= Len(got[c]) THEN got[c][i] ELSE f.data[f.read + i - Len(got[c])]
  /\ busy' = [sock |-> busy.sock, left |-> busy.left - n]

\* Copy() hands over the next units of the frame and nothing else.
LEMMA CopyEffect ==
  ASSUME TypeInv, NEW c \in Socks, NEW f \in Frames, f.read <= Len(f.data),
         NEW size \in Nat, Copy(c, f, size)
  PROVE  \E n \in Nat : Copied(c, f, n)
<1> DEFINE n == IF Rest(f) < size THEN Rest(f) ELSE size
           part == SubSeq(f.data, f.read + 1, f.read + n)
<1>1. f.data \in Seq(Units) /\ f.read \in Nat /\ Len(f.data) \in Nat /\ Rest(f) \in Nat
      /\ Rest(f) = Len(f.data) - f.read
  BY DEF Frames, Rest
<1>2. n \in Nat /\ n \in 0..Rest(f)
  BY <1>1
<1> HIDE DEF n
<1>3. /\ frame' = [f EXCEPT !.read = @ + n]
      /\ got' = [got EXCEPT ![c] = @ \o part]
      /\ busy' = [busy EXCEPT !.left = @ - n]
  BY Zenon DEF Copy, n
<1>5. /\ part \in Seq(Units) /\ Len(part) = n
      /\ \A i \in 1..n : part[i] = f.data[f.read + i]
  <2>1. f.read + n <= Len(f.data)
    BY <1>1, <1>2
  <2> QED
    <3>1. \A q \in Seq(Units), r \in Nat, k \in Nat : r + k <= Len(q) =>
            /\ SubSeq(q, r + 1, r + k) \in Seq(Units) /\ Len(SubSeq(q, r + 1, r + k)) = k
            /\ \A i \in 1..k : SubSeq(q, r + 1, r + k)[i] = q[r + i]
      BY Piece
    <3> QED
      BY <1>1, <1>2, <2>1, <3>1, Zenon
<1> HIDE DEF part
<1>6. got[c] \in Seq(Units) /\ Len(got[c]) \in Nat
  BY DEF TypeInv
<1>7. /\ got[c] \o part \in Seq(Units) /\ Len(got[c] \o part) = Len(got[c]) + n
      /\ \A i \in 1..(Len(got[c]) + n) :
           (got[c] \o part)[i] = IF i <= Len(got[c]) THEN got[c][i] ELSE part[i - Len(got[c])]
  BY <1>5, <1>6, ConcatProperties
<1>8. /\ got' \in [Socks -> Seq(Units)] /\ got'[c] = got[c] \o part
      /\ \A d \in Socks : d # c => got'[d] = got[d]
  BY <1>3, <1>7 DEF TypeInv
<1>9. \A i \in 1..Len(got'[c]) :
        got'[c][i] = IF i <= Len(got[c]) THEN got[c][i] ELSE f.data[f.read + i - Len(got[c])]
  <2> TAKE i \in 1..Len(got'[c])
  <2>1. i \in 1..(Len(got[c]) + n)
    BY <1>7, <1>8
  <2>2. CASE i <= Len(got[c])
    BY <1>7, <1>8, <2>1, <2>2
  <2>3. CASE ~(i <= Len(got[c]))
    <3>1. i - Len(got[c]) \in 1..n
      BY <1>2, <1>6, <2>1, <2>3
    <3>2. f.read + (i - Len(got[c])) = f.read + i - Len(got[c])
      BY <1>1, <1>6, <2>1
    <3> QED
      BY <1>5, <1>7, <1>8, <2>1, <2>3, <3>1, <3>2
  <2> QED
    BY <2>2, <2>3
<1>10. busy' = [sock |-> busy.sock, left |-> busy.left - n]
  BY <1>3 DEF TypeInv
<1> QED
  BY <1>2, <1>3, <1>7, <1>8, <1>9, <1>10 DEF Copied

\* The fields of a frame to a controller.
LEMMA MsgRecord ==
  ASSUME NEW kind \in {"enc", "plain"}, NEW n \in Nat, NEW last \in BOOLEAN
  PROVE  /\ Msg(kind, n, last) \in Msgs /\ Msg(kind, n, last).kind = kind
         /\ Msg(kind, n, last).nonce = n /\ Msg(kind, n, last).last = last
BY DEF Msg, Msgs

\* The frames of a message.
LEMMA EncryptedSeq ==
  ASSUME NEW n \in Nat, NEW k \in Nat, NEW last \in BOOLEAN
  PROVE  /\ Encrypted(n, k, last) \in Seq(Msgs) /\ Len(Encrypted(n, k, last)) = k
         /\ \A i \in 1..k : /\ Encrypted(n, k, last)[i].kind = "enc"
                            /\ Encrypted(n, k, last)[i].nonce = n + i - 1
                            /\ Encrypted(n, k, last)[i].last => last /\ i = k
<1> DEFINE e == [i \in 1..k |-> Msg("enc", n + i - 1, last /\ i = k)]
<1>1. ASSUME NEW i \in 1..k
      PROVE  /\ e[i] \in Msgs /\ e[i].kind = "enc" /\ e[i].nonce = n + i - 1
             /\ e[i].last => last /\ i = k
  <2>1. n + i - 1 \in Nat
    OBVIOUS
  <2>2. (last /\ i = k) \in BOOLEAN
    BY Zenon
  <2>3. e[i] = Msg("enc", n + i - 1, last /\ i = k)
    OBVIOUS
  <2>4. /\ Msg("enc", n + i - 1, last /\ i = k) \in Msgs
        /\ Msg("enc", n + i - 1, last /\ i = k).kind = "enc"
        /\ Msg("enc", n + i - 1, last /\ i = k).nonce = n + i - 1
        /\ Msg("enc", n + i - 1, last /\ i = k).last = (last /\ i = k)
    BY <2>1, <2>2, MsgRecord, Zenon
  <2> HIDE DEF e
  <2> QED
    BY <2>3, <2>4, Zenon
<1>2. e \in [1..k -> Msgs]
  BY <1>1
<1>3. e \in Seq(Msgs) /\ Len(e) = k
  <2> HIDE DEF e
  <2> QED
    BY <1>2
<1>4. Encrypted(n, k, last) = e
  BY Zenon DEF Encrypted
<1> HIDE DEF e
<1> QED
  BY <1>1, <1>3, <1>4, Zenon

\* What hap_httpd_send() does to one session: the frames that go out are new
\* ones, at most the last of them ends a reply, and if all go out encrypted the
\* session has counted each.
Wrote(c, last) ==
  /\ Len(out[c]) <= Len(out'[c]) /\ \A i \in 1..Len(out[c]) : out'[c][i] = out[c][i]
  /\ \A i \in (Len(out[c]) + 1)..Len(out'[c]) : out'[c][i].last => last /\ i = Len(out'[c])
  /\ c \notin torn' \cup clear' =>
       /\ heap'[sess[c]].enc = heap[sess[c]].enc + (Len(out'[c]) - Len(out[c]))
       /\ \A i \in (Len(out[c]) + 1)..Len(out'[c]) :
            /\ out'[c][i].kind = "enc"
            /\ out'[c][i].nonce = heap[sess[c]].enc + (i - Len(out[c])) - 1
  /\ heap'[sess[c]].state = heap[sess[c]].state
  /\ c \in clear' => c \in clear \/ Invalid(c)
  /\ c \in torn \cup clear => c \in torn' \cup clear'
Writes(c, last) ==
  /\ heap' \in [Addrs -> States] /\ out' \in [Socks -> Seq(Msgs)]
  /\ torn' \subseteq Socks /\ clear' \subseteq Socks
  /\ \A d \in Socks : IF Open(d) THEN Wrote(d, last /\ d = c)
                      ELSE out'[d] = out[d] /\ d \notin (torn' \ torn) \cup (clear' \ clear)

\* A connection whose context does not change and that nothing is sent to.
LEMMA WroteNothing ==
  ASSUME TypeInv, NEW c \in Socks, NEW last, Open(c), out'[c] = out[c],
         heap'[sess[c]].enc = heap[sess[c]].enc, heap'[sess[c]].state = heap[sess[c]].state,
         c \in torn' <=> c \in torn, c \in clear' <=> c \in clear
  PROVE  Wrote(c, last)
<1>1. Len(out[c]) \in Nat /\ Len(out'[c]) = Len(out[c]) /\ heap[sess[c]].enc \in Nat
  BY DEF TypeInv, Open, States
<1>2. heap'[sess[c]].enc = heap[sess[c]].enc + (Len(out'[c]) - Len(out[c]))
  BY <1>1
<1>3. \A i \in (Len(out[c]) + 1)..Len(out'[c]) : FALSE
  BY <1>1
<1>4. Len(out[c]) <= Len(out'[c])
  BY <1>1
<1> QED
  BY <1>2, <1>3, <1>4, Zenon DEF Wrote

\* What goes out is appended.
LEMMA WroteMore ==
  ASSUME TypeInv, NEW c \in Socks, NEW m \in Seq(Msgs), NEW last,
         out' \in [Socks -> Seq(Msgs)], out'[c] = out[c] \o m,
         \A i \in 1..Len(m) : m[i].last => last /\ i = Len(m),
         c \notin torn' \cup clear' =>
           /\ heap'[sess[c]].enc = heap[sess[c]].enc + Len(m)
           /\ \A i \in 1..Len(m) : m[i].kind = "enc" /\ m[i].nonce = heap[sess[c]].enc + i - 1,
         heap[sess[c]].enc \in Nat, heap'[sess[c]].state = heap[sess[c]].state,
         c \in clear' => c \in clear \/ Invalid(c),
         c \in torn \cup clear => c \in torn' \cup clear'
  PROVE  Wrote(c, last)
<1> DEFINE o == out[c]
<1>1. o \in Seq(Msgs) /\ Len(o) \in Nat /\ Len(m) \in Nat
  BY DEF TypeInv
<1>2. /\ Len(out'[c]) = Len(o) + Len(m)
      /\ \A i \in 1..Len(o) : out'[c][i] = o[i]
      /\ \A i \in 1..Len(m) : out'[c][Len(o) + i] = m[i]
  BY <1>1
<1>3. \A j \in (Len(o) + 1)..Len(out'[c]) :
        /\ j - Len(o) \in 1..Len(m) /\ out'[c][j] = m[j - Len(o)]
        /\ j - Len(o) = Len(m) => j = Len(out'[c])
  <2> TAKE j \in (Len(o) + 1)..Len(out'[c])
  <2>1. j - Len(o) \in 1..Len(m) /\ Len(o) + (j - Len(o)) = j
    BY <1>1, <1>2
  <2> QED
    BY <1>1, <1>2, <2>1
<1>4. Len(o) <= Len(out'[c]) /\ Len(out'[c]) - Len(o) = Len(m)
  BY <1>1, <1>2
<1>5. \A j \in (Len(o) + 1)..Len(out'[c]) : out'[c][j].last => last /\ j = Len(out'[c])
  BY <1>3, Zenon
<1>6. ASSUME c \notin torn' \cup clear'
      PROVE  /\ heap'[sess[c]].enc = heap[sess[c]].enc + (Len(out'[c]) - Len(o))
             /\ \A j \in (Len(o) + 1)..Len(out'[c]) :
                  /\ out'[c][j].kind = "enc"
                  /\ out'[c][j].nonce = heap[sess[c]].enc + (j - Len(o)) - 1
  BY <1>3, <1>4, <1>6
<1> QED
  BY <1>2, <1>4, <1>5, <1>6, Zenon DEF Wrote

\* A message whose last frame is lost.
LEMMA FrontSeq ==
  ASSUME NEW S, NEW s \in Seq(S), Len(s) > 0
  PROVE  /\ Front(s) \in Seq(S) /\ Len(Front(s)) = Len(s) - 1
         /\ \A i \in 1..(Len(s) - 1) : Front(s)[i] = s[i]
<1>1. PICK n \in Nat : Len(s) = n + 1
  <2>1. Len(s) - 1 \in Nat /\ Len(s) = (Len(s) - 1) + 1
    OBVIOUS
  <2> QED
    BY <2>1, Zenon
<1>2. Front(s) = SubSeq(s, 1, n)
  BY <1>1 DEF Front
<1>3. SubSeq(s, 1, n) \in Seq(S) /\ Len(SubSeq(s, 1, n)) = n
      /\ \A i \in 1..n : SubSeq(s, 1, n)[i] = s[i]
  BY <1>1
<1> QED
  BY <1>1, <1>2, <1>3

\* A message with one frame lost: the others are frames of it.
LEMMA RemoveSeq ==
  ASSUME NEW S, NEW s \in Seq(S), NEW i \in 1..Len(s)
  PROVE  /\ RemoveAt(s, i) \in Seq(S)
         /\ \A j \in 1..Len(RemoveAt(s, i)) : \E l \in 1..Len(s) : RemoveAt(s, i)[j] = s[l]
<1> DEFINE a == SubSeq(s, 1, i - 1)
           b == SubSeq(s, i + 1, Len(s))
<1>1. a \in Seq(S) /\ Len(a) = i - 1 /\ \A j \in 1..Len(a) : a[j] = s[j] /\ j \in 1..Len(s)
  OBVIOUS
<1>2. b \in Seq(S) /\ Len(b) = Len(s) - i
      /\ \A j \in 1..Len(b) : b[j] = s[i + j] /\ i + j \in 1..Len(s)
  OBVIOUS
<1>3. RemoveAt(s, i) = a \o b
  BY DEF RemoveAt
<1> HIDE DEF a, b
<1>4. /\ a \o b \in Seq(S) /\ Len(a \o b) = Len(a) + Len(b)
      /\ \A j \in 1..(Len(a) + Len(b)) : (a \o b)[j] = IF j <= Len(a) THEN a[j] ELSE b[j - Len(a)]
  BY <1>1, <1>2, ConcatProperties
<1>5. \A j \in 1..(Len(a) + Len(b)) : IF j <= Len(a) THEN j \in 1..Len(a) ELSE j - Len(a) \in 1..Len(b)
  BY <1>1, <1>2
<1>6. \A j \in 1..Len(a \o b) : \E l \in 1..Len(s) : (a \o b)[j] = s[l]
  BY <1>1, <1>2, <1>4, <1>5
<1> QED
  BY <1>3, <1>4, <1>6

\* hap_httpd_send() on one session.
LEMMA SendEffect ==
  ASSUME TypeInv, SessInv, NEW c \in Socks, Open(c), NEW k \in Nat \ {0}, NEW last \in BOOLEAN,
         Send(c, k, last)
  PROVE  Writes(c, last)
<1> DEFINE s == heap[sess[c]]
           e == Encrypted(s.enc, k, last)
<1>1. sess[c] \in Addrs /\ s \in States /\ s.enc \in Nat
  BY DEF TypeInv, Open, States
<1>2. /\ e \in Seq(Msgs) /\ Len(e) = k
      /\ \A i \in 1..k : /\ e[i].kind = "enc" /\ e[i].nonce = s.enc + i - 1
                         /\ e[i].last => last /\ i = k
  <2>1. k \in Nat
    OBVIOUS
  <2> QED
    <3>1. \A n, j \in Nat, b \in BOOLEAN :
            /\ Encrypted(n, j, b) \in Seq(Msgs) /\ Len(Encrypted(n, j, b)) = j
            /\ \A i \in 1..j : /\ Encrypted(n, j, b)[i].kind = "enc"
                               /\ Encrypted(n, j, b)[i].nonce = n + i - 1
                               /\ Encrypted(n, j, b)[i].last => b /\ i = j
      BY EncryptedSeq, Zenon
    <3>2. PICK n \in Nat : n = s.enc
      BY <1>1
    <3>3. /\ Encrypted(n, k, last) \in Seq(Msgs) /\ Len(Encrypted(n, k, last)) = k
          /\ \A i \in 1..k : /\ Encrypted(n, k, last)[i].kind = "enc"
                             /\ Encrypted(n, k, last)[i].nonce = n + i - 1
                             /\ Encrypted(n, k, last)[i].last => last /\ i = k
      BY <2>1, <3>1
    <3>4. e = Encrypted(n, k, last)
      BY <3>2, Zenon DEF e
    <3> HIDE DEF e, s
    <3> QED
      BY <3>2, <3>3, <3>4, Zenon
<1> HIDE DEF e
<1>3. ASSUME NEW d \in Socks, d # c, Open(d) PROVE sess[d] # sess[c]
  BY <1>3 DEF SessInv
<1>o. \A m \in Seq(Msgs) : /\ [out EXCEPT ![c] = out[c] \o m] \in [Socks -> Seq(Msgs)]
                           /\ [out EXCEPT ![c] = out[c] \o m][c] = out[c] \o m
                           /\ \A d \in Socks : d # c => [out EXCEPT ![c] = out[c] \o m][d] = out[d]
  BY DEF TypeInv
<1>h. \A n \in Nat : /\ [heap EXCEPT ![sess[c]].enc = n] \in [Addrs -> States]
                     /\ [heap EXCEPT ![sess[c]].enc = n][sess[c]].enc = n
                     /\ [heap EXCEPT ![sess[c]].enc = n][sess[c]].state = s.state
                     /\ \A a \in Addrs : a # sess[c] => [heap EXCEPT ![sess[c]].enc = n][a] = heap[a]
  BY <1>1 DEF TypeInv, States
<1>w. ASSUME heap' \in [Addrs -> States], out' \in [Socks -> Seq(Msgs)],
             torn' \subseteq Socks, clear' \subseteq Socks, Wrote(c, last),
             \A d \in Socks : d # c => /\ out'[d] = out[d] /\ (d \in torn' <=> d \in torn)
                                       /\ (d \in clear' <=> d \in clear),
             \A d \in Socks : d # c /\ Open(d) => heap'[sess[d]] = heap[sess[d]]
      PROVE  Writes(c, last)
  <2>1. ASSUME NEW d \in Socks, d # c, Open(d) PROVE Wrote(d, last /\ d = c)
    BY <1>w, <2>1, WroteNothing, Zenon
  <2>2. Wrote(c, last /\ c = c)
    <3>1. (last /\ c = c) = last
      OBVIOUS
    <3> QED
      BY <1>w, <3>1, Zenon
  <2> QED
    BY <1>w, <2>1, <2>2, Zenon DEF Writes
<1>t. torn \subseteq Socks /\ clear \subseteq Socks /\ torn \cup {c} \subseteq Socks
      /\ clear \cup {c} \subseteq Socks
  BY DEF TypeInv
<1>4. CASE /\ s.state = "verified"
           /\ out' = [out EXCEPT ![c] = @ \o e]
           /\ heap' = [heap EXCEPT ![sess[c]].enc = @ + k]
           /\ UNCHANGED <<torn, clear, fails>>
  <2>1. out' = [out EXCEPT ![c] = out[c] \o e] /\ heap' = [heap EXCEPT ![sess[c]].enc = s.enc + k]
        /\ s.enc + k \in Nat
    BY <1>1, <1>4
  <2>2. /\ out' \in [Socks -> Seq(Msgs)] /\ out'[c] = out[c] \o e
        /\ \A d \in Socks : d # c => out'[d] = out[d]
    BY <1>2, <1>o, <2>1
  <2>3. /\ heap' \in [Addrs -> States] /\ heap'[sess[c]].enc = s.enc + k
        /\ heap'[sess[c]].state = s.state
        /\ \A a \in Addrs : a # sess[c] => heap'[a] = heap[a]
    BY <1>h, <2>1, Zenon
  <2>4. Wrote(c, last)
    <3>1. \A i \in 1..Len(e) : e[i].last => last /\ i = Len(e)
      BY <1>2, Zenon
    <3>2. \A i \in 1..Len(e) : e[i].kind = "enc" /\ e[i].nonce = s.enc + i - 1
      BY <1>2, Zenon
    <3>3. heap'[sess[c]].enc = s.enc + Len(e)
      BY <1>2, <2>3, Zenon
    <3>4. torn' = torn /\ clear' = clear
      BY <1>4
    <3> QED
      BY <1>1, <1>2, <2>2, <2>3, <3>1, <3>2, <3>3, <3>4, WroteMore, Zenon
  <2>5. \A d \in Socks : d # c /\ Open(d) => heap'[sess[d]] = heap[sess[d]]
    BY <1>3, <2>3 DEF TypeInv, Open
  <2> QED
    BY <1>4, <1>t, <1>w, <2>2, <2>3, <2>4, <2>5
<1>5. CASE /\ s.state = "verified"
           /\ out' = [out EXCEPT ![c] = @ \o Front(e)]
           /\ heap' = [heap EXCEPT ![sess[c]].enc = @ + k]
           /\ torn' = torn \cup {c} /\ UNCHANGED clear
  <2>f. /\ Front(e) \in Seq(Msgs) /\ Len(Front(e)) = k - 1
        /\ \A i \in 1..(k - 1) : Front(e)[i] = e[i]
    <3>1. \A q \in Seq(Msgs) : Len(q) > 0 =>
            /\ Front(q) \in Seq(Msgs) /\ Len(Front(q)) = Len(q) - 1
            /\ \A i \in 1..(Len(q) - 1) : Front(q)[i] = q[i]
      BY FrontSeq
    <3>2. e \in Seq(Msgs) /\ Len(e) = k /\ k > 0
      BY <1>2
    <3> QED
      BY <3>1, <3>2, Zenon
  <2>1. out' = [out EXCEPT ![c] = out[c] \o Front(e)] /\ heap' = [heap EXCEPT ![sess[c]].enc = s.enc + k]
        /\ s.enc + k \in Nat
    BY <1>1, <1>5
  <2>2. /\ out' \in [Socks -> Seq(Msgs)] /\ out'[c] = out[c] \o Front(e)
        /\ \A d \in Socks : d # c => out'[d] = out[d]
    BY <1>o, <2>f, <2>1
  <2>3. /\ heap' \in [Addrs -> States] /\ heap'[sess[c]].enc = s.enc + k
        /\ heap'[sess[c]].state = s.state
        /\ \A a \in Addrs : a # sess[c] => heap'[a] = heap[a]
    BY <1>h, <2>1, Zenon
  <2>4. Wrote(c, last)
    <3>1. \A i \in 1..(k - 1) : ~Front(e)[i].last
      BY <1>2, <2>f
    <3> QED
      BY <1>1, <1>5, <2>2, <2>3, <2>f, <3>1, WroteMore
  <2>5. \A d \in Socks : d # c /\ Open(d) => heap'[sess[d]] = heap[sess[d]]
    BY <1>3, <2>3 DEF TypeInv, Open
  <2> QED
    BY <1>5, <1>t, <1>w, <2>2, <2>3, <2>4, <2>5
<1>6. CASE /\ s.state = "invalid"
           /\ out' = [out EXCEPT ![c] = Append(@, Msg("plain", 0, last))]
           /\ clear' = clear \cup {c} /\ UNCHANGED <<heap, torn, fails>>
  <2> DEFINE m == <<Msg("plain", 0, last)>>
  <2>1. Msg("plain", 0, last) \in Msgs
    BY MsgRecord
  <2>2. m \in Seq(Msgs) /\ Len(m) = 1 /\ \A i \in 1..Len(m) : i = Len(m)
    BY <2>1
  <2>l. \A i \in 1..Len(m) : m[i].last => last
    <3>1. m[1].last = last
      BY MsgRecord
    <3> QED
      BY <2>2, <3>1
  <2>3. Append(out[c], Msg("plain", 0, last)) = out[c] \o m
    BY <2>1 DEF TypeInv
  <2> HIDE DEF m
  <2>4. out' = [out EXCEPT ![c] = out[c] \o m]
    BY <1>6, <2>3
  <2>5. /\ out' \in [Socks -> Seq(Msgs)] /\ out'[c] = out[c] \o m
        /\ \A d \in Socks : d # c => out'[d] = out[d]
    BY <1>o, <2>2, <2>4
  <2>6. Wrote(c, last)
    <3>1. Invalid(c) /\ c \in clear'
      BY <1>6 DEF Invalid
    <3> QED
      BY <1>1, <1>6, <2>2, <2>5, <2>l, <3>1, WroteMore
  <2> QED
    BY <1>6, <1>t, <1>w, <2>5, <2>6 DEF TypeInv
<1> QED
  BY <1>4, <1>5, <1>6, Zenon DEF Send, e

\* An event: to every registered session, of which one frame is lost at most.
LEMMA NotifyEffect ==
  ASSUME TypeInv, SessInv, Notify
  PROVE  Writes(None, FALSE)
<1> DEFINE live == {d \in Socks : Registered(d)}
           ok == {d \in live : heap[sess[d]].state = "verified"}
           Enc(d) == Encrypted(heap[sess[d]].enc, 3, FALSE)
           more(d, lost) == IF d \notin live THEN <<>>
                            ELSE IF d \notin ok THEN <<Msg("plain", 0, FALSE)>>
                            ELSE IF d = lost[1] THEN RemoveAt(Enc(d), lost[2]) ELSE Enc(d)
<1>1. PICK lost \in {<<None, 0>>} \cup (ok \X (1..3)) :
        /\ out' = [d \in Socks |-> out[d] \o more(d, lost)]
        /\ torn' = torn \cup (ok \cap {lost[1]})
  BY Zenon DEF Notify
<1>2. /\ heap' = [a \in Addrs |-> IF a \in {sess[d] : d \in ok}
                                  THEN [heap[a] EXCEPT !.enc = @ + 3] ELSE heap[a]]
      /\ clear' = clear \cup (live \ ok)
  BY Zenon DEF Notify
<1>3. \A d \in ok : d \in live /\ d \in Socks /\ Registered(d) /\ heap[sess[d]].state = "verified"
  OBVIOUS
<1>4. \A d \in live : d \in Socks /\ Open(d) /\ sess[d] \in Addrs
  BY DEF TypeInv, Registered, Open
<1>5. \A d \in Socks : Open(d) => sess[d] \in Addrs /\ heap[sess[d]] \in States
  BY DEF TypeInv, Open
<1>6. \A d \in Socks : Open(d) => heap[sess[d]].enc \in Nat
  BY <1>5 DEF States
<1>7. \A d \in live : d \notin ok => Invalid(d)
  BY <1>4, <1>5 DEF SessInv, States, Invalid
<1>8. \A d \in Socks : Open(d) => (sess[d] \in {sess[e] : e \in ok} <=> d \in ok)
  BY <1>3 DEF SessInv
<1>9. ASSUME NEW d \in ok
      PROVE  /\ Enc(d) \in Seq(Msgs) /\ Len(Enc(d)) = 3
             /\ \A i \in 1..3 : /\ Enc(d)[i].kind = "enc"
                                /\ Enc(d)[i].nonce = heap[sess[d]].enc + i - 1
                                /\ Enc(d)[i].last => FALSE
  <2>1. PICK n \in Nat : n = heap[sess[d]].enc
    BY <1>3, <1>4, <1>6
  <2>2. /\ Encrypted(n, 3, FALSE) \in Seq(Msgs) /\ Len(Encrypted(n, 3, FALSE)) = 3
        /\ \A i \in 1..3 : /\ Encrypted(n, 3, FALSE)[i].kind = "enc"
                           /\ Encrypted(n, 3, FALSE)[i].nonce = n + i - 1
                           /\ Encrypted(n, 3, FALSE)[i].last => FALSE /\ i = 3
    <3>1. 3 \in Nat /\ FALSE \in BOOLEAN
      OBVIOUS
    <3> QED
      BY <3>1, EncryptedSeq, Zenon
  <2> HIDE DEF ok, live
  <2> QED
    BY <2>1, <2>2, Zenon
<1>10. ASSUME NEW d \in ok, NEW i \in 1..3
       PROVE  /\ RemoveAt(Enc(d), i) \in Seq(Msgs)
              /\ \A j \in 1..Len(RemoveAt(Enc(d), i)) : ~RemoveAt(Enc(d), i)[j].last
  <2> DEFINE e == Enc(d)
  <2>1. e \in Seq(Msgs) /\ Len(e) = 3 /\ \A l \in 1..3 : ~e[l].last
    BY <1>9, Zenon
  <2> HIDE DEF e
  <2>2. /\ RemoveAt(e, i) \in Seq(Msgs)
        /\ \A j \in 1..Len(RemoveAt(e, i)) : \E l \in 1..3 : RemoveAt(e, i)[j] = e[l]
    <3>1. i \in 1..Len(e)
      BY <2>1
    <3>2. /\ RemoveAt(e, i) \in Seq(Msgs)
          /\ \A j \in 1..Len(RemoveAt(e, i)) : \E l \in 1..Len(e) : RemoveAt(e, i)[j] = e[l]
      <4>1. \A q \in Seq(Msgs) : \A k \in 1..Len(q) :
              /\ RemoveAt(q, k) \in Seq(Msgs)
              /\ \A j \in 1..Len(RemoveAt(q, k)) : \E l \in 1..Len(q) : RemoveAt(q, k)[j] = q[l]
        BY RemoveSeq
      <4> QED
        BY <2>1, <3>1, <4>1, Zenon
    <3> QED
      BY <2>1, <3>2, Zenon
  <2>3. \A j \in 1..Len(RemoveAt(e, i)) : ~RemoveAt(e, i)[j].last
    BY <2>1, <2>2
  <2> QED
    BY <2>2, <2>3 DEF e
<1>11. /\ Msg("plain", 0, FALSE) \in Msgs /\ ~Msg("plain", 0, FALSE).last
       /\ <<Msg("plain", 0, FALSE)>> \in Seq(Msgs)
  <2>1. "plain" \in {"enc", "plain"} /\ 0 \in Nat /\ FALSE \in BOOLEAN
    OBVIOUS
  <2>2. Msg("plain", 0, FALSE) \in Msgs /\ Msg("plain", 0, FALSE).last = FALSE
    BY <2>1, MsgRecord, Zenon
  <2>3. ~Msg("plain", 0, FALSE).last
    BY <2>2, Zenon
  <2>4. <<Msg("plain", 0, FALSE)>> \in Seq(Msgs)
    <3>1. \A x \in Msgs : <<x>> \in Seq(Msgs)
      OBVIOUS
    <3> QED
      BY <2>2, <3>1, Zenon
  <2> QED
    BY <2>2, <2>3, <2>4, Zenon
<1> HIDE DEF Enc, live, ok
<1>12. \A d \in ok : lost[1] = d => lost[2] \in 1..3
  BY <1>1, <1>3, SessionAssumption
<1>13. \A d \in Socks : more(d, lost) \in Seq(Msgs)
  <2> TAKE d \in Socks
  <2>1. CASE d \notin ok
    <3>1. <<>> \in Seq(Msgs)
      OBVIOUS
    <3> QED
      BY <1>11, <2>1, <3>1, Zenon
  <2>2. CASE d \in ok /\ d = lost[1]
    BY <1>3, <1>10, <1>12, <2>2
  <2>3. CASE d \in ok /\ d # lost[1]
    BY <1>3, <1>9, <2>3
  <2> QED
    BY <2>1, <2>2, <2>3
<1>14. out' \in [Socks -> Seq(Msgs)] /\ \A d \in Socks : out'[d] = out[d] \o more(d, lost)
  <2> HIDE DEF more
  <2>1. \A d \in Socks : out[d] \in Seq(Msgs)
    BY DEF TypeInv
  <2>2. \A d \in Socks : out[d] \o more(d, lost) \in Seq(Msgs)
    BY <1>13, <2>1, ConcatProperties
  <2> QED
    BY <1>1, <2>2
<1>15. ASSUME NEW a \in Addrs PROVE [heap[a] EXCEPT !.enc = @ + 3] \in States
  <2>1. heap[a] \in States
    BY DEF TypeInv
  <2> QED
    BY <2>1 DEF States
<1>16. heap' \in [Addrs -> States]
  BY <1>2, <1>15 DEF TypeInv
<1>17. ASSUME NEW d \in Socks, Open(d)
       PROVE  /\ heap'[sess[d]].state = heap[sess[d]].state
              /\ d \notin ok => heap'[sess[d]].enc = heap[sess[d]].enc
              /\ d \in ok => heap'[sess[d]].enc = heap[sess[d]].enc + 3
  <2>1. heap'[sess[d]] = IF d \in ok THEN [heap[sess[d]] EXCEPT !.enc = @ + 3] ELSE heap[sess[d]]
    BY <1>2, <1>5, <1>8, <1>17
  <2> QED
    BY <1>5, <1>17, <2>1 DEF States
<1>18. torn' \subseteq Socks /\ clear' \subseteq Socks
  BY <1>1, <1>2, <1>3, <1>4 DEF TypeInv
<1>19. ASSUME NEW d \in Socks, Open(d) PROVE Wrote(d, FALSE)
  <2>1. CASE d \notin live
    <3>1. d \notin ok
      BY <1>3, <2>1
    <3>2. out'[d] = out[d]
      <4>1. more(d, lost) = <<>>
        BY <2>1
      <4> QED
        <5>1. out[d] \in Seq(Msgs)
          BY DEF TypeInv
        <5>2. out[d] \o <<>> = out[d]
          BY <5>1, ConcatEmptySeq
        <5> QED
          BY <1>14, <4>1, <5>2, Zenon
    <3>3. (d \in torn' <=> d \in torn) /\ (d \in clear' <=> d \in clear)
      BY <1>1, <1>2, <2>1, <3>1
    <3> QED
      BY <1>17, <1>19, <3>1, <3>2, <3>3, WroteNothing
  <2>2. CASE d \in live \ ok
    <3> DEFINE m == <<Msg("plain", 0, FALSE)>>
    <3>1. more(d, lost) = m
      BY <2>2
    <3>2. m \in Seq(Msgs) /\ \A i \in 1..Len(m) : ~m[i].last
      <4>1. m[1] = Msg("plain", 0, FALSE) /\ \A i \in 1..Len(m) : i = 1
        OBVIOUS
      <4> QED
        BY <1>11, <4>1
    <3> HIDE DEF m
    <3>3. out'[d] = out[d] \o m
      BY <1>14, <3>1
    <3>4. d \in clear' /\ Invalid(d)
      BY <1>2, <1>7, <2>2
    <3> QED
      BY <1>1, <1>2, <1>6, <1>14, <1>17, <1>19, <2>2, <3>2, <3>3, <3>4, WroteMore
  <2>3. CASE d \in ok /\ d = lost[1]
    <3> DEFINE m == RemoveAt(Enc(d), lost[2])
    <3>1. more(d, lost) = m
      BY <1>3, <2>3
    <3>2. m \in Seq(Msgs) /\ \A i \in 1..Len(m) : ~m[i].last
      BY <1>10, <1>12, <2>3
    <3> HIDE DEF m
    <3>3. out'[d] = out[d] \o m
      BY <1>14, <3>1
    <3>4. d \in torn' /\ (d \in clear' <=> d \in clear)
      BY <1>1, <1>2, <2>3
    <3> QED
      BY <1>6, <1>14, <1>17, <1>19, <3>2, <3>3, <3>4, WroteMore
  <2>4. CASE d \in ok /\ d # lost[1]
    <3> DEFINE m == Enc(d)
    <3>1. more(d, lost) = m
      BY <1>3, <2>4
    <3>2. m \in Seq(Msgs) /\ Len(m) = 3
          /\ \A i \in 1..Len(m) : m[i].kind = "enc" /\ m[i].nonce = heap[sess[d]].enc + i - 1
      BY <1>9, <2>4
    <3>e. \A i \in 1..Len(m) : ~m[i].last
      BY <1>9, <2>4
    <3> HIDE DEF m
    <3>3. out'[d] = out[d] \o m
      BY <1>14, <3>1
    <3>4. (d \in torn' <=> d \in torn) /\ (d \in clear' <=> d \in clear)
      BY <1>1, <1>2, <2>4
    <3>5. heap'[sess[d]].enc = heap[sess[d]].enc + Len(m)
      BY <1>17, <1>19, <2>4, <3>2
    <3> QED
      BY <1>6, <1>14, <1>17, <1>19, <3>2, <3>e, <3>3, <3>4, <3>5, WroteMore
  <2> QED
    BY <1>3, <2>1, <2>2, <2>3, <2>4
<1>20. ASSUME NEW d \in Socks, ~Open(d)
       PROVE  out'[d] = out[d] /\ d \notin (torn' \ torn) \cup (clear' \ clear)
  <2>1. d \notin live /\ d \notin ok
    BY <1>3, <1>4, <1>20
  <2>2. more(d, lost) = <<>>
    BY <2>1
  <2> QED
    BY <1>1, <1>2, <1>14, <2>1, <2>2, ConcatEmptySeq DEF TypeInv
<1>21. \A d : (FALSE /\ d = None) = FALSE
  OBVIOUS
<1> QED
  BY <1>14, <1>16, <1>18, <1>19, <1>20, <1>21, Zenon DEF Writes

\* A reply writes to one connection.
LEMMA ReplyEffect ==
  ASSUME TypeInv, SessInv, NEW c \in Socks, Reply(c)
  PROVE  Writes(c, TRUE)
<1>1. PICK k \in ReplyFrames : Send(c, k, TRUE)
  BY Zenon DEF Reply
<1>2. k \in Nat \ {0}
  BY SessionAssumption
<1>3. Open(c)
  BY Serving, Zenon DEF Reply
<1>4. TRUE \in BOOLEAN
  OBVIOUS
<1> QED
  BY <1>1, <1>2, <1>3, <1>4, SendEffect, Zenon

\* The frame that ReadRest() goes on with, and the one that ReadFrame() makes.
LEMMA FrameTypes ==
  ASSUME TypeInv, SessInv, NEW c \in Socks, busy.sock = c
  PROVE  /\ Current(c) \in Frames
         /\ Rest(Current(c)) > 0 => Current(c).read <= Len(Current(c).data)
         /\ Current(c).session = sess[c]
         /\ in[c] # <<>> =>
              /\ [session |-> sess[c], data |-> Head(in[c]).data, read |-> 0] \in Frames
              /\ 0 <= Len(Head(in[c]).data)
              /\ Head(in[c]) = in[c][1] /\ Head(in[c]) \in Sent
<1>1. sess[c] \in Addrs
  BY Serving
<1>2. Empty(c) \in Frames /\ Empty(c).session = sess[c]
  BY <1>1 DEF Empty, Frames
<1>3. Current(c) \in Frames /\ Current(c).session = sess[c]
  BY <1>2 DEF Current, TypeInv
<1>5. \A f \in Frames : Rest(f) > 0 => f.read <= Len(f.data)
  BY DEF Rest, Frames
<1>4. ASSUME in[c] # <<>>
      PROVE  /\ [session |-> sess[c], data |-> Head(in[c]).data, read |-> 0] \in Frames
             /\ 0 <= Len(Head(in[c]).data)
             /\ Head(in[c]) = in[c][1] /\ Head(in[c]) \in Sent
  <2>1. Head(in[c]) \in Sent /\ Head(in[c]) = in[c][1]
    BY <1>4 DEF TypeInv
  <2>2. Head(in[c]).data \in Seq(Units)
    BY <2>1 DEF Sent
  <2> QED
    BY <1>1, <2>1, <2>2 DEF Frames
<1> QED
  BY <1>3, <1>4, <1>5

\* CopyEffect for a frame that is only known to be one.
LEMMA Copies ==
  ASSUME TypeInv, NEW c \in Socks
  PROVE  \A f \in Frames, size \in Nat :
           f.read <= Len(f.data) /\ Copy(c, f, size) => \E n \in Nat : Copied(c, f, n)
BY CopyEffect

\* ReadRest() goes on with the frame that is there.
LEMMA RestEffect ==
  ASSUME TypeInv, SessInv, NEW c \in Socks, ReadRest(c)
  PROVE  \E n \in Nat : Copied(c, Current(c), n)
<1>1. PICK size \in 1..BufUnits : Copy(c, Current(c), size)
  BY Zenon DEF ReadRest
<1>2. busy.sock = c /\ Rest(Current(c)) > 0
  BY DEF ReadRest
<1>3. Current(c) \in Frames /\ Current(c).read <= Len(Current(c).data)
  BY <1>2, FrameTypes
<1>4. size \in Nat
  BY SessionAssumption
<1> QED
  BY <1>1, <1>3, <1>4, Copies, Zenon

\* The frame just decrypted.
Fresh(c) == [session |-> sess[c], data |-> Head(in[c]).data, read |-> 0]
\* ReadFrame() goes on with the frame it has decrypted.
LEMMA FrameEffect ==
  ASSUME TypeInv, SessInv, NEW c \in Socks, ReadFrame(c)
  PROVE  \E n \in Nat : Copied(c, Fresh(c), n)
<1>1. PICK size \in 1..BufUnits : Copy(c, Fresh(c), size)
  BY Zenon DEF ReadFrame, Fresh
<1>2. busy.sock = c /\ in[c] # <<>>
  BY DEF ReadFrame
<1>3. Fresh(c) \in Frames /\ Fresh(c).read <= Len(Fresh(c).data)
  BY <1>2, FrameTypes DEF Fresh
<1>4. size \in Nat
  BY SessionAssumption
<1> QED
  BY <1>1, <1>3, <1>4, Copies, Zenon

-----------------------------------------------------------------------------
(* Types and sessions *)

\* Functions and queues are changed at one place.
LEMMA Put ==
  ASSUME NEW S, NEW T, NEW f \in [S -> T], NEW x, NEW v \in T
  PROVE  [f EXCEPT ![x] = v] \in [S -> T]
OBVIOUS

\* Queues keep their types.
LEMMA QueueTypes ==
  ASSUME NEW S, NEW q \in Seq(S)
  PROVE  /\ \A x \in S : q \o <<x>> \in Seq(S) /\ Append(q, x) \in Seq(S)
         /\ q # <<>> => Tail(q) \in Seq(S)
OBVIOUS

\* At the start every socket is closed.
LEMMA TypeInit == Init => TypeInv /\ SessInv
<1> SUFFICES ASSUME Init PROVE TypeInv /\ SessInv
  OBVIOUS
<1>1. <<>> \in Seq(Socks \cup {"notify"}) /\ <<>> \in Seq(Units) /\ <<>> \in Seq(Sent) /\ <<>> \in Seq(Msgs)
  OBVIOUS
<1>2. Peer(0) \in Peers
  BY DEF Peer, Peers
<1>3. Free \in States
  BY DEF Free, States
<1>4. [session |-> None, data |-> <<>>, read |-> 0] \in Frames
  BY <1>1 DEF Frames
<1>5. TypeInv
  BY <1>1, <1>2, <1>3, <1>4 DEF Init, TypeInv, Idle
<1>6. SessInv
  BY DEF Init, SessInv, Open, Idle
<1> QED
  BY <1>5, <1>6

\* The exception of a read that overruns its frame closes every socket.
LEMMA Restarted ==
  ASSUME TypeInv, NEW c \in Socks, Overrun(c)
  PROVE  TypeInv' /\ SessInv' /\ \A d \in Socks : ~Open(d)'
<1>1. <<>> \in Seq(Socks \cup {"notify"}) /\ <<>> \in Seq(Units) /\ <<>> \in Seq(Sent) /\ <<>> \in Seq(Msgs)
  OBVIOUS
<1>2. Peer(0) \in Peers
  BY DEF Peer, Peers
<1>3. Free \in States
  BY DEF Free, States
<1>4. [session |-> None, data |-> <<>>, read |-> 0] \in Frames
  BY <1>1 DEF Frames
<1>5. /\ sess' = [d \in Socks |-> None] /\ heap' = [a \in Addrs |-> Free] /\ table' = {}
      /\ frame' = [session |-> None, data |-> <<>>, read |-> 0]
      /\ busy' = Idle /\ work' = <<>>
      /\ in' = [d \in Socks |-> <<>>] /\ out' = [d \in Socks |-> <<>>]
      /\ peer' = [d \in Socks |-> Peer(0)] /\ got' = [d \in Socks |-> <<>>]
      /\ ghost' = {} /\ torn' = {} /\ clear' = {} /\ conns' = conns
  BY DEF Overrun
<1>6. TypeInv'
  BY <1>1, <1>2, <1>3, <1>4, <1>5 DEF TypeInv, Idle
<1>7. SessInv' /\ \A d \in Socks : ~Open(d)'
  BY <1>5 DEF SessInv, Open, Idle
<1> QED
  BY <1>6, <1>7

\* A controller that sends n units, that has a request of n units, that
\* understands a frame.
Sending(p, n) == [p EXCEPT !.enc = @ + 1, !.todo = @ - n, !.sent = @ + n]
Asking(p, n)  == [p EXCEPT !.todo = n, !.waits = TRUE, !.requests = @ + 1]
Hearing(p, b) == [p EXCEPT !.dec = @ + 1, !.waits = b]
\* What the three leave of a controller.
LEMMA PeerSteps ==
  ASSUME NEW p \in Peers, NEW n \in Nat, NEW b \in BOOLEAN
  PROVE  /\ n <= p.todo =>
              /\ Sending(p, n) \in Peers /\ Sending(p, n).gen = p.gen /\ Sending(p, n).dec = p.dec
              /\ Sending(p, n).todo = p.todo - n /\ Sending(p, n).sent = p.sent + n
              /\ Sending(p, n).waits = p.waits
         /\ Asking(p, n) \in Peers /\ Asking(p, n).gen = p.gen /\ Asking(p, n).dec = p.dec
         /\ Asking(p, n).todo = n /\ Asking(p, n).sent = p.sent /\ Asking(p, n).waits
         /\ Hearing(p, b) \in Peers /\ Hearing(p, b).gen = p.gen /\ Hearing(p, b).dec = p.dec + 1
         /\ Hearing(p, b).todo = p.todo /\ Hearing(p, b).sent = p.sent /\ Hearing(p, b).waits = b
<1>f. /\ p.enc \in Nat /\ p.dec \in Nat /\ p.todo \in Nat /\ p.sent \in Nat /\ p.requests \in Nat
      /\ p.enc + 1 \in Nat /\ p.dec + 1 \in Nat /\ p.sent + n \in Nat /\ p.requests + 1 \in Nat
  BY DEF Peers
<1>1. ASSUME n <= p.todo
      PROVE  /\ Sending(p, n) \in Peers /\ Sending(p, n).gen = p.gen /\ Sending(p, n).dec = p.dec
             /\ Sending(p, n).todo = p.todo - n /\ Sending(p, n).sent = p.sent + n
             /\ Sending(p, n).waits = p.waits
  <2>1. \A e, t, r \in Nat : [p EXCEPT !.enc = e, !.todo = t, !.sent = r] \in Peers
    BY DEF Peers
  <2>2. p.todo - n \in Nat
    BY <1>1, <1>f
  <2>3. [p EXCEPT !.enc = p.enc + 1, !.todo = p.todo - n, !.sent = p.sent + n] \in Peers
    BY <1>f, <2>1, <2>2, Zenon
  <2>4. LET q == [p EXCEPT !.enc = @ + 1, !.todo = @ - n, !.sent = @ + n] IN
        /\ q = [p EXCEPT !.enc = p.enc + 1, !.todo = p.todo - n, !.sent = p.sent + n]
        /\ q.gen = p.gen /\ q.dec = p.dec /\ q.todo = p.todo - n /\ q.sent = p.sent + n
        /\ q.waits = p.waits
    BY DEF Peers
  <2> QED
    BY <2>3, <2>4, Zenon DEF Sending
<1>2. /\ Asking(p, n) \in Peers /\ Asking(p, n).gen = p.gen /\ Asking(p, n).dec = p.dec
      /\ Asking(p, n).todo = n /\ Asking(p, n).sent = p.sent /\ Asking(p, n).waits
  <2>1. \A k \in Nat : [p EXCEPT !.todo = n, !.waits = TRUE, !.requests = k] \in Peers
    BY DEF Peers
  <2>2. [p EXCEPT !.todo = n, !.waits = TRUE, !.requests = p.requests + 1] \in Peers
    BY <1>f, <2>1, Zenon
  <2>3. LET q == [p EXCEPT !.todo = n, !.waits = TRUE, !.requests = @ + 1] IN
        /\ q = [p EXCEPT !.todo = n, !.waits = TRUE, !.requests = p.requests + 1]
        /\ q.gen = p.gen /\ q.dec = p.dec /\ q.todo = n /\ q.sent = p.sent /\ q.waits = TRUE
    BY DEF Peers
  <2> QED
    BY <2>2, <2>3, Zenon DEF Asking
<1>3. /\ Hearing(p, b) \in Peers /\ Hearing(p, b).gen = p.gen /\ Hearing(p, b).dec = p.dec + 1
      /\ Hearing(p, b).todo = p.todo /\ Hearing(p, b).sent = p.sent /\ Hearing(p, b).waits = b
  <2>1. \A k \in Nat : [p EXCEPT !.dec = k, !.waits = b] \in Peers
    BY DEF Peers
  <2>2. [p EXCEPT !.dec = p.dec + 1, !.waits = b] \in Peers
    BY <1>f, <2>1, Zenon
  <2>3. LET q == [p EXCEPT !.dec = @ + 1, !.waits = b] IN
        /\ q = [p EXCEPT !.dec = p.dec + 1, !.waits = b]
        /\ q.gen = p.gen /\ q.dec = p.dec + 1 /\ q.todo = p.todo /\ q.sent = p.sent /\ q.waits = b
    BY DEF Peers
  <2> QED
    BY <2>2, <2>3, Zenon DEF Hearing
<1> QED
  BY <1>1, <1>2, <1>3, Zenon

\* The controller of c becomes p, all others stay.
Turns(c, p) ==
  /\ peer' \in [Socks -> Peers] /\ peer' = [peer EXCEPT ![c] = p] /\ peer'[c] = p
  /\ \A d \in Socks : d # c => peer'[d] = peer[d]
\* The change of one controller, element by element.
LEMMA Turning ==
  ASSUME TypeInv, NEW c \in Socks, NEW p \in Peers, peer' = [peer EXCEPT ![c] = p]
  PROVE  Turns(c, p)
BY DEF Turns, TypeInv

\* What a controller sends: the next units it has.
SentFrame(c, n) == [nonce |-> peer[c].enc,
                    data |-> [i \in 1..n |-> Unit(peer[c].gen, peer[c].sent + i)]]
\* SendFrame() adds one frame, whose units are the next ones.
LEMMA SendTypes ==
  ASSUME TypeInv, NEW c \in Socks, SendFrame(c)
  PROVE  /\ in' \in [Socks -> Seq(Sent)]
         /\ \E n \in Nat \ {0} :
              /\ n <= peer[c].todo /\ SentFrame(c, n) \in Sent
              /\ in' = [in EXCEPT ![c] = Append(in[c], SentFrame(c, n))]
              /\ Turns(c, Sending(peer[c], n))
<1>1. PICK n \in 1..FrameUnits :
        /\ n <= peer[c].todo
        /\ in' = [in EXCEPT ![c] = Append(@, SentFrame(c, n))]
        /\ peer' = [peer EXCEPT ![c].enc = @ + 1, ![c].todo = @ - n, ![c].sent = @ + n]
  BY Zenon DEF SendFrame, SentFrame
<1>2. n \in Nat \ {0} /\ peer[c] \in Peers
  BY SessionAssumption DEF TypeInv
<1>3. Sending(peer[c], n) \in Peers
  BY <1>1, <1>2, PeerSteps
<1>4. peer' = [peer EXCEPT ![c] = Sending(peer[c], n)]
  BY <1>1 DEF Sending, TypeInv
<1>5. Turns(c, Sending(peer[c], n))
  BY <1>3, <1>4, Turning
<1>6. SentFrame(c, n) \in Sent
  <2>1. [i \in 1..n |-> Unit(peer[c].gen, peer[c].sent + i)] \in [1..n -> Units]
    BY <1>2 DEF Unit, Units, Peers
  <2>2. \A d \in [1..n -> Units] : d \in Seq(Units)
    BY <1>2
  <2>3. peer[c].enc \in Nat
    BY <1>2 DEF Peers
  <2> QED
    BY <2>1, <2>2, <2>3 DEF SentFrame, Sent
<1>7. Append(in[c], SentFrame(c, n)) \in Seq(Sent)
  BY <1>6, QueueTypes DEF TypeInv
<1>8. in' = [in EXCEPT ![c] = Append(in[c], SentFrame(c, n))] /\ in' \in [Socks -> Seq(Sent)]
  BY <1>1, <1>7, Put DEF TypeInv
<1> QED
  BY <1>1, <1>2, <1>4, <1>5, <1>6, <1>8

\* A controller that has a request waits for the reply.
LEMMA AskTypes ==
  ASSUME TypeInv, NEW c \in Socks, NewRequest(c)
  PROVE  \E n \in Nat : Turns(c, Asking(peer[c], n))
<1>1. PICK n \in Sizes :
        peer' = [peer EXCEPT ![c].todo = n, ![c].waits = TRUE, ![c].requests = @ + 1]
  BY Zenon DEF NewRequest
<1>2. n \in Nat /\ peer[c] \in Peers
  BY SessionAssumption DEF TypeInv
<1>3. Asking(peer[c], n) \in Peers
  BY <1>2, PeerSteps
<1>4. peer' = [peer EXCEPT ![c] = Asking(peer[c], n)]
  BY <1>1 DEF TypeInv, Asking
<1> QED
  BY <1>2, <1>3, <1>4, Turning

\* A controller takes one frame from the front.
LEMMA HearTypes ==
  ASSUME TypeInv, NEW c \in Socks, Understand(c)
  PROVE  /\ out' = [out EXCEPT ![c] = Tail(out[c])] /\ out' \in [Socks -> Seq(Msgs)]
         /\ \E b \in BOOLEAN : /\ b <=> peer[c].waits /\ ~Head(out[c]).last
                               /\ Turns(c, Hearing(peer[c], b))
<1>1. Tail(out[c]) \in Seq(Msgs)
  BY QueueTypes DEF Understand, TypeInv
<1>2. PICK b \in BOOLEAN : b = (peer[c].waits /\ ~Head(out[c]).last)
  <2>1. (peer[c].waits /\ ~Head(out[c]).last) \in BOOLEAN
    BY Zenon
  <2> QED
    BY <2>1, Zenon
<1>3. peer[c] \in Peers
  BY DEF TypeInv
<1>4. Hearing(peer[c], b) \in Peers
  BY <1>3, PeerSteps
<1>5. peer' = [peer EXCEPT ![c] = Hearing(peer[c], b)]
  BY <1>2, Zenon DEF Understand, Hearing
<1>6. Turns(c, Hearing(peer[c], b))
  BY <1>4, <1>5, Turning
<1> QED
  BY <1>1, <1>2, <1>6, Put DEF Understand, TypeInv

\* Every step keeps the types.
LEMMA TypeStep == TypeInv /\ SessInv /\ [Next]_vars => TypeInv'
<1> SUFFICES ASSUME TypeInv, SessInv, [Next]_vars PROVE TypeInv'
  OBVIOUS
<1>0. CASE UNCHANGED vars
  BY <1>0 DEF vars, TypeInv
<1>1. ASSUME NEW c \in Socks, Verified(c) PROVE TypeInv'
  <2>1. Peer(conns + 1) \in Peers
    <3>1. conns + 1 \in Nat
      BY DEF TypeInv
    <3> QED
      BY <3>1 DEF Peer, Peers
  <2>2. PICK a \in Addrs :
          /\ heap' = [heap EXCEPT ![a] = [state |-> "verified", enc |-> 0, dec |-> 0]]
          /\ sess' = [sess EXCEPT ![c] = a] /\ hap_add_secure_session(a)
          /\ ghost' = ghost \cup {c} \/ ghost' = ghost
    BY <1>1, Zenon DEF Verified
  <2>3. [state |-> "verified", enc |-> 0, dec |-> 0] \in States
    BY DEF States
  <2>4. table' \subseteq Addrs
    BY <2>2 DEF hap_add_secure_session, TypeInv
  <2>5. peer' = [peer EXCEPT ![c] = Peer(conns + 1)] /\ conns' = conns + 1
        /\ UNCHANGED <<frame, busy, work, in, out, got, torn, clear>>
    BY <1>1 DEF Verified
  <2> QED
    BY <2>1, <2>2, <2>3, <2>4, <2>5 DEF TypeInv
<1>2. ASSUME NEW c \in Socks, Close(c) PROVE TypeInv'
  <2>1. Peer(0) \in Peers /\ Free \in States
    BY DEF Peer, Peers, Free, States
  <2>2. <<>> \in Seq(Units) /\ <<>> \in Seq(Sent) /\ <<>> \in Seq(Msgs)
    OBVIOUS
  <2>3. frame' \in Frames /\ frame'.read <= Len(frame'.data) + 1
    <3>1. sess[c] \in Addrs
      BY <1>2 DEF Close, Open, TypeInv
    <3> QED
      BY <1>2, <3>1, RemainsFrames DEF Close, TypeInv
  <2>4. work' \in Seq(Socks \cup {"notify"})
    <3>1. work \o <<c>> \in Seq(Socks \cup {"notify"}) /\ (work # <<>> => Tail(work) \in Seq(Socks \cup {"notify"}))
      BY QueueTypes DEF TypeInv
    <3> QED
      BY <1>2, <3>1, Zenon DEF Close, TypeInv
  <2>5. /\ sess' = [sess EXCEPT ![c] = None] /\ heap' = [heap EXCEPT ![sess[c]] = Free]
        /\ table' = table \ {sess[c]}
        /\ in' = [in EXCEPT ![c] = <<>>] /\ out' = [out EXCEPT ![c] = <<>>]
        /\ peer' = [peer EXCEPT ![c] = Peer(0)] /\ got' = [got EXCEPT ![c] = <<>>]
        /\ ghost' = ghost \ {c} /\ torn' = torn \ {c} /\ clear' = clear \ {c}
        /\ busy' = IF busy.sock = c THEN Idle ELSE busy
        /\ conns' = conns
    BY <1>2 DEF Close, Closed, Freed
  <2>6. busy' = [sock |-> busy'.sock, left |-> busy'.left] /\ busy'.sock \in Socks \cup {None}
    BY <2>5 DEF TypeInv, Idle
  <2> QED
    BY <2>1, <2>2, <2>3, <2>4, <2>5, <2>6 DEF TypeInv
<1>3. ASSUME NEW c \in Socks, Request(c) PROVE TypeInv'
  BY <1>3 DEF Request, TypeInv
<1>4. ASSUME NEW c \in Socks, NEW f \in Frames, NEW n \in Nat, f.read <= Len(f.data), Copied(c, f, n)
      PROVE  /\ frame' \in Frames /\ frame'.read <= Len(frame'.data) + 1
             /\ got' \in [Socks -> Seq(Units)]
             /\ busy' = [sock |-> busy'.sock, left |-> busy'.left] /\ busy'.sock = busy.sock
  <2>0. frame' = [f EXCEPT !.read = f.read + n] /\ n \in 0..(Len(f.data) - f.read)
    BY <1>4, Zenon DEF Copied, Rest
  <2>1. frame' = [session |-> f.session, data |-> f.data, read |-> f.read + n]
        /\ f.read \in Nat /\ f.read + n <= Len(f.data)
    BY <2>0 DEF Frames
  <2>2. frame' \in Frames /\ frame'.read <= Len(frame'.data) + 1
    BY <2>1 DEF Frames
  <2> QED
    BY <1>4, <2>2 DEF Copied
<1>5. ASSUME NEW c \in Socks, ReadRest(c) PROVE TypeInv'
  <2>1. /\ busy.sock = c /\ Rest(Current(c)) > 0
        /\ UNCHANGED <<sess, heap, table, work, in, out, peer, ghost, torn, clear, conns>>
    BY <1>5 DEF ReadRest
  <2>2. PICK n \in Nat : Copied(c, Current(c), n)
    BY <1>5, RestEffect
  <2>3. Current(c) \in Frames /\ Current(c).read <= Len(Current(c).data)
    BY <2>1, FrameTypes
  <2> QED
    BY <1>4, <2>1, <2>2, <2>3 DEF TypeInv
<1>6. ASSUME NEW c \in Socks, ReadFrame(c) PROVE TypeInv'
  <2>1. /\ busy.sock = c /\ in[c] # <<>> /\ in' = [in EXCEPT ![c] = Tail(@)]
        /\ heap' = [heap EXCEPT ![sess[c]].dec = @ + 1]
        /\ UNCHANGED <<sess, table, work, out, peer, ghost, torn, clear, conns>>
    BY <1>6 DEF ReadFrame
  <2>2. PICK n \in Nat : Copied(c, Fresh(c), n)
    BY <1>6, FrameEffect
  <2>3. Fresh(c) \in Frames /\ Fresh(c).read <= Len(Fresh(c).data)
    BY <2>1, FrameTypes DEF Fresh
  <2>4. in' \in [Socks -> Seq(Sent)]
    BY <2>1 DEF TypeInv
  <2>5. heap' \in [Addrs -> States]
    <3>1. heap[sess[c]] \in States
      BY <2>1, Serving DEF TypeInv
    <3>2. [heap[sess[c]] EXCEPT !.dec = heap[sess[c]].dec + 1] \in States
      BY <3>1 DEF States
    <3> QED
      BY <2>1, <3>2, Put DEF TypeInv
  <2> QED
    BY <1>4, <2>1, <2>2, <2>3, <2>4, <2>5 DEF TypeInv
<1>7. ASSUME NEW c \in Socks, Fail(c) PROVE TypeInv'
  <2>1. sess[c] \in Addrs
    BY <1>7, Serving DEF Fail
  <2>2. heap' \in [Addrs -> States]
    <3>1. heap[sess[c]] \in States
      BY <2>1 DEF TypeInv
    <3>2. [heap[sess[c]] EXCEPT !.state = "invalid"] \in States
      BY <3>1 DEF States
    <3> QED
      BY <1>7, <3>2, Put DEF TypeInv, Fail
  <2>3. in' \in [Socks -> Seq(Sent)] /\ peer' \in [Socks -> Peers]
    <3>1. [peer[c] EXCEPT !.todo = 0] \in Peers
      BY DEF TypeInv, Peers
    <3>2. [peer EXCEPT ![c].todo = 0] \in [Socks -> Peers]
      BY <3>1, Put DEF TypeInv
    <3>3. [in EXCEPT ![c] = <<>>] \in [Socks -> Seq(Sent)]
      BY Put DEF TypeInv
    <3> QED
      BY <1>7, <3>2, <3>3 DEF Fail, TypeInv
  <2>4. frame' \in Frames /\ frame'.read <= Len(frame'.data) + 1
    BY <1>7, <2>1, RemainsFrames DEF Fail
  <2>5. work' \in Seq(Socks \cup {"notify"})
    <3>1. work \o <<c>> \in Seq(Socks \cup {"notify"})
      BY QueueTypes DEF TypeInv
    <3> QED
      BY <1>7, <3>1, Zenon DEF Fail, TypeInv
  <2>6. busy' = [sock |-> busy'.sock, left |-> busy'.left] /\ busy'.sock \in Socks \cup {None}
    BY <1>7 DEF Fail, TypeInv
  <2>7. UNCHANGED <<sess, table, out, got, ghost, torn, clear, conns>>
    BY <1>7 DEF Fail
  <2> QED
    BY <2>2, <2>3, <2>4, <2>5, <2>6, <2>7 DEF TypeInv
<1>8. ASSUME NEW c \in Socks, Reply(c) PROVE TypeInv'
  <2>1. Writes(c, TRUE)
    BY <1>8, ReplyEffect
  <2>2. busy' = Idle /\ UNCHANGED <<sess, table, frame, work, in, peer, got, ghost, conns>>
    BY <1>8 DEF Reply
  <2> QED
    BY <2>1, <2>2 DEF Writes, TypeInv, Idle
<1>9. ASSUME NEW c \in Socks, NewRequest(c) PROVE TypeInv'
  BY <1>9, AskTypes DEF NewRequest, TypeInv, Turns
<1>10. ASSUME NEW c \in Socks, SendFrame(c) PROVE TypeInv'
  BY <1>10, SendTypes DEF SendFrame, TypeInv, Turns
<1>11. ASSUME NEW c \in Socks, Understand(c) PROVE TypeInv'
  BY <1>11, HearTypes DEF Understand, TypeInv, Turns
<1>12. CASE Change
  <2>1. Append(work, "notify") \in Seq(Socks \cup {"notify"})
    BY QueueTypes DEF TypeInv
  <2> QED
    BY <1>12, <2>1 DEF Change, TypeInv
<1>13. CASE Notify
  <2>1. Writes(None, FALSE)
    BY <1>13, NotifyEffect
  <2>2. /\ UNCHANGED <<sess, table, frame, busy, in, peer, got, ghost, conns>>
        /\ work' = Tail(work) /\ work # <<>>
    BY <1>13 DEF Notify
  <2>3. work' \in Seq(Socks \cup {"notify"})
    BY <2>2, QueueTypes DEF TypeInv
  <2> QED
    BY <2>1, <2>2, <2>3 DEF Writes, TypeInv
<1>14. CASE Skip
  BY <1>14 DEF Skip, TypeInv
<1>15. ASSUME NEW c \in Socks, Overrun(c) PROVE TypeInv'
  BY <1>15, Restarted
<1> QED
  BY <1>0, <1>1, <1>2, <1>3, <1>5, <1>6, <1>7, <1>8, <1>9, <1>10, <1>11, <1>12, <1>13, <1>14,
     <1>15, Actions, Zenon

\* The connection of d is not touched.
Still(d) ==
  /\ sess'[d] = sess[d] /\ in'[d] = in[d] /\ out'[d] = out[d] /\ peer'[d] = peer[d]
  /\ got'[d] = got[d]
  /\ (d \in ghost' <=> d \in ghost) /\ (d \in torn' <=> d \in torn) /\ (d \in clear' <=> d \in clear)
  /\ Open(d) => heap'[sess[d]] = heap[sess[d]] /\ (sess[d] \in table' => sess[d] \in table)

Acts(c) ==
  \/ Verified(c) \/ Close(c) \/ Request(c) \/ ReadRest(c) \/ ReadFrame(c) \/ Fail(c)
  \/ NewRequest(c) \/ SendFrame(c) \/ Understand(c)

\* Every step but the writing ones and those of the queue is one of Acts.
LEMMA Steps ==
  ASSUME TypeInv, SessInv, [Next]_vars
  PROVE  \/ UNCHANGED vars
         \/ \E c \in Socks : Acts(c)
         \/ \E c \in Socks : Reply(c)
         \/ \E c \in Socks : Overrun(c)
         \/ Change \/ Notify \/ Skip
BY Actions, Zenon DEF Acts

\* These steps are about one connection.
LEMMA Others ==
  ASSUME TypeInv, SessInv, NEW c \in Socks, Acts(c), NEW d \in Socks, d # c
  PROVE  Still(d)
<1>1. Open(d) => sess[d] \in Addrs /\ heap[sess[d]].state # "free"
  BY DEF TypeInv, SessInv, Open
<1>2. Open(d) => sess[d] # sess[c]
  BY DEF SessInv
<1>3. CASE Verified(c)
  <2>1. PICK a \in Addrs :
          /\ heap[a].state = "free"
          /\ heap' = [heap EXCEPT ![a] = [state |-> "verified", enc |-> 0, dec |-> 0]]
          /\ sess' = [sess EXCEPT ![c] = a] /\ hap_add_secure_session(a)
          /\ ghost' = ghost \cup {c} \/ ghost' = ghost
    BY <1>3, Zenon DEF Verified
  <2>2. Open(d) => sess[d] # a
    BY <1>1, <2>1
  <2>3. table' \subseteq table \cup {a}
    BY <2>1 DEF hap_add_secure_session
  <2>4. peer' = [peer EXCEPT ![c] = Peer(conns + 1)]
        /\ UNCHANGED <<frame, busy, work, in, out, got, torn, clear>>
    BY <1>3 DEF Verified
  <2>5. sess'[d] = sess[d] /\ peer'[d] = peer[d] /\ (d \in ghost' <=> d \in ghost)
    BY <2>1, <2>4 DEF TypeInv
  <2>6. Open(d) => heap'[sess[d]] = heap[sess[d]]
    BY <1>1, <2>1, <2>2 DEF TypeInv
  <2> QED
    BY <2>2, <2>3, <2>4, <2>5, <2>6 DEF Still
<1>4. CASE Close(c)
  BY <1>1, <1>2, <1>4 DEF Close, Closed, Freed, TypeInv, Still
<1>5. CASE Request(c)
  BY <1>5 DEF Request, Still
<1>6. CASE ReadRest(c)
  <2>1. got'[d] = got[d]
    BY <1>6, RestEffect DEF Copied
  <2> QED
    BY <1>6, <2>1 DEF ReadRest, Still
<1>7. CASE ReadFrame(c)
  <2>1. got'[d] = got[d]
    BY <1>7, FrameEffect DEF Copied
  <2>2. in'[d] = in[d]
    BY <1>7 DEF ReadFrame, TypeInv
  <2>3. Open(d) => heap'[sess[d]] = heap[sess[d]]
    BY <1>1, <1>2, <1>7 DEF ReadFrame, TypeInv
  <2> QED
    BY <1>7, <2>1, <2>2, <2>3 DEF ReadFrame, Still
<1>8. CASE Fail(c)
  <2>1. Open(d) => heap'[sess[d]] = heap[sess[d]]
    BY <1>1, <1>2, <1>8 DEF Fail, TypeInv
  <2>2. in'[d] = in[d] /\ peer'[d] = peer[d]
    BY <1>8 DEF Fail, TypeInv
  <2> QED
    BY <1>8, <2>1, <2>2 DEF Fail, Still
<1>9. CASE NewRequest(c)
  BY <1>9, AskTypes DEF NewRequest, Turns, Still
<1>10. CASE SendFrame(c)
  <2>1. in'[d] = in[d] /\ peer'[d] = peer[d]
    BY <1>10, SendTypes DEF Turns, TypeInv
  <2> QED
    BY <1>10, <2>1 DEF SendFrame, Still
<1>11. CASE Understand(c)
  <2>1. out'[d] = out[d] /\ peer'[d] = peer[d]
    BY <1>11, HearTypes DEF Turns, TypeInv
  <2> QED
    BY <1>11, <2>1 DEF Understand, Still
<1> QED
  BY <1>3, <1>4, <1>5, <1>6, <1>7, <1>8, <1>9, <1>10, <1>11 DEF Acts

\* What SessInv says of the connection that a step is about.
Belongs(c) ==
  /\ sess'[c] # None => heap'[sess'[c]].state # "free"
  /\ \A d \in Socks : d # c /\ sess[d] # None => sess'[c] # sess[d]
  /\ busy'.sock # None => \/ busy'.sock = busy.sock /\ busy.sock # c
                          \/ busy'.sock = c /\ sess'[c] # None
  /\ sess'[c] = None =>
       /\ in'[c] = <<>> /\ out'[c] = <<>> /\ got'[c] = <<>>
       /\ c \notin ghost' \cup torn' \cup clear'

\* Every action leaves its own connection with a session of its own, or none.
LEMMA SessAct ==
  ASSUME TypeInv, SessInv, NEW c \in Socks, Acts(c)
  PROVE  Belongs(c)
<1>1. Open(c) => sess[c] \in Addrs /\ heap[sess[c]].state # "free"
  BY DEF TypeInv, SessInv, Open
<1>2. \A d \in Socks : d # c /\ sess[d] # None => sess[c] # sess[d]
  BY DEF SessInv, Open
<1>3. sess[c] = None => /\ in[c] = <<>> /\ out[c] = <<>> /\ got[c] = <<>>
                        /\ c \notin ghost \cup torn \cup clear
  BY DEF SessInv, Open
<1>4. busy.sock # None => Open(busy.sock)
  BY DEF SessInv
<1>5. CASE Verified(c)
  <2>1. PICK a \in Addrs :
          /\ heap[a].state = "free"
          /\ heap' = [heap EXCEPT ![a] = [state |-> "verified", enc |-> 0, dec |-> 0]]
          /\ sess' = [sess EXCEPT ![c] = a]
    BY <1>5, Zenon DEF Verified
  <2>2. sess'[c] = a /\ a # None /\ heap'[a].state = "verified"
    BY <2>1, SessionAssumption DEF TypeInv
  <2>3. \A d \in Socks : sess[d] # None => sess[d] # a
    BY <2>1 DEF SessInv, Open
  <2>4. busy' = busy /\ ~Open(c)
    BY <1>5 DEF Verified
  <2> QED
    BY <1>4, <2>2, <2>3, <2>4 DEF Belongs
<1>6. CASE Close(c)
  <2>1. /\ sess'[c] = None /\ in'[c] = <<>> /\ out'[c] = <<>> /\ got'[c] = <<>>
        /\ c \notin ghost' \cup torn' \cup clear'
        /\ busy' = IF busy.sock = c THEN Idle ELSE busy
    BY <1>6 DEF Close, Closed, TypeInv
  <2> QED
    BY <2>1 DEF Belongs, Idle
<1>7. CASE Request(c)
  BY <1>1, <1>2, <1>7 DEF Request, Open, Belongs
<1>8. CASE ReadRest(c) \/ ReadFrame(c)
  <2>1. busy.sock = c /\ sess' = sess
    BY <1>8 DEF ReadRest, ReadFrame
  <2>2. Open(c) /\ sess[c] \in Addrs
    BY <2>1, Serving
  <2>3. busy'.sock = busy.sock
    BY <1>8, RestEffect, FrameEffect DEF Copied
  <2>4. heap'[sess[c]].state = heap[sess[c]].state
    BY <1>8, <2>2 DEF ReadRest, ReadFrame, TypeInv, States
  <2> QED
    BY <1>1, <1>2, <2>1, <2>2, <2>3, <2>4 DEF Open, Belongs
<1>9. CASE Fail(c)
  <2>1. busy.sock = c /\ sess' = sess /\ busy'.sock = busy.sock
    BY <1>9 DEF Fail, TypeInv
  <2>2. Open(c) /\ sess[c] \in Addrs
    BY <2>1, Serving
  <2>4. heap'[sess[c]].state = "invalid"
    BY <1>9, <2>2 DEF Fail, TypeInv, States
  <2> QED
    BY <1>2, <2>1, <2>2, <2>4 DEF Open, Belongs
<1>10. CASE NewRequest(c) \/ SendFrame(c) \/ Understand(c)
  <2>1. Open(c) /\ sess' = sess /\ busy' = busy /\ heap' = heap
    BY <1>10 DEF NewRequest, SendFrame, Understand
  <2> QED
    BY <1>1, <1>2, <2>1 DEF Open, Belongs
<1> QED
  BY <1>5, <1>6, <1>7, <1>8, <1>9, <1>10 DEF Acts

\* Every step keeps sessions and sockets together one to one.
LEMMA SessStep == TypeInv /\ SessInv /\ [Next]_vars => SessInv'
<1> SUFFICES ASSUME TypeInv, SessInv, [Next]_vars PROVE SessInv'
  OBVIOUS
<1>1. ASSUME NEW c \in Socks, Acts(c) PROVE SessInv'
  <2>1. Belongs(c) /\ \A d \in Socks : d # c => Still(d)
    BY <1>1, SessAct, Others
  <2>2. ASSUME NEW d \in Socks, sess'[d] # None PROVE heap'[sess'[d]].state # "free"
    BY <2>1, <2>2 DEF Belongs, Still, SessInv, Open
  <2>3. ASSUME NEW d \in Socks, NEW e \in Socks, sess'[d] # None, sess'[d] = sess'[e] PROVE d = e
    BY <2>1, <2>3 DEF Belongs, Still, SessInv, Open
  <2>4. busy'.sock # None => sess'[busy'.sock] # None
    BY <2>1 DEF Belongs, Still, SessInv, Open, TypeInv
  <2>5. ASSUME NEW d \in Socks, sess'[d] = None
        PROVE  /\ in'[d] = <<>> /\ out'[d] = <<>> /\ got'[d] = <<>>
               /\ d \notin ghost' \cup torn' \cup clear'
    BY <2>1, <2>5 DEF Belongs, Still, SessInv, Open
  <2> QED
    BY <2>2, <2>3, <2>4, <2>5 DEF SessInv, Open
<1>2. ASSUME NEW c, NEW last, Writes(c, last), sess' = sess, busy' = busy \/ busy' = Idle,
             UNCHANGED <<in, got, ghost>>
      PROVE  SessInv'
  <2>1. ASSUME NEW d \in Socks, Open(d) PROVE heap'[sess[d]].state = heap[sess[d]].state
    BY <1>2, <2>1 DEF Writes, Wrote
  <2>2. ASSUME NEW d \in Socks, ~Open(d)
        PROVE  out'[d] = out[d] /\ (d \in torn' => d \in torn) /\ (d \in clear' => d \in clear)
    BY <1>2, <2>2 DEF Writes
  <2> QED
    BY <1>2, <2>1, <2>2 DEF SessInv, Open, Idle
<1>3. ASSUME NEW c \in Socks, Reply(c) PROVE SessInv'
  BY <1>2, <1>3, ReplyEffect DEF Reply
<1>4. CASE Notify
  BY <1>2, <1>4, NotifyEffect DEF Notify
<1>5. CASE UNCHANGED vars \/ Change \/ Skip
  BY <1>5 DEF vars, Change, Skip, SessInv, Open
<1>6. ASSUME NEW c \in Socks, Overrun(c) PROVE SessInv'
  BY <1>6, Restarted
<1> QED
  BY <1>1, <1>3, <1>4, <1>5, <1>6, Steps, Zenon

-----------------------------------------------------------------------------
(* Sessions that are to be closed *)

Ending(c) ==
  /\ Invalid(c) /\ Registered(c) => Contains(work, c)
  /\ c \in clear => Invalid(c)
EndInv == \A c \in Socks : Ending(c)

\* The queue after a step, as the closing of d sees it.
LEMMA Queued ==
  ASSUME TypeInv, NEW d \in Socks, Contains(work, d),
         \/ work' = work \/ work' = Append(work, "notify") \/ \E c \in Socks : work' = work \o <<c>>
         \/ work # <<>> /\ Head(work) # d /\ work' = Tail(work)
  PROVE  Contains(work', d)
<1> DEFINE S == Socks \cup {"notify"}
<1>1. PICK i \in 1..Len(work) : work[i] = d
  BY DEF Contains
<1>2. \A q \in Seq(S), x \in S :
        /\ Len(q \o <<x>>) = Len(q) + 1 /\ \A j \in 1..Len(q) : (q \o <<x>>)[j] = q[j]
        /\ Len(Append(q, x)) = Len(q) + 1 /\ \A j \in 1..Len(q) : Append(q, x)[j] = q[j]
  OBVIOUS
<1>3. CASE \/ work' = work \/ work' = Append(work, "notify")
           \/ \E c \in Socks : work' = work \o <<c>>
  <2>0. Len(work) \in Nat
    BY DEF TypeInv
  <2>b. ASSUME NEW x \in S, work' = Append(work, x) \/ work' = work \o <<x>>
        PROVE  Len(work) <= Len(work') /\ work'[i] = work[i]
    <3>1. Len(work') = Len(work) + 1 /\ \A j \in 1..Len(work) : work'[j] = work[j]
      BY <1>2, <2>b DEF TypeInv
    <3> QED
      BY <1>1, <2>0, <3>1
  <2>1. Len(work) <= Len(work') /\ work'[i] = work[i]
    <3>1. "notify" \in S /\ \A c \in Socks : c \in S
      OBVIOUS
    <3>2. work' = work => Len(work) <= Len(work') /\ work'[i] = work[i]
      BY <2>0
    <3> HIDE DEF S
    <3> QED
      BY <1>3, <2>b, <3>1, <3>2, Zenon
  <2>2. i \in 1..Len(work')
    BY <2>1 DEF TypeInv
  <2> QED
    BY <1>1, <2>1, <2>2 DEF Contains
<1>4. CASE work # <<>> /\ Head(work) # d /\ work' = Tail(work)
  <2>1. /\ Head(work) = work[1] /\ Len(Tail(work)) = Len(work) - 1
        /\ \A j \in 1..(Len(work) - 1) : Tail(work)[j] = work[j + 1]
    BY <1>4 DEF TypeInv
  <2>0. Len(work) \in Nat
    BY DEF TypeInv
  <2>2. i # 1 /\ i - 1 \in 1..(Len(work) - 1) /\ (i - 1) + 1 = i
    <3>1. work[1] # d /\ work[i] = d
      BY <1>1, <1>4, <2>1
    <3>2. i # 1
      BY <3>1
    <3>3. i \in Nat /\ 1 <= i /\ i <= Len(work)
      BY <1>1, <2>0
    <3> QED
      BY <2>0, <3>2, <3>3
  <2>3. work'[i - 1] = d /\ i - 1 \in 1..Len(work')
    BY <1>1, <1>4, <2>1, <2>2
  <2> QED
    BY <2>3 DEF Contains
<1> QED
  BY <1>3, <1>4

\* Every step keeps what is to be closed in the queue.
LEMMA EndStep == TypeInv /\ SessInv /\ EndInv /\ [Next]_vars => EndInv'
<1> SUFFICES ASSUME TypeInv, SessInv, EndInv, [Next]_vars, NEW d \in Socks PROVE Ending(d)'
  BY DEF EndInv
<1>0. Ending(d)
  BY DEF EndInv
<1>1. ASSUME NEW c \in Socks, Acts(c), d # c PROVE Ending(d)'
  <2>1. Still(d)
    BY <1>1, Others
  <2>2. Open(d) /\ Contains(work, d) => Contains(work', d)
    <3>1. CASE work' = work
      BY <3>1
    <3>2. CASE Fail(c)
      BY <3>2, Queued DEF Fail
    <3>3. CASE Close(c)
      BY <1>1, <3>3, Queued DEF Close
    <3> QED
      BY <1>1, <3>1, <3>2, <3>3
         DEF Acts, Verified, Request, ReadRest, ReadFrame, NewRequest, SendFrame, Understand
  <2> QED
    BY <1>0, <2>1, <2>2 DEF Still, Ending, Invalid, Registered, Open
<1>2. CASE Verified(d) \/ Close(d)
  <2>1. sess'[d] = None \/ heap'[sess'[d]].state = "verified"
    BY <1>2 DEF Verified, Close, Closed, TypeInv
  <2>2. d \notin clear'
    BY <1>2 DEF Verified, Close, Closed, SessInv, TypeInv
  <2> QED
    BY <2>1, <2>2 DEF Ending, Invalid, Open
<1>3. CASE Fail(d)
  <2>1. Open(d) /\ sess[d] \in Addrs
    BY <1>3, Serving DEF Fail
  <2>2. heap'[sess[d]].state = "invalid" /\ sess' = sess /\ table' = table
    BY <1>3, <2>1 DEF Fail, TypeInv, States
  <2>3. ASSUME Registered(d) PROVE Contains(work', d)
    <3>1. work' = work \o <<d>>
      BY <1>3, <2>3 DEF Fail
    <3>2. \A q \in Seq(Socks \cup {"notify"}) :
            Len(q) + 1 \in 1..Len(q \o <<d>>) /\ (q \o <<d>>)[Len(q) + 1] = d
      OBVIOUS
    <3> QED
      BY <3>1, <3>2 DEF Contains, TypeInv
  <2> QED
    BY <2>1, <2>2, <2>3 DEF Ending, Invalid, Open, Registered
<1>4. CASE \/ Request(d) \/ ReadRest(d) \/ ReadFrame(d)
           \/ NewRequest(d) \/ SendFrame(d) \/ Understand(d)
  <2>1. UNCHANGED <<sess, table, work, clear>>
    BY <1>4 DEF Request, ReadRest, ReadFrame, NewRequest, SendFrame, Understand
  <2>2. Open(d) => heap'[sess[d]].state = heap[sess[d]].state
    <3>1. Open(d) => sess[d] \in Addrs
      BY DEF TypeInv, Open
    <3> QED
      <4>1. Open(d) => heap[sess[d]] \in States
        BY <3>1 DEF TypeInv
      <4>2. \A q \in States : \A n : [q EXCEPT !.dec = n].state = q.state
        BY DEF States
      <4>3. ReadFrame(d) /\ Open(d) => heap'[sess[d]] = [heap[sess[d]] EXCEPT !.dec = heap[sess[d]].dec + 1]
        BY <3>1 DEF ReadFrame, TypeInv
      <4>4. ReadFrame(d) \/ heap' = heap
        BY <1>4, Zenon DEF Request, ReadRest, NewRequest, SendFrame, Understand
      <4> QED
        BY <4>1, <4>2, <4>3, <4>4, Zenon
  <2> QED
    BY <1>0, <2>1, <2>2 DEF Ending, Invalid, Open, Registered
<1>5. ASSUME NEW c, NEW last, Writes(c, last), sess' = sess, table' = table,
             Contains(work, d) => Contains(work', d)
      PROVE  Ending(d)'
  <2>1. CASE Open(d)
    <3>1. heap'[sess[d]].state = heap[sess[d]].state /\ (d \in clear' => d \in clear \/ Invalid(d))
      BY <1>5, <2>1 DEF Writes, Wrote
    <3> QED
      BY <1>0, <1>5, <2>1, <3>1 DEF Ending, Invalid, Open, Registered
  <2>2. CASE ~Open(d)
    BY <1>0, <1>5, <2>2 DEF Ending, Invalid, Open, Registered, Writes
  <2> QED
    BY <2>1, <2>2
<1>6. ASSUME NEW c \in Socks, Reply(c) PROVE Ending(d)'
  BY <1>5, <1>6, ReplyEffect DEF Reply
<1>7. CASE Notify
  <2>1. Head(work) # d /\ work # <<>> /\ work' = Tail(work)
    BY <1>7, SessionAssumption DEF Notify
  <2> QED
    BY <1>5, <1>7, <2>1, NotifyEffect, Queued DEF Notify
<1>8. CASE UNCHANGED vars \/ Change
  <2>1. Contains(work, d) => Contains(work', d)
    BY <1>8, Queued DEF vars, Change
  <2> QED
    BY <1>0, <1>8, <2>1 DEF vars, Change, Ending, Invalid, Open, Registered
<1>9. CASE Skip
  <2>1. Open(d) => Head(work) # d
    BY <1>9 DEF Skip
  <2>2. Open(d) /\ Contains(work, d) => Contains(work', d)
    BY <1>9, <2>1, Queued DEF Skip
  <2> QED
    BY <1>0, <1>9, <2>2 DEF Skip, Ending, Invalid, Open, Registered
<1>10. ASSUME NEW c \in Socks, Overrun(c) PROVE Ending(d)'
  <2>1. ~Open(d)' /\ clear' = {}
    BY <1>10, Restarted DEF Overrun
  <2> QED
    BY <2>1 DEF Ending, Invalid
<1> QED
  BY <1>1, <1>2, <1>3, <1>4, <1>6, <1>7, <1>8, <1>9, <1>10, Steps, Zenon DEF Acts

-----------------------------------------------------------------------------
(* What is under way to the controllers *)

\* The session has counted the frames the controller has, and those under way.
Counted(c) ==
  Open(c) /\ c \notin torn \cup clear =>
    /\ heap[sess[c]].enc = peer[c].dec + Len(out[c])
    /\ \A i \in 1..Len(out[c]) : out[c][i].kind = "enc" /\ out[c][i].nonce = peer[c].dec + i - 1
NonceInv == \A c \in Socks : Counted(c)

\* A step that neither sends to d nor delivers to it.
LEMMA CountedSame ==
  ASSUME NEW d \in Socks, Counted(d), sess'[d] = sess[d], out'[d] = out[d], peer'[d].dec = peer[d].dec,
         Open(d) => heap'[sess[d]].enc = heap[sess[d]].enc,
         d \in torn \cup clear => d \in torn' \cup clear'
  PROVE  Counted(d)'
BY DEF Counted, Open

\* Frames are added behind those under way, with the nonces that follow.
LEMMA CountedWrite ==
  ASSUME TypeInv, NEW d \in Socks, NEW last, Counted(d), Open(d), Wrote(d, last),
         out' \in [Socks -> Seq(Msgs)], sess' = sess, peer' = peer
  PROVE  Counted(d)'
<1> SUFFICES ASSUME d \notin torn' \cup clear'
             PROVE  /\ heap'[sess[d]].enc = peer[d].dec + Len(out'[d])
                    /\ \A i \in 1..Len(out'[d]) : out'[d][i].kind = "enc" /\ out'[d][i].nonce = peer[d].dec + i - 1
  BY DEF Counted
<1> DEFINE l == Len(out[d])
           e == heap[sess[d]].enc
<1>1. d \notin torn \cup clear
  BY DEF Wrote
<1>2. /\ l \in Nat /\ Len(out'[d]) \in Nat /\ peer[d].dec \in Nat
      /\ e = peer[d].dec + l
      /\ \A i \in 1..l : out[d][i].kind = "enc" /\ out[d][i].nonce = peer[d].dec + i - 1
  <2>1. Counted(d) /\ Open(d) /\ d \notin torn \cup clear
    BY <1>1
  <2>2. out'[d] \in Seq(Msgs)
    OBVIOUS
  <2>3. Len(out'[d]) \in Nat
    BY <2>2
  <2>4. l \in Nat /\ peer[d].dec \in Nat
    BY Typed
  <2> QED
    BY <2>1, <2>3, <2>4, Zenon DEF Counted
<1>3. /\ l <= Len(out'[d]) /\ \A i \in 1..l : out'[d][i] = out[d][i]
      /\ heap'[sess[d]].enc = e + (Len(out'[d]) - l)
      /\ \A i \in (l + 1)..Len(out'[d]) : out'[d][i].kind = "enc" /\ out'[d][i].nonce = e + (i - l) - 1
  BY Zenon DEF Wrote
<1> HIDE DEF l, e
<1>4. heap'[sess[d]].enc = peer[d].dec + Len(out'[d])
  BY <1>2, <1>3
<1>5. ASSUME NEW i \in 1..Len(out'[d])
      PROVE  out'[d][i].kind = "enc" /\ out'[d][i].nonce = peer[d].dec + i - 1
  <2>1. CASE i \in 1..l
    BY <1>2, <1>3, <2>1
  <2>2. CASE i \in (l + 1)..Len(out'[d])
    <3>1. e + (i - l) - 1 = peer[d].dec + i - 1
      BY <1>2, <2>2
    <3> QED
      BY <1>3, <2>2, <3>1
  <2> QED
    BY <1>2, <2>1, <2>2
<1> QED
  BY <1>4, <1>5

\* Every step keeps the nonces of what is under way in order.
LEMMA NonceStep == TypeInv /\ SessInv /\ NonceInv /\ [Next]_vars => NonceInv'
<1> SUFFICES ASSUME TypeInv, SessInv, NonceInv, [Next]_vars, NEW d \in Socks PROVE Counted(d)'
  BY DEF NonceInv
<1>0. Counted(d)
  BY DEF NonceInv
<1>1. ASSUME NEW c \in Socks, Acts(c), d # c PROVE Counted(d)'
  <2>1. Still(d)
    BY <1>1, Others
  <2> QED
    BY <1>0, <2>1 DEF Still, Counted, Open
<1>2. CASE Verified(d)
  <2>1. PICK a \in Addrs :
          /\ heap' = [heap EXCEPT ![a] = [state |-> "verified", enc |-> 0, dec |-> 0]]
          /\ sess' = [sess EXCEPT ![d] = a]
    BY <1>2, Zenon DEF Verified
  <2>2. heap'[sess'[d]].enc = 0
    BY <2>1 DEF TypeInv
  <2>3. out' = out /\ peer'[d] = Peer(conns + 1) /\ out[d] = <<>>
    BY <1>2 DEF Verified, TypeInv, SessInv
  <2>4. peer'[d].dec = 0
    BY <2>3 DEF Peer
  <2> QED
    BY <2>2, <2>3, <2>4 DEF Counted
<1>3. CASE Close(d)
  BY <1>3 DEF Close, Closed, TypeInv, Counted, Open
<1>4. CASE Request(d) \/ ReadRest(d) \/ ReadFrame(d) \/ Fail(d)
  <2>1. UNCHANGED <<sess, out, torn, clear>>
    BY <1>4 DEF Request, ReadRest, ReadFrame, Fail
  <2>2. peer'[d].dec = peer[d].dec
    <3>1. \A q \in Peers : [q EXCEPT !.todo = 0].dec = q.dec
      BY DEF Peers
    <3>2. Fail(d) => peer' = peer \/ peer'[d] = [peer[d] EXCEPT !.todo = 0]
      BY DEF Fail, TypeInv
    <3>3. ~Fail(d) => peer' = peer
      BY <1>4 DEF Request, ReadRest, ReadFrame
    <3>4. peer[d] \in Peers
      BY DEF TypeInv
    <3> QED
      BY <3>1, <3>2, <3>3, <3>4
  <2>3. Open(d) => heap'[sess[d]].enc = heap[sess[d]].enc
    <3>1. Open(d) => sess[d] \in Addrs /\ heap[sess[d]] \in States
      BY DEF TypeInv, Open
    <3>2. \A q \in States : \A n : [q EXCEPT !.dec = n].enc = q.enc /\ [q EXCEPT !.state = "invalid"].enc = q.enc
      BY DEF States
    <3>3. /\ ReadFrame(d) /\ Open(d) => heap'[sess[d]] = [heap[sess[d]] EXCEPT !.dec = heap[sess[d]].dec + 1]
          /\ Fail(d) /\ Open(d) => heap'[sess[d]] = [heap[sess[d]] EXCEPT !.state = "invalid"]
      BY <3>1 DEF ReadFrame, Fail, TypeInv
    <3>4. CASE ReadFrame(d)
      BY <3>1, <3>2, <3>3, <3>4
    <3>5. CASE Fail(d)
      <4>1. Open(d)
        BY <3>5, Serving DEF Fail
      <4>2. heap'[sess[d]] = [heap[sess[d]] EXCEPT !.state = "invalid"]
        BY <3>3, <3>5, <4>1
      <4> QED
        BY <3>1, <3>2, <4>1, <4>2
    <3>6. CASE Request(d) \/ ReadRest(d)
      BY <3>6 DEF Request, ReadRest
    <3> QED
      BY <1>4, <3>4, <3>5, <3>6
  <2> QED
    BY <1>0, <2>1, <2>2, <2>3, CountedSame
<1>5. CASE NewRequest(d) \/ SendFrame(d)
  <2>1. UNCHANGED <<sess, heap, out, torn, clear>>
    BY <1>5 DEF NewRequest, SendFrame
  <2>2. peer'[d].dec = peer[d].dec
    <3>1. peer[d] \in Peers
      BY Typed
    <3>2. \A q \in Peers, n \in Nat :
            Asking(q, n).dec = q.dec /\ (n <= q.todo => Sending(q, n).dec = q.dec)
      BY PeerSteps
    <3>3. CASE NewRequest(d)
      <4>1. PICK n \in Nat : Turns(d, Asking(peer[d], n))
        BY <3>3, AskTypes
      <4> QED
        BY <3>1, <3>2, <4>1 DEF Turns
    <3>4. CASE SendFrame(d)
      <4>1. PICK n \in Nat \ {0} : n <= peer[d].todo /\ Turns(d, Sending(peer[d], n))
        BY <3>4, SendTypes
      <4> QED
        BY <3>1, <3>2, <4>1 DEF Turns
    <3> QED
      BY <1>5, <3>3, <3>4
  <2> QED
    BY <1>0, <2>1, <2>2, CountedSame
<1>6. CASE Understand(d)
  <2>1. PICK b \in BOOLEAN : peer'[d] = Hearing(peer[d], b)
    BY <1>6, HearTypes DEF Turns
  <2>2. peer[d] \in Peers /\ peer[d].dec \in Nat /\ Len(out[d]) \in Nat
    BY Typed
  <2>3. peer'[d].dec = peer[d].dec + 1
    BY <2>1, <2>2, PeerSteps
  <2>4. /\ UNCHANGED <<sess, heap, torn, clear>> /\ out'[d] = Tail(out[d])
        /\ out[d] \in Seq(Msgs) /\ out[d] # <<>>
    BY <1>6, HearTypes DEF Understand, TypeInv
  <2>5. /\ Len(out'[d]) = Len(out[d]) - 1
        /\ \A i \in 1..Len(out'[d]) : out'[d][i] = out[d][i + 1] /\ i + 1 \in 1..Len(out[d])
    BY <2>4
  <2> SUFFICES ASSUME Open(d), d \notin torn \cup clear
               PROVE  /\ heap[sess[d]].enc = peer'[d].dec + Len(out'[d])
                      /\ \A i \in 1..Len(out'[d]) :
                           out'[d][i].kind = "enc" /\ out'[d][i].nonce = peer'[d].dec + i - 1
    BY <2>4 DEF Counted, Open
  <2>6. /\ heap[sess[d]].enc = peer[d].dec + Len(out[d])
        /\ \A i \in 1..Len(out[d]) : out[d][i].kind = "enc" /\ out[d][i].nonce = peer[d].dec + i - 1
    BY <1>0 DEF Counted
  <2>7. heap[sess[d]].enc = peer'[d].dec + Len(out'[d])
    <3>1. peer[d].dec + Len(out[d]) = (peer[d].dec + 1) + (Len(out[d]) - 1)
      BY <2>2
    <3> QED
      BY <2>3, <2>5, <2>6, <3>1, Zenon
  <2>8. ASSUME NEW i \in 1..Len(out'[d])
        PROVE  out'[d][i].kind = "enc" /\ out'[d][i].nonce = peer'[d].dec + i - 1
    <3>1. peer[d].dec + (i + 1) - 1 = peer'[d].dec + i - 1
      BY <2>2, <2>3, <2>5
    <3> QED
      BY <2>5, <2>6, <3>1
  <2> QED
    BY <2>7, <2>8
<1>7. ASSUME NEW c, NEW last, Writes(c, last), sess' = sess, peer' = peer
      PROVE  Counted(d)'
  <2>1. CASE Open(d)
    BY <1>0, <1>7, <2>1, CountedWrite DEF Writes
  <2>2. CASE ~Open(d)
    BY <1>7, <2>2 DEF Counted, Open
  <2> QED
    BY <2>1, <2>2
<1>8. ASSUME NEW c \in Socks, Reply(c) PROVE Counted(d)'
  BY <1>7, <1>8, ReplyEffect DEF Reply
<1>9. CASE Notify
  BY <1>7, <1>9, NotifyEffect DEF Notify
<1>10. CASE UNCHANGED vars \/ Change \/ Skip
  BY <1>0, <1>10 DEF vars, Change, Skip, Counted, Open
<1>11. ASSUME NEW c \in Socks, Overrun(c) PROVE Counted(d)'
  BY <1>11, Restarted DEF Counted
<1> QED
  BY <1>1, <1>2, <1>3, <1>4, <1>5, <1>6, <1>8, <1>9, <1>10, <1>11, Steps, Zenon DEF Acts

-----------------------------------------------------------------------------
(* What is under way from the controllers *)

\* A frame holds consecutive units; Base is the number of those before it.
Base(f) == f.data[1].k - 1
End(f) == Base(f) + Len(f.data)
Run(f, g) == f.data # <<>> /\ \A x \in 1..Len(f.data) : f.data[x] = Unit(g, Base(f) + x)

\* The frames that arrived follow on each other, up to what was sent.
Chain(c) ==
  /\ \A i \in 1..Len(in[c]) : Run(in[c][i], peer[c].gen) /\ End(in[c][i]) <= peer[c].sent
  /\ \A i, j \in 1..Len(in[c]) : i < j => End(in[c][i]) <= Base(in[c][j])
  /\ \A i \in 1..Len(in[c]) :
       IF i = Len(in[c]) THEN End(in[c][i]) = peer[c].sent
       ELSE End(in[c][i]) = Base(in[c][i + 1])

Handed(c) == \A i \in 1..Len(got[c]) : got[c][i] = Unit(peer[c].gen, i)

\* What is left of the frame, and what arrived, continue what was handed over;
\* outside of a request nothing is left, and a request asks for all that was
\* and will be sent.
Joined(c) ==
  /\ Rest(Current(c)) >= 0
  /\ \A x \in 1..Rest(Current(c)) :
       Current(c).data[Current(c).read + x] = Unit(peer[c].gen, Len(got[c]) + x)
  /\ Len(got[c]) + Rest(Current(c)) = IF in[c] = <<>> THEN peer[c].sent ELSE Base(in[c][1])
  /\ IF busy.sock = c THEN busy.left = peer[c].sent + peer[c].todo - Len(got[c])
                      ELSE Rest(Current(c)) = 0

\* A controller with no request under way, or whose reply is under way, has
\* nothing more to be read.
Replies(c) == {i \in 1..Len(out[c]) : out[c][i].last}
Answered(c) ==
  /\ Replies(c) # {} => peer[c].waits
  /\ \A i, j \in Replies(c) : i = j
  /\ ~peer[c].waits \/ Replies(c) # {} => busy.sock # c /\ in[c] = <<>> /\ peer[c].todo = 0

Own(c) ==
  Open(c) =>
    /\ Chain(c)
    /\ c \notin ghost => Handed(c)
    /\ c \notin ghost /\ ~Invalid(c) => Joined(c) /\ Answered(c)
OwnInv == \A c \in Socks : Own(c)

\* The frame as d finds it after a step.
LEMMA CurrentAfter ==
  ASSUME NEW d \in Socks
  PROVE  /\ frame'.session = sess'[d] => Current(d)' = frame'
         /\ frame'.session # sess'[d] => Rest(Current(d))' = 0
         /\ frame' = frame /\ sess'[d] = sess[d] => Current(d)' = Current(d)
<1>1. frame'.session # sess'[d] => Rest(Current(d))' = 0
  <2>1. Len(<<>>) - 0 = 0
    OBVIOUS
  <2> QED
    BY <2>1 DEF Current, Empty, Rest
<1> QED
  BY <1>1 DEF Current, Empty

\* What is kept when the frames, the units and the controller stay.
LEMMA ChainSame ==
  ASSUME NEW d \in Socks, in'[d] = in[d], peer'[d].gen = peer[d].gen, peer'[d].sent = peer[d].sent
  PROVE  Chain(d) => Chain(d)'
BY DEF Chain, Run, End, Base

\* What has been handed over stays.
LEMMA HandedSame ==
  ASSUME NEW d \in Socks, got'[d] = got[d], peer'[d].gen = peer[d].gen
  PROVE  Handed(d) => Handed(d)'
BY DEF Handed

\* The joint between what was handed over and what follows stays.
LEMMA JoinedSame ==
  ASSUME NEW d \in Socks, in'[d] = in[d], got'[d] = got[d], Current(d)' = Current(d),
         peer'[d].gen = peer[d].gen, peer'[d].sent = peer[d].sent,
         busy.sock = d => busy' = busy, busy'.sock = d => busy' = busy,
         busy.sock = d => peer'[d].todo = peer[d].todo
  PROVE  Joined(d) => Joined(d)'
BY Zenon DEF Joined, Rest, Base

\* The request and its reply stay.
LEMMA AnsweredSame ==
  ASSUME NEW d \in Socks, in'[d] = in[d], out'[d] = out[d], peer'[d].waits = peer[d].waits,
         peer'[d].todo = peer[d].todo, busy'.sock = d => busy.sock = d
  PROVE  Answered(d) => Answered(d)'
BY Zenon DEF Answered, Replies

\* A step of another connection.
LEMMA OwnStill ==
  ASSUME TypeInv, NEW d \in Socks, Own(d), Still(d),
         busy.sock = d => busy' = busy, busy'.sock = d => busy' = busy,
         frame' = frame \/ (busy.sock # d /\ frame'.session # sess[d])
  PROVE  Own(d)'
<1> SUFFICES ASSUME Open(d) PROVE Own(d)'
  BY DEF Own, Open, Still
<1>1. Chain(d)'
  BY ChainSame DEF Own, Still
<1>2. d \notin ghost => Handed(d)'
  BY HandedSame DEF Own, Still
<1>3. ASSUME d \notin ghost, ~Invalid(d) PROVE Joined(d)'
  <2>1. Joined(d)
    BY <1>3 DEF Own
  <2>2. CASE frame' = frame
    <3>1. Current(d)' = Current(d)
      BY <2>2, CurrentAfter DEF Still
    <3> QED
      BY <2>1, <3>1, JoinedSame DEF Still
  <2>3. CASE busy.sock # d /\ frame'.session # sess[d]
    <3>1. Rest(Current(d))' = 0 /\ Rest(Current(d)) = 0 /\ busy'.sock # d
      BY <2>1, <2>3, CurrentAfter DEF Still, Joined
    <3>2. UNCHANGED <<in[d], got[d], peer[d]>>
      BY DEF Still
    <3> QED
      BY <2>1, <2>3, <3>1, <3>2 DEF Joined
  <2> QED
    BY <2>2, <2>3
<1>4. ASSUME d \notin ghost, ~Invalid(d) PROVE Answered(d)'
  <2>1. Answered(d)
    BY <1>4 DEF Own
  <2> QED
    BY <2>1, AnsweredSame DEF Still
<1>5. (d \in ghost' <=> d \in ghost) /\ (Invalid(d)' <=> Invalid(d))
  BY DEF Still, Invalid, Open
<1> QED
  BY <1>1, <1>2, <1>3, <1>4, <1>5, Zenon DEF Own

\* Units are read from the frame f, which continues what was handed over.
LEMMA Reading ==
  ASSUME TypeInv, NEW d \in Socks, NEW f \in Frames, NEW n \in Nat, f.read <= Len(f.data), Copied(d, f, n),
         sess' = sess, f.session = sess[d], peer' = peer,
         \A x \in 1..Rest(f) : f.data[f.read + x] = Unit(peer[d].gen, Len(got[d]) + x)
  PROVE  /\ Handed(d) => Handed(d)'
         /\ \A x \in 1..Rest(Current(d))' :
              Current(d)'.data[Current(d)'.read + x] = Unit(peer[d].gen, Len(got'[d]) + x)
         /\ Rest(Current(d))' >= 0
         /\ Len(got'[d]) + Rest(Current(d))' = Len(got[d]) + Rest(f)
<1> DEFINE l == Len(got[d])
<1>1. /\ f.data \in Seq(Units) /\ f.read \in Nat /\ Len(f.data) \in Nat /\ l \in Nat
      /\ Rest(f) = Len(f.data) - f.read /\ n \in 0..Rest(f)
  BY Typed DEF Frames, Rest, Copied
<1>2. /\ frame'.session = sess'[d] /\ frame'.data = f.data /\ frame'.read = f.read + n
  BY DEF Copied, Frames
<1>3. /\ Len(got'[d]) = l + n
      /\ \A i \in 1..(l + n) :
           got'[d][i] = IF i <= l THEN got[d][i] ELSE f.data[f.read + i - l]
  BY DEF Copied
<1>4. Current(d)' = frame'
  BY <1>2, CurrentAfter
<1>5. Rest(Current(d))' = Rest(f) - n
  <2>1. Len(f.data) - (f.read + n) = (Len(f.data) - f.read) - n
    BY <1>1
  <2> QED
    BY <1>1, <1>2, <1>4, <2>1 DEF Rest
<1>6. ASSUME NEW x \in 1..Rest(Current(d))'
      PROVE  Current(d)'.data[Current(d)'.read + x] = Unit(peer[d].gen, Len(got'[d]) + x)
  <2>1. /\ n + x \in 1..Rest(f) /\ (f.read + n) + x = f.read + (n + x)
        /\ (l + n) + x = l + (n + x)
    BY <1>1, <1>5
  <2>2. f.data[f.read + (n + x)] = Unit(peer[d].gen, l + (n + x))
    BY <2>1
  <2> QED
    BY <1>2, <1>3, <1>4, <2>1, <2>2, Zenon
<1>7. Rest(Current(d))' >= 0 /\ Len(got'[d]) + Rest(Current(d))' = l + Rest(f)
  BY <1>1, <1>3, <1>5
<1>8. ASSUME Handed(d) PROVE Handed(d)'
  <2>1. ASSUME NEW i \in 1..(l + n) PROVE got'[d][i] = Unit(peer[d].gen, i)
    <3>1. CASE i <= l
      <4>1. i \in 1..l
        BY <1>1, <3>1
      <4> QED
        BY <1>3, <1>8, <3>1, <4>1 DEF Handed
    <3>2. CASE ~(i <= l)
      <4>1. /\ i - l \in 1..Rest(f) /\ f.read + i - l = f.read + (i - l) /\ l + (i - l) = i
        BY <1>1, <3>2
      <4>2. f.data[f.read + (i - l)] = Unit(peer[d].gen, l + (i - l))
        BY <4>1
      <4>3. got'[d][i] = f.data[f.read + i - l]
        BY <1>3, <3>2
      <4> QED
        BY <4>1, <4>2, <4>3, Zenon
    <3> QED
      BY <3>1, <3>2
  <2> QED
    BY <1>3, <2>1 DEF Handed
<1> QED
  BY <1>6, <1>7, <1>8

\* An unread request is asked for by a request that waits for its reply.
LEMMA Asked ==
  ASSUME TypeInv, NEW d \in Socks, Answered(d), busy.sock = d \/ in[d] # <<>> \/ peer[d].todo # 0
  PROVE  peer[d].waits /\ Replies(d) = {}
BY DEF Answered

\* A frame is read: what has arrived goes on behind it.
LEMMA ChainTail ==
  ASSUME TypeInv, NEW d \in Socks, Chain(d), in[d] # <<>>, in'[d] = Tail(in[d]), peer' = peer
  PROVE  /\ Chain(d)'
         /\ \A x \in 1..Len(in[d][1].data) : in[d][1].data[x] = Unit(peer[d].gen, Base(in[d][1]) + x)
         /\ Base(in[d][1]) + Len(in[d][1].data) =
              IF in'[d] = <<>> THEN peer[d].sent ELSE Base(in'[d][1])
<1> DEFINE q == in[d]
           l == Len(in[d])
<1>1. q \in Seq(Sent) /\ l \in Nat \ {0} /\ q # <<>> /\ l = Len(q)
  BY DEF TypeInv
<1>2. /\ Len(Tail(q)) = l - 1 /\ \A i \in 1..(l - 1) : Tail(q)[i] = q[i + 1] /\ i + 1 \in 1..l
      /\ (Tail(q) = <<>>) <=> (l = 1)
  <2>1. \A s \in Seq(Sent) : s # <<>> =>
          /\ Len(Tail(s)) = Len(s) - 1
          /\ \A i \in 1..(Len(s) - 1) : Tail(s)[i] = s[i + 1] /\ i + 1 \in 1..Len(s)
    OBVIOUS
  <2>2. \A s \in Seq(Sent) : (s = <<>>) <=> (Len(s) = 0)
    OBVIOUS
  <2>3. \A s \in Seq(Sent) : s # <<>> => Tail(s) \in Seq(Sent)
    OBVIOUS
  <2> HIDE DEF q, l
  <2>4. /\ Len(Tail(q)) = l - 1 /\ \A i \in 1..(l - 1) : Tail(q)[i] = q[i + 1] /\ i + 1 \in 1..l
    BY <1>1, <2>1, Zenon
  <2>5. (Tail(q) = <<>>) <=> (Len(Tail(q)) = 0)
    BY <1>1, <2>2, <2>3, Zenon
  <2>6. (l - 1 = 0) <=> (l = 1)
    BY <1>1
  <2> QED
    BY <2>4, <2>5, <2>6, Zenon
<1>3. /\ \A i \in 1..l : Run(q[i], peer[d].gen) /\ End(q[i]) <= peer[d].sent
      /\ \A i, j \in 1..l : i < j => End(q[i]) <= Base(q[j])
      /\ \A i \in 1..l : IF i = l THEN End(q[i]) = peer[d].sent ELSE End(q[i]) = Base(q[i + 1])
  BY DEF Chain
<1>4. in'[d] = Tail(q)
  OBVIOUS
<1> HIDE DEF q, l
<1>5. \A i \in 1..(l - 1) : Run(in'[d][i], peer[d].gen) /\ End(in'[d][i]) <= peer[d].sent
  BY <1>2, <1>3, <1>4
<1>6. \A i, j \in 1..(l - 1) : i < j => End(in'[d][i]) <= Base(in'[d][j])
  <2> TAKE i, j \in 1..(l - 1)
  <2> HAVE i < j
  <2>1. i + 1 \in 1..l /\ j + 1 \in 1..l /\ i + 1 < j + 1
    BY <1>1
  <2>2. End(q[i + 1]) <= Base(q[j + 1])
    BY <1>3, <2>1
  <2> QED
    BY <1>2, <1>4, <2>2
<1>7. ASSUME NEW i \in 1..(l - 1)
      PROVE  IF i = l - 1 THEN End(in'[d][i]) = peer[d].sent ELSE End(in'[d][i]) = Base(in'[d][i + 1])
  <2>1. in'[d][i] = q[i + 1] /\ i + 1 \in 1..l
    BY <1>2, <1>4
  <2>2. CASE i = l - 1
    <3>1. i + 1 = l /\ l \in 1..l
      BY <1>1, <2>2
    <3> QED
      BY <1>3, <2>1, <2>2, <3>1
  <2>3. CASE i # l - 1
    <3>1. i + 1 \in 1..(l - 1) /\ i + 1 # l
      BY <1>1, <2>3
    <3>2. in'[d][i + 1] = q[(i + 1) + 1]
      BY <1>2, <1>4, <3>1
    <3> QED
      BY <1>3, <2>1, <2>3, <3>1, <3>2
  <2> QED
    BY <2>2, <2>3
<1>8. Chain(d)'
  <2>1. Len(in'[d]) = l - 1
    BY <1>2, <1>4
  <2> QED
    BY <1>5, <1>6, <1>7, <2>1 DEF Chain, Run, End, Base
<1>9. Run(q[1], peer[d].gen) /\ 1 \in 1..l
  BY <1>1, <1>3
<1>10. Base(q[1]) + Len(q[1].data) = IF in'[d] = <<>> THEN peer[d].sent ELSE Base(in'[d][1])
  <2>1. CASE l = 1
    BY <1>2, <1>3, <1>4, <1>9, <2>1 DEF End
  <2>2. CASE l # 1
    <3>1. 1 \in 1..(l - 1)
      BY <1>1, <2>2
    <3>2. in'[d][1] = q[1 + 1]
      BY <1>2, <1>4, <3>1
    <3> QED
      BY <1>2, <1>3, <1>4, <1>9, <2>2, <3>2 DEF End
  <2> QED
    BY <2>1, <2>2
<1> QED
  BY <1>8, <1>9, <1>10 DEF q, Run

\* A frame is sent: it continues what was sent.
LEMMA ChainSend ==
  ASSUME TypeInv, NEW d \in Socks, Chain(d), NEW n \in Nat \ {0}, SentFrame(d, n) \in Sent,
         in'[d] = Append(in[d], SentFrame(d, n)),
         peer'[d].gen = peer[d].gen, peer'[d].sent = peer[d].sent + n
  PROVE  /\ Chain(d)'
         /\ Base(in'[d][1]) = IF in[d] = <<>> THEN peer[d].sent ELSE Base(in[d][1])
         /\ in'[d] # <<>>
<1> DEFINE q == in[d]
           l == Len(in[d])
           f == SentFrame(d, n)
           t == peer[d].sent
           g == peer[d].gen
<1>1. q \in Seq(Sent) /\ l \in Nat /\ l = Len(q) /\ t \in Nat /\ g \in Nat /\ f \in Sent
  BY Typed
<1>2. f.data = [i \in 1..n |-> Unit(g, t + i)]
  BY DEF SentFrame
<1>3. /\ Len(f.data) = n /\ f.data # <<>> /\ f.data[1] = Unit(g, t + 1)
      /\ \A x \in 1..n : f.data[x] = Unit(g, t + x)
  <2> HIDE DEF f, t, g
  <2> QED
    BY <1>2
<1>4. Base(f) = t
  <2>1. f.data[1].k = t + 1
    BY <1>3 DEF Unit
  <2> QED
    BY <1>1, <2>1 DEF Base
<1>5. Run(f, g) /\ End(f) = t + n
  BY <1>3, <1>4 DEF Run, End
<1>6. /\ \A i \in 1..l : Run(q[i], g) /\ End(q[i]) <= t
      /\ \A i, j \in 1..l : i < j => End(q[i]) <= Base(q[j])
      /\ \A i \in 1..l : IF i = l THEN End(q[i]) = t ELSE End(q[i]) = Base(q[i + 1])
  BY DEF Chain
<1>e. \A i \in 1..l : End(q[i]) \in Int
  <2> TAKE i \in 1..l
  <2>1. q[i] \in Sent /\ Run(q[i], g)
    BY <1>1, <1>6
  <2>2. q[i].data \in Seq(Units) /\ q[i].data # <<>>
    BY <2>1 DEF Sent, Run
  <2>3. q[i].data[1] \in Units /\ Len(q[i].data) \in Nat
    BY <2>2
  <2>4. q[i].data[1].k \in Nat
    BY <2>3 DEF Units
  <2> QED
    BY <2>3, <2>4 DEF End, Base
<1>7. in'[d] = Append(q, f) /\ peer'[d].gen = g /\ peer'[d].sent = t + n
  OBVIOUS
<1> HIDE DEF q, l, f, t, g
<1>8. /\ Len(in'[d]) = l + 1 /\ in'[d][l + 1] = f /\ \A i \in 1..l : in'[d][i] = q[i]
  <2>1. \A s \in Seq(Sent), x \in Sent :
          /\ Len(Append(s, x)) = Len(s) + 1 /\ Append(s, x)[Len(s) + 1] = x
          /\ \A i \in 1..Len(s) : Append(s, x)[i] = s[i]
    OBVIOUS
  <2>2. /\ Len(Append(q, f)) = Len(q) + 1 /\ Append(q, f)[Len(q) + 1] = f
        /\ \A i \in 1..Len(q) : Append(q, f)[i] = q[i]
    BY <1>1, <2>1, Zenon
  <2> QED
    BY <1>1, <1>7, <2>2
<1>9. \A i \in 1..(l + 1) : Run(in'[d][i], g) /\ End(in'[d][i]) <= t + n
  <2> TAKE i \in 1..(l + 1)
  <2>1. CASE i \in 1..l
    <3>1. End(q[i]) <= t /\ End(q[i]) \in Int
      BY <1>6, <1>e, <2>1
    <3>2. End(q[i]) <= t + n
      BY <1>1, <3>1
    <3> QED
      BY <1>6, <1>8, <2>1, <3>2
  <2>2. CASE i = l + 1
    <3>1. End(f) <= t + n
      BY <1>1, <1>5
    <3> QED
      BY <1>5, <1>8, <2>2, <3>1
  <2>3. i \in 1..l \/ i = l + 1
    BY <1>1
  <2> QED
    BY <2>1, <2>2, <2>3
<1>10. \A i, j \in 1..(l + 1) : i < j => End(in'[d][i]) <= Base(in'[d][j])
  <2> TAKE i, j \in 1..(l + 1)
  <2> HAVE i < j
  <2>1. i \in 1..l
    BY <1>1
  <2>2. CASE j \in 1..l
    BY <1>6, <1>8, <2>1, <2>2
  <2>3. CASE j = l + 1
    <3>1. End(q[i]) <= t
      BY <1>6, <2>1
    <3> QED
      BY <1>4, <1>8, <2>1, <2>3, <3>1
  <2>4. j \in 1..l \/ j = l + 1
    BY <1>1
  <2> QED
    BY <2>2, <2>3, <2>4
<1>11. \A i \in 1..(l + 1) :
         IF i = l + 1 THEN End(in'[d][i]) = t + n ELSE End(in'[d][i]) = Base(in'[d][i + 1])
  <2> TAKE i \in 1..(l + 1)
  <2>1. CASE i = l + 1
    BY <1>5, <1>8, <2>1
  <2>2. CASE i = l /\ i # l + 1
    <3>1. i \in 1..l
      BY <1>1, <2>2
    <3> QED
      BY <1>4, <1>6, <1>8, <2>2, <3>1
  <2>3. CASE i # l /\ i # l + 1
    <3>1. i \in 1..l /\ i + 1 \in 1..l
      BY <1>1, <2>3
    <3> QED
      BY <1>6, <1>8, <2>3, <3>1
  <2> QED
    BY <2>1, <2>2, <2>3
<1>12. Chain(d)'
  BY <1>7, <1>8, <1>9, <1>10, <1>11 DEF Chain, Run, End, Base
<1>z. (q = <<>>) <=> (l = 0)
  <2>1. \A s \in Seq(Sent) : (s = <<>>) <=> (Len(s) = 0)
    OBVIOUS
  <2> QED
    BY <1>1, <2>1, Zenon
<1>13. Base(in'[d][1]) = IF q = <<>> THEN t ELSE Base(q[1])
  <2>1. CASE l = 0
    BY <1>z, <1>4, <1>8, <2>1
  <2>2. CASE l # 0
    <3>1. 1 \in 1..l /\ q # <<>>
      BY <1>1, <1>z, <2>2
    <3> QED
      BY <1>8, <3>1
  <2> QED
    BY <2>1, <2>2
<1>14. in'[d] # <<>>
  BY <1>1, <1>8
<1> QED
  BY <1>12, <1>13, <1>14 DEF q, t

\* A frame that has not been read holds something that was sent.
LEMMA ChainBelow ==
  ASSUME TypeInv, NEW d \in Socks, Chain(d), in[d] # <<>>
  PROVE  Base(in[d][1]) \in Int /\ Base(in[d][1]) < peer[d].sent
<1>1. 1 \in 1..Len(in[d]) /\ in[d][1] \in Sent
  BY DEF TypeInv
<1>2. Run(in[d][1], peer[d].gen) /\ End(in[d][1]) <= peer[d].sent
  BY <1>1 DEF Chain
<1>3. in[d][1].data \in Seq(Units) /\ in[d][1].data # <<>>
  BY <1>1, <1>2 DEF Sent, Run
<1>4. in[d][1].data[1] \in Units /\ Len(in[d][1].data) \in Nat \ {0}
  BY <1>3
<1>5. in[d][1].data[1].k \in Nat
  BY <1>4 DEF Units
<1>6. peer[d].sent \in Nat
  BY Typed
<1>7. Base(in[d][1]) \in Int
  BY <1>5 DEF Base
<1>8. Base(in[d][1]) + Len(in[d][1].data) <= peer[d].sent
  BY <1>2, Zenon DEF End
<1>9. \A b \in Int, n \in Nat \ {0}, t \in Nat : b + n <= t => b < t
  OBVIOUS
<1> QED
  BY <1>4, <1>6, <1>7, <1>8, <1>9

\* What is left of a frame is a number of units, or less than nothing.
LEMMA RestInt ==
  ASSUME TypeInv, NEW d \in Socks
  PROVE  Rest(Current(d)) \in Int
<1>1. CASE frame.session = sess[d]
  <2>1. frame.data \in Seq(Units) /\ frame.read \in Nat
    BY DEF TypeInv, Frames
  <2> QED
    BY <1>1, <2>1 DEF Current, Rest
<1>2. CASE frame.session # sess[d]
  <2>1. Len(<<>>) - 0 = 0
    OBVIOUS
  <2> QED
    BY <1>2, <2>1 DEF Current, Empty, Rest
<1> QED
  BY <1>1, <1>2

\* A session begins: with nothing of its own under way.
LEMMA OwnVerified ==
  ASSUME TypeInv, SessInv, NEW d \in Socks, Verified(d)
  PROVE  Own(d)'
<1>1. PICK a \in Addrs :
        /\ sess' = [sess EXCEPT ![d] = a]
        /\ ghost' = IF frame.session = a /\ Rest(frame) # 0 THEN ghost \cup {d} ELSE ghost
  BY Zenon DEF Verified
<1>2. /\ ~Open(d) /\ peer'[d] = Peer(conns + 1) /\ UNCHANGED <<frame, busy, in, out, got>>
  BY DEF Verified, TypeInv
<1>3. in[d] = <<>> /\ out[d] = <<>> /\ got[d] = <<>> /\ busy.sock # d
  BY <1>2, SessionAssumption DEF SessInv
<1>4. peer'[d].sent = 0 /\ peer'[d].todo = 0 /\ ~peer'[d].waits
  BY <1>2 DEF Peer
<1>5. Chain(d)'
  BY <1>2, <1>3 DEF Chain
<1>6. Handed(d)'
  BY <1>2, <1>3 DEF Handed
<1>7. ASSUME d \notin ghost' PROVE Rest(Current(d))' = 0
  <2>1. sess'[d] = a
    BY <1>1 DEF TypeInv
  <2>2. CASE frame.session = a
    <3>1. Rest(frame) = 0
      BY <1>1, <1>7, <2>2
    <3>2. Current(d)' = frame
      BY <1>2, <2>1, <2>2, CurrentAfter
    <3> QED
      BY <3>1, <3>2 DEF Rest
  <2>3. CASE frame.session # a
    BY <1>2, <2>1, <2>3, CurrentAfter
  <2> QED
    BY <2>2, <2>3
<1>8. d \notin ghost' => Joined(d)'
  BY <1>2, <1>3, <1>4, <1>7 DEF Joined
<1>9. Answered(d)'
  <2>1. Replies(d)' = {}
    BY <1>2, <1>3 DEF Replies
  <2> QED
    BY <1>2, <1>3, <1>4, <2>1 DEF Answered
<1> QED
  BY <1>5, <1>6, <1>8, <1>9, Zenon DEF Own

\* The server turns to a request: all of it that was and will be sent.
LEMMA OwnRequest ==
  ASSUME TypeInv, NEW d \in Socks, Own(d), Request(d)
  PROVE  Own(d)'
<1>1. /\ busy = Idle /\ Open(d) /\ ~Invalid(d) /\ in[d] # <<>>
      /\ busy' = [sock |-> d, left |-> peer[d].sent + peer[d].todo + 1 - Head(in[d]).data[1].k]
      /\ UNCHANGED <<sess, heap, frame, in, out, peer, got, ghost>>
  BY DEF Request
<1>2. Chain(d)' /\ (d \notin ghost => Handed(d)')
  BY <1>1, ChainSame, HandedSame DEF Own
<1>3. ASSUME d \notin ghost PROVE Joined(d)' /\ Answered(d)'
  <2>1. Joined(d) /\ Answered(d) /\ busy.sock # d
    BY <1>1, <1>3, SessionAssumption DEF Own, Idle
  <2>2. Current(d)' = Current(d)
    BY <1>1, CurrentAfter
  <2>3. /\ Rest(Current(d)) = 0 /\ Len(got[d]) + Rest(Current(d)) = Base(in[d][1])
        /\ \A x \in 1..Rest(Current(d)) :
             Current(d).data[Current(d).read + x] = Unit(peer[d].gen, Len(got[d]) + x)
    BY <1>1, <2>1, Zenon DEF Joined
  <2>4. busy'.sock = d /\ busy'.left = peer[d].sent + peer[d].todo - Len(got[d])
    <3>1. Head(in[d]) = in[d][1] /\ Base(in[d][1]) \in Int
      BY <1>1, ChainBelow DEF TypeInv, Own
    <3>2. Head(in[d]).data[1].k - 1 = Len(got[d])
      BY <2>3, <3>1, Typed DEF Base
    <3>3. Head(in[d]).data[1].k \in Nat
      <4>1. 1 \in 1..Len(in[d]) /\ in[d][1] \in Sent
        BY <1>1 DEF TypeInv
      <4>2. Run(in[d][1], peer[d].gen)
        BY <1>1, <4>1 DEF Chain, Own
      <4>3. in[d][1].data \in Seq(Units) /\ in[d][1].data # <<>>
        BY <4>1, <4>2 DEF Sent, Run
      <4>4. in[d][1].data[1] \in Units
        BY <4>3
      <4> QED
        BY <3>1, <4>4 DEF Units
    <3>4. /\ peer[d].sent + peer[d].todo + 1 - Head(in[d]).data[1].k
             = peer[d].sent + peer[d].todo - Len(got[d])
      <4> DEFINE t == peer[d].sent
                 u == peer[d].todo
                 l == Len(got[d])
                 k == Head(in[d]).data[1].k
      <4>1. t \in Nat /\ u \in Nat /\ l \in Nat /\ k \in Nat /\ k - 1 = l
        BY <3>2, <3>3, Typed
      <4> HIDE DEF t, u, l, k
      <4>2. t + u + 1 - k = t + u - l
        BY <4>1
      <4> QED
        BY <4>2 DEF t, u, l, k
    <3> QED
      BY <1>1, <3>4
  <2>5. Joined(d)'
    BY <1>1, <2>2, <2>3, <2>4 DEF Joined, Rest, Base
  <2>6. peer[d].waits /\ Replies(d) = {}
    BY <1>1, <2>1, Asked
  <2>7. Replies(d)' = Replies(d)
    BY <1>1 DEF Replies
  <2> QED
    BY <1>1, <2>5, <2>6, <2>7 DEF Answered
<1> QED
  BY <1>1, <1>2, <1>3, Zenon DEF Own

\* Units of the connection's own frame are handed over.
LEMMA OwnReadRest ==
  ASSUME TypeInv, SessInv, NEW d \in Socks, Own(d), ReadRest(d)
  PROVE  Own(d)'
<1>1. /\ busy.sock = d /\ heap[sess[d]].state = "verified" /\ Rest(Current(d)) > 0
      /\ UNCHANGED <<sess, heap, in, out, peer, ghost>>
  BY DEF ReadRest
<1>2. PICK n \in Nat : Copied(d, Current(d), n)
  BY RestEffect
<1>3. Open(d) /\ ~Invalid(d)
  BY <1>1, Serving DEF Invalid
<1>4. Chain(d)'
  BY <1>1, <1>3, ChainSame DEF Own
<1>5. ASSUME d \notin ghost PROVE Handed(d)' /\ Joined(d)' /\ Answered(d)'
  <2>1. Handed(d) /\ Joined(d) /\ Answered(d)
    BY <1>3, <1>5 DEF Own
  <2>2. Current(d) \in Frames /\ Current(d).read <= Len(Current(d).data) /\ Current(d).session = sess[d]
    BY <1>1, FrameTypes
  <2>3. \A x \in 1..Rest(Current(d)) :
          Current(d).data[Current(d).read + x] = Unit(peer[d].gen, Len(got[d]) + x)
    BY <2>1, Zenon DEF Joined
  <2>4. /\ Handed(d)'
        /\ \A x \in 1..Rest(Current(d))' :
             Current(d)'.data[Current(d)'.read + x] = Unit(peer[d].gen, Len(got'[d]) + x)
        /\ Rest(Current(d))' >= 0
        /\ Len(got'[d]) + Rest(Current(d))' = Len(got[d]) + Rest(Current(d))
    BY <1>1, <1>2, <2>1, <2>2, <2>3, Reading
  <2>5. busy'.sock = d /\ busy'.left = peer[d].sent + peer[d].todo - Len(got'[d])
    <3>1. busy'.sock = d /\ busy'.left = busy.left - n /\ Len(got'[d]) = Len(got[d]) + n
      BY <1>1, <1>2 DEF Copied
    <3>2. busy.left = peer[d].sent + peer[d].todo - Len(got[d])
      BY <1>1, <2>1, Zenon DEF Joined
    <3> QED
      BY <3>1, <3>2, Typed
  <2>6. Len(got[d]) + Rest(Current(d)) = IF in[d] = <<>> THEN peer[d].sent ELSE Base(in[d][1])
    BY <2>1, Zenon DEF Joined
  <2>7. Joined(d)'
    BY <1>1, <2>4, <2>5, <2>6 DEF Joined, Base
  <2>8. Answered(d)'
    BY <1>1, <2>1, AnsweredSame
  <2> QED
    BY <2>4, <2>7, <2>8
<1> QED
  BY <1>1, <1>3, <1>4, <1>5, Zenon DEF Own

\* A frame is decrypted and units of it are handed over.
LEMMA OwnReadFrame ==
  ASSUME TypeInv, SessInv, NEW d \in Socks, Own(d), ReadFrame(d)
  PROVE  Own(d)'
<1>1. /\ busy.sock = d /\ heap[sess[d]].state = "verified" /\ Rest(Current(d)) = 0
      /\ in[d] # <<>> /\ in' = [in EXCEPT ![d] = Tail(in[d])]
      /\ UNCHANGED <<sess, out, peer, ghost>>
  BY DEF ReadFrame
<1>2. PICK n \in Nat : Copied(d, Fresh(d), n)
  BY FrameEffect
<1>3. Open(d) /\ ~Invalid(d)
  BY <1>1, Serving DEF Invalid
<1>4. in'[d] = Tail(in[d]) /\ Head(in[d]) = in[d][1]
  BY <1>1 DEF TypeInv
<1>5. /\ Chain(d)'
      /\ \A x \in 1..Len(in[d][1].data) : in[d][1].data[x] = Unit(peer[d].gen, Base(in[d][1]) + x)
      /\ Base(in[d][1]) + Len(in[d][1].data) =
           IF in'[d] = <<>> THEN peer[d].sent ELSE Base(in'[d][1])
  BY <1>1, <1>3, <1>4, ChainTail DEF Own
<1>6. ASSUME d \notin ghost PROVE Handed(d)' /\ Joined(d)' /\ Answered(d)'
  <2>1. Handed(d) /\ Joined(d) /\ Answered(d)
    BY <1>3, <1>6 DEF Own
  <2>2. Len(got[d]) = Base(in[d][1])
    BY <1>1, <2>1, Typed DEF Joined
  <2>3. /\ Fresh(d) \in Frames /\ Fresh(d).read = 0 /\ Fresh(d).session = sess[d]
        /\ Fresh(d).data = in[d][1].data /\ Fresh(d).read <= Len(Fresh(d).data)
    BY <1>1, <1>4, FrameTypes DEF Fresh
  <2>4. Rest(Fresh(d)) = Len(in[d][1].data) /\ Len(in[d][1].data) \in Nat
    BY <2>3 DEF Rest, Frames
  <2>5. \A x \in 1..Rest(Fresh(d)) : Fresh(d).data[Fresh(d).read + x] = Unit(peer[d].gen, Len(got[d]) + x)
    <3> TAKE x \in 1..Rest(Fresh(d))
    <3>1. Fresh(d).read + x = x
      BY <2>3
    <3> QED
      BY <1>5, <2>2, <2>3, <2>4, <3>1
  <2>6. /\ Handed(d)'
        /\ \A x \in 1..Rest(Current(d))' :
             Current(d)'.data[Current(d)'.read + x] = Unit(peer[d].gen, Len(got'[d]) + x)
        /\ Rest(Current(d))' >= 0
        /\ Len(got'[d]) + Rest(Current(d))' = Len(got[d]) + Rest(Fresh(d))
    BY <1>1, <1>2, <2>1, <2>3, <2>5, Reading
  <2>7. busy'.sock = d /\ busy'.left = peer[d].sent + peer[d].todo - Len(got'[d])
    <3>1. busy'.sock = d /\ busy'.left = busy.left - n /\ Len(got'[d]) = Len(got[d]) + n
      BY <1>1, <1>2 DEF Copied
    <3>2. busy.left = peer[d].sent + peer[d].todo - Len(got[d])
      BY <1>1, <2>1, Zenon DEF Joined
    <3> QED
      BY <3>1, <3>2, Typed
  <2>8. Len(got'[d]) + Rest(Current(d))' = IF in'[d] = <<>> THEN peer[d].sent ELSE Base(in'[d][1])
    BY <1>5, <2>2, <2>4, <2>6
  <2>9. Joined(d)'
    BY <1>1, <2>6, <2>7, <2>8 DEF Joined, Base
  <2>10. Answered(d)'
    <3>1. peer[d].waits /\ Replies(d) = {}
      BY <1>1, <2>1, Asked
    <3>2. Replies(d)' = Replies(d)
      BY <1>1 DEF Replies
    <3> QED
      BY <1>1, <3>1, <3>2 DEF Answered
  <2> QED
    BY <2>6, <2>9, <2>10
<1> QED
  BY <1>1, <1>3, <1>5, <1>6, Zenon DEF Own

\* A read failed: what was handed over and sent stays.
LEMMA OwnFail ==
  ASSUME TypeInv, SessInv, NEW d \in Socks, Own(d), Fail(d)
  PROVE  Own(d)'
<1>1. /\ busy.sock = d /\ heap' = [heap EXCEPT ![sess[d]].state = "invalid"]
      /\ \/ UNCHANGED <<in, peer>>
         \/ in' = [in EXCEPT ![d] = <<>>] /\ peer' = [peer EXCEPT ![d].todo = 0]
      /\ UNCHANGED <<sess, got, ghost>>
  BY DEF Fail
<1>2. Open(d) /\ sess[d] \in Addrs
  BY <1>1, Serving
<1>3. Invalid(d)'
  <2>1. heap'[sess[d]].state = "invalid"
    BY <1>1, <1>2 DEF TypeInv, States
  <2> QED
    BY <1>1, <1>2, <2>1 DEF Invalid, Open
<1>4. peer'[d].gen = peer[d].gen /\ peer'[d].sent = peer[d].sent
  <2>1. \A q \in Peers : [q EXCEPT !.todo = 0].gen = q.gen /\ [q EXCEPT !.todo = 0].sent = q.sent
    BY DEF Peers
  <2>2. peer' = peer \/ peer'[d] = [peer[d] EXCEPT !.todo = 0]
    BY <1>1 DEF TypeInv
  <2> QED
    BY <2>1, <2>2, Typed
<1>5. Chain(d)'
  <2>1. in'[d] = in[d] \/ in'[d] = <<>>
    BY <1>1 DEF TypeInv
  <2>2. CASE in'[d] = in[d]
    BY <1>2, <1>4, <2>2, ChainSame DEF Own
  <2>3. CASE in'[d] = <<>>
    BY <2>3 DEF Chain
  <2> QED
    BY <2>1, <2>2, <2>3
<1>6. d \notin ghost => Handed(d)'
  BY <1>1, <1>2, <1>4, HandedSame DEF Own
<1> QED
  BY <1>1, <1>3, <1>5, <1>6, Zenon DEF Own

\* A controller without a request under way has one.
LEMMA OwnAsk ==
  ASSUME TypeInv, SessInv, NEW d \in Socks, Own(d), NewRequest(d)
  PROVE  Own(d)'
<1>1. /\ Open(d) /\ ~peer[d].waits
      /\ UNCHANGED <<sess, heap, frame, busy, in, out, got, ghost>>
  BY DEF NewRequest
<1>2. PICK n \in Nat : Turns(d, Asking(peer[d], n))
  BY AskTypes
<1>3. peer'[d].gen = peer[d].gen /\ peer'[d].sent = peer[d].sent /\ peer'[d].waits
  <2>1. \A q \in Peers : /\ Asking(q, n).gen = q.gen /\ Asking(q, n).sent = q.sent
                          /\ Asking(q, n).waits
    BY PeerSteps
  <2>2. peer[d] \in Peers /\ peer'[d] = Asking(peer[d], n)
    BY <1>2, Typed DEF Turns
  <2> QED
    BY <2>1, <2>2, Zenon
<1>4. Chain(d)' /\ (d \notin ghost => Handed(d)')
  BY <1>1, <1>3, ChainSame, HandedSame DEF Own
<1>5. ASSUME d \notin ghost, ~Invalid(d) PROVE Joined(d)' /\ Answered(d)'
  <2>1. Joined(d) /\ Answered(d)
    BY <1>1, <1>5 DEF Own
  <2>2. busy.sock # d /\ Replies(d) = {}
    BY <1>1, <2>1 DEF Answered
  <2>3. Current(d)' = Current(d)
    BY <1>1, CurrentAfter
  <2>4. Joined(d)'
    BY <1>1, <1>3, <2>1, <2>2, <2>3, JoinedSame
  <2>5. Replies(d)' = Replies(d)
    BY <1>1 DEF Replies
  <2> QED
    BY <1>3, <2>2, <2>4, <2>5 DEF Answered
<1> QED
  BY <1>1, <1>4, <1>5, Zenon DEF Own, Invalid, Open

\* A controller sends the next units of its request.
LEMMA OwnSend ==
  ASSUME TypeInv, SessInv, NEW d \in Socks, Own(d), SendFrame(d)
  PROVE  Own(d)'
<1>1. /\ Open(d) /\ UNCHANGED <<sess, heap, frame, busy, out, got, ghost>>
  BY DEF SendFrame
<1>2. PICK n \in Nat \ {0} :
        /\ n <= peer[d].todo /\ SentFrame(d, n) \in Sent
        /\ in' = [in EXCEPT ![d] = Append(in[d], SentFrame(d, n))]
        /\ Turns(d, Sending(peer[d], n))
  BY SendTypes
<1>3. /\ peer'[d].gen = peer[d].gen /\ peer'[d].sent = peer[d].sent + n
      /\ peer'[d].todo = peer[d].todo - n /\ peer'[d].waits = peer[d].waits
  <2>1. peer[d] \in Peers /\ peer'[d] = Sending(peer[d], n)
    BY <1>2, Typed DEF Turns
  <2>2. n \in Nat /\ TRUE \in BOOLEAN
    OBVIOUS
  <2>4. n <= peer[d].todo
    BY <1>2
  <2>5. /\ Sending(peer[d], n).gen = peer[d].gen
        /\ Sending(peer[d], n).sent = peer[d].sent + n
        /\ Sending(peer[d], n).todo = peer[d].todo - n
    <3>1. Sending(peer[d], n).gen = peer[d].gen
      BY <2>1, <2>2, <2>4, PeerSteps, Zenon
    <3>2. Sending(peer[d], n).sent = peer[d].sent + n
      BY <2>1, <2>2, <2>4 DEF Sending, Peers
    <3>3. Sending(peer[d], n).todo = peer[d].todo - n
      BY <2>1, <2>2, <2>4 DEF Sending, Peers
    <3> QED
      BY <3>1, <3>2, <3>3
  <2>6. Sending(peer[d], n).waits = peer[d].waits
    BY <2>1, <2>2, <2>4, PeerSteps, Zenon
  <2>3. /\ Sending(peer[d], n).gen = peer[d].gen /\ Sending(peer[d], n).sent = peer[d].sent + n
        /\ Sending(peer[d], n).todo = peer[d].todo - n /\ Sending(peer[d], n).waits = peer[d].waits
    BY <2>5, <2>6, Zenon
  <2> QED
    BY <2>1, <2>3, Zenon
<1>4. in'[d] = Append(in[d], SentFrame(d, n))
  BY <1>2 DEF TypeInv
<1>5. /\ Chain(d)' /\ in'[d] # <<>>
      /\ Base(in'[d][1]) = IF in[d] = <<>> THEN peer[d].sent ELSE Base(in[d][1])
  BY <1>1, <1>2, <1>3, <1>4, ChainSend DEF Own
<1>6. d \notin ghost => Handed(d)'
  BY <1>1, <1>3, HandedSame DEF Own
<1>7. ASSUME d \notin ghost, ~Invalid(d) PROVE Joined(d)' /\ Answered(d)'
  <2>1. Joined(d) /\ Answered(d)
    BY <1>1, <1>7 DEF Own
  <2>2. Current(d)' = Current(d)
    BY <1>1, CurrentAfter
  <2>3. /\ Rest(Current(d)) >= 0
        /\ \A x \in 1..Rest(Current(d)) :
             Current(d).data[Current(d).read + x] = Unit(peer[d].gen, Len(got[d]) + x)
        /\ Len(got[d]) + Rest(Current(d)) = IF in[d] = <<>> THEN peer[d].sent ELSE Base(in[d][1])
        /\ IF busy.sock = d THEN busy.left = peer[d].sent + peer[d].todo - Len(got[d])
                            ELSE Rest(Current(d)) = 0
    BY <2>1, Zenon DEF Joined
  <2>4. peer'[d].sent + peer'[d].todo = peer[d].sent + peer[d].todo
    BY <1>2, <1>3, Typed
  <2>5. Len(got'[d]) + Rest(Current(d))' = Base(in'[d][1])
    BY <1>1, <1>5, <2>2, <2>3 DEF Rest
  <2>6. Joined(d)'
    <3>1. \A x \in 1..Rest(Current(d))' :
            Current(d)'.data[Current(d)'.read + x] = Unit(peer'[d].gen, Len(got'[d]) + x)
      BY <1>1, <1>3, <2>2, <2>3, Zenon DEF Rest
    <3>2. Rest(Current(d))' = Rest(Current(d)) /\ got' = got /\ busy' = busy
      BY <1>1, <2>2, Zenon DEF Rest
    <3>3. busy'.sock = busy.sock /\ busy'.left = busy.left /\ Len(got'[d]) = Len(got[d])
      BY <1>1, Zenon
    <3>4. ASSUME busy'.sock = d
          PROVE  busy'.left = peer'[d].sent + peer'[d].todo - Len(got'[d])
      <4>1. busy.left = peer[d].sent + peer[d].todo - Len(got[d])
        BY <2>3, <3>3, <3>4, Zenon
      <4>2. /\ peer[d].sent \in Nat /\ peer[d].todo \in Nat /\ Len(got[d]) \in Nat
            /\ n <= peer[d].todo
        BY <1>2, Typed
      <4> QED
        BY <1>3, <3>3, <4>1, <4>2
    <3>5. ASSUME busy'.sock # d PROVE Rest(Current(d))' = 0
      BY <2>3, <3>2, <3>3, <3>5, Zenon
    <3> QED
      BY <1>5, <2>3, <2>5, <3>1, <3>2, <3>4, <3>5, Zenon DEF Joined, Base
  <2>7. peer[d].todo # 0
    BY <1>2, Typed
  <2>8. peer[d].waits /\ Replies(d) = {}
    BY <2>1, <2>7, Asked
  <2>9. Replies(d)' = Replies(d)
    BY <1>1 DEF Replies
  <2> QED
    BY <1>3, <2>6, <2>8, <2>9 DEF Answered
<1> QED
  BY <1>1, <1>5, <1>6, <1>7, Zenon DEF Own, Invalid, Open

\* A controller understands a frame.
LEMMA OwnHear ==
  ASSUME TypeInv, SessInv, NEW d \in Socks, Own(d), Understand(d)
  PROVE  Own(d)'
<1>1. /\ Open(d) /\ out[d] # <<>> /\ out'[d] = Tail(out[d])
      /\ UNCHANGED <<sess, heap, frame, busy, in, got, ghost>>
  BY HearTypes DEF Understand, TypeInv
<1>2. PICK b \in BOOLEAN : /\ b <=> peer[d].waits /\ ~Head(out[d]).last
                           /\ Turns(d, Hearing(peer[d], b))
  BY HearTypes
<1>3. /\ peer'[d].gen = peer[d].gen /\ peer'[d].sent = peer[d].sent
      /\ peer'[d].todo = peer[d].todo /\ peer'[d].waits = b
  BY <1>2, Typed, PeerSteps DEF Turns
<1>4. Chain(d)' /\ (d \notin ghost => Handed(d)')
  BY <1>1, <1>3, ChainSame, HandedSame DEF Own
<1>5. ASSUME d \notin ghost, ~Invalid(d) PROVE Joined(d)' /\ Answered(d)'
  <2>1. Joined(d) /\ Answered(d)
    BY <1>1, <1>5 DEF Own
  <2>2. Current(d)' = Current(d)
    BY <1>1, CurrentAfter
  <2>3. Joined(d)'
    BY <1>1, <1>3, <2>1, <2>2, JoinedSame
  <2>4. /\ out[d] \in Seq(Msgs) /\ Len(out[d]) \in Nat
    BY Typed
  <2>5. /\ Len(out'[d]) = Len(out[d]) - 1 /\ Head(out[d]) = out[d][1] /\ 1 \in 1..Len(out[d])
        /\ \A i \in 1..Len(out'[d]) : out'[d][i] = out[d][i + 1] /\ i + 1 \in 1..Len(out[d])
    BY <1>1, <2>4
  <2>6. \A i \in Replies(d)' : i + 1 \in Replies(d) /\ i \in Nat /\ i + 1 # 1
    BY <2>4, <2>5 DEF Replies
  <2>7. Head(out[d]).last => 1 \in Replies(d)
    BY <2>5 DEF Replies
  <2>8. ASSUME NEW i \in Replies(d)' PROVE b
    <3>1. i + 1 \in Replies(d) /\ i + 1 # 1
      BY <2>6
    <3>2. peer[d].waits /\ 1 \notin Replies(d)
      BY <2>1, <3>1 DEF Answered
    <3> QED
      BY <1>2, <2>7, <3>2
  <2>9. \A i, j \in Replies(d)' : i = j
    <3> TAKE i, j \in Replies(d)'
    <3>1. i + 1 = j + 1 /\ i \in Nat /\ j \in Nat
      BY <2>1, <2>6 DEF Answered
    <3> QED
      BY <3>1
  <2>10. ~b \/ Replies(d)' # {} => busy.sock # d /\ in[d] = <<>> /\ peer[d].todo = 0
    <3>1. ~b \/ Replies(d)' # {} => ~peer[d].waits \/ Replies(d) # {}
      BY <1>2, <2>6, <2>7
    <3> QED
      BY <2>1, <3>1 DEF Answered
  <2>11. Answered(d)'
    BY <1>1, <1>3, <2>8, <2>9, <2>10 DEF Answered
  <2> QED
    BY <2>3, <2>11
<1> QED
  BY <1>1, <1>4, <1>5, Zenon DEF Own, Invalid, Open

\* What the server writes: a reply of d, or something else.
LEMMA OwnWrite ==
  ASSUME TypeInv, SessInv, NEW d \in Socks, Own(d), Open(d), NEW last \in BOOLEAN, Wrote(d, last),
         out' \in [Socks -> Seq(Msgs)],
         UNCHANGED <<sess, frame, in, peer, got, ghost>>,
         IF last THEN busy.sock = d /\ busy.left = 0 /\ busy' = Idle
                 ELSE busy' = busy \/ (busy.sock # d /\ busy' = Idle)
  PROVE  Own(d)'
<1>1. Chain(d)' /\ (d \notin ghost => Handed(d)')
  BY ChainSame, HandedSame DEF Own
<1>2. Invalid(d)' <=> Invalid(d)
  BY DEF Wrote, Invalid, Open
<1>3. /\ Len(out[d]) \in Nat /\ Len(out'[d]) \in Nat /\ Len(out[d]) <= Len(out'[d])
      /\ \A i \in 1..Len(out[d]) : out'[d][i] = out[d][i]
      /\ \A i \in (Len(out[d]) + 1)..Len(out'[d]) : out'[d][i].last => last /\ i = Len(out'[d])
  <2>1. out'[d] \in Seq(Msgs)
    OBVIOUS
  <2>2. Len(out'[d]) \in Nat
    BY <2>1
  <2> QED
    BY <2>2, Typed DEF Wrote
<1>4. \A i \in Replies(d)' : i \in Replies(d) \/ (last /\ i = Len(out'[d]))
  <2> TAKE i \in Replies(d)'
  <2>1. i \in 1..Len(out'[d]) /\ out'[d][i].last
    BY DEF Replies
  <2>2. i \in 1..Len(out[d]) \/ i \in (Len(out[d]) + 1)..Len(out'[d])
    BY <1>3, <2>1
  <2>3. CASE i \in 1..Len(out[d])
    BY <1>3, <2>1, <2>3, Zenon DEF Replies
  <2>4. CASE i \in (Len(out[d]) + 1)..Len(out'[d])
    BY <1>3, <2>1, <2>4, Zenon
  <2> QED
    BY <2>2, <2>3, <2>4
<1>5. ASSUME d \notin ghost, ~Invalid(d) PROVE Joined(d)' /\ Answered(d)'
  <2>1. Joined(d) /\ Answered(d) /\ Chain(d)
    BY <1>5 DEF Own
  <2>2. Current(d)' = Current(d)
    BY CurrentAfter
  <2>3. CASE ~last
    <3>0. d # None
      BY SessionAssumption
    <3>1. Joined(d)'
      BY <2>1, <2>2, <2>3, <3>0, JoinedSame DEF Idle
    <3>2. \A i \in Replies(d)' : i \in Replies(d)
      BY <1>4, <2>3
    <3>3. busy'.sock = d => busy.sock = d
      BY <2>3, <3>0 DEF Idle
    <3>4. Answered(d)'
      BY <2>1, <3>2, <3>3 DEF Answered
    <3> QED
      BY <3>1, <3>4
  <2>4. CASE last
    <3>1. /\ Rest(Current(d)) >= 0
          /\ Len(got[d]) + Rest(Current(d)) = IF in[d] = <<>> THEN peer[d].sent ELSE Base(in[d][1])
          /\ 0 = peer[d].sent + peer[d].todo - Len(got[d])
          /\ \A x \in 1..Rest(Current(d)) :
               Current(d).data[Current(d).read + x] = Unit(peer[d].gen, Len(got[d]) + x)
      BY <2>1, <2>4, Zenon DEF Joined
    <3>2. /\ Rest(Current(d)) \in Nat /\ Len(got[d]) \in Nat /\ peer[d].sent \in Nat
          /\ peer[d].todo \in Nat
      BY <3>1, RestInt, Typed
    <3>3. in[d] = <<>>
      <4> SUFFICES ASSUME in[d] # <<>> PROVE FALSE
        OBVIOUS
      <4>1. Base(in[d][1]) \in Int /\ Base(in[d][1]) < peer[d].sent
        BY <2>1, ChainBelow
      <4> QED
        BY <3>1, <3>2, <4>1
    <3>4. Rest(Current(d)) = 0 /\ peer[d].todo = 0
      BY <3>1, <3>2, <3>3
    <3>5. busy'.sock # d
      BY <2>4, SessionAssumption DEF Idle
    <3>6. Rest(Current(d))' = Rest(Current(d))
      BY <2>2 DEF Rest
    <3>7. Joined(d)'
      BY <2>2, <3>1, <3>4, <3>5, <3>6 DEF Joined, Base
    <3>8. peer[d].waits /\ Replies(d) = {}
      BY <2>1, <2>4, Asked
    <3>9. \A i, j \in Replies(d)' : i = j
      BY <1>4, <3>8
    <3> QED
      BY <3>3, <3>4, <3>5, <3>7, <3>8, <3>9 DEF Answered
  <2> QED
    BY <2>3, <2>4
<1> QED
  BY <1>1, <1>2, <1>5, Zenon DEF Own

\* Every step keeps the units of every connection in order.
LEMMA OwnStep == TypeInv /\ SessInv /\ OwnInv /\ [Next]_vars => OwnInv'
<1> SUFFICES ASSUME TypeInv, SessInv, OwnInv, [Next]_vars, NEW d \in Socks PROVE Own(d)'
  BY DEF OwnInv
<1>0. Own(d)
  BY DEF OwnInv
<1>1. ASSUME NEW c \in Socks, Acts(c), d # c PROVE Own(d)'
  <2>1. CASE ~Open(d)
    BY <1>1, <2>1, Others DEF Still, Own, Open
  <2>2. CASE Open(d)
    <3>1. sess[d] # sess[c] /\ d # None
      BY <1>1, <2>2, SessionAssumption DEF SessInv
    <3>2. CASE ReadRest(c) \/ ReadFrame(c)
      <4>1. busy.sock = c /\ busy'.sock = c
        BY <3>2, RestEffect, FrameEffect DEF ReadRest, ReadFrame, Copied
      <4>2. frame'.session = sess[c]
        <5>1. \A f \in Frames, n \in Nat : Copied(c, f, n) => frame'.session = f.session
          BY DEF Copied, Frames
        <5>2. Current(c) \in Frames /\ Current(c).session = sess[c]
          BY <4>1, FrameTypes
        <5>3. ReadFrame(c) => Fresh(c) \in Frames /\ Fresh(c).session = sess[c]
          BY <4>1, FrameTypes DEF ReadFrame, Fresh
        <5> QED
          BY <3>2, <5>1, <5>2, <5>3, RestEffect, FrameEffect
      <4> QED
        BY <1>0, <1>1, <3>1, <4>1, <4>2, Others, OwnStill
    <3>3. CASE Fail(c)
      <4>1. busy.sock = c /\ busy'.sock = c /\ frame'.session = sess[c]
        BY <3>3, Serving, RemainsFrames DEF Fail, TypeInv
      <4> QED
        BY <1>0, <1>1, <3>1, <4>1, Others, OwnStill
    <3>4. CASE Close(c)
      <4>1. /\ busy' = IF busy.sock = c THEN Idle ELSE busy
            /\ frame' = frame \/ (busy.sock = c /\ frame'.session = sess[c])
        <5>1. busy' = IF busy.sock = c THEN Idle ELSE busy
          BY <3>4 DEF Close, Closed
        <5>2. frame' = frame \/ (busy.sock = c /\ frame' \in Remains(c))
          BY <3>4 DEF Close
        <5> QED
          BY <5>1, <5>2, Serving, RemainsFrames
      <4> QED
        BY <1>0, <1>1, <3>1, <4>1, Others, OwnStill DEF Idle
    <3>5. CASE Request(c)
      <4>1. busy.sock # d /\ busy'.sock # d /\ frame' = frame
        BY <1>1, <3>1, <3>5 DEF Request, Idle
      <4> QED
        BY <1>0, <1>1, <4>1, Others, OwnStill
    <3>6. CASE Verified(c) \/ NewRequest(c) \/ SendFrame(c) \/ Understand(c)
      <4>1. busy' = busy /\ frame' = frame
        BY <3>6 DEF Verified, NewRequest, SendFrame, Understand
      <4> QED
        BY <1>0, <1>1, <4>1, Others, OwnStill
    <3> QED
      BY <1>1, <3>2, <3>3, <3>4, <3>5, <3>6 DEF Acts
  <2> QED
    BY <2>1, <2>2
<1>2. CASE Close(d)
  <2>1. ~Open(d)'
    BY <1>2 DEF Close, Closed, TypeInv, Open
  <2> QED
    BY <2>1 DEF Own
<1>3. CASE Acts(d) /\ ~Close(d)
  BY <1>0, <1>3, OwnVerified, OwnRequest, OwnReadRest, OwnReadFrame, OwnFail, OwnAsk, OwnSend, OwnHear,
     Zenon DEF Acts
<1>4. ASSUME NEW c, NEW last \in BOOLEAN, Writes(c, last), UNCHANGED <<sess, frame, in, peer, got, ghost>>,
             IF last THEN busy.sock = c /\ busy.left = 0 /\ busy' = Idle ELSE busy' = busy
      PROVE  Own(d)'
  <2>1. CASE Open(d)
    <3>1. Wrote(d, last /\ d = c) /\ out' \in [Socks -> Seq(Msgs)]
      BY <1>4, <2>1 DEF Writes
    <3>2. PICK b \in BOOLEAN : b = (last /\ d = c)
      <4>1. (last /\ d = c) \in BOOLEAN
        BY Zenon
      <4> QED
        BY <4>1, Zenon
    <3>3. Wrote(d, b)
      BY <3>1, <3>2, Zenon
    <3>4. IF b THEN busy.sock = d /\ busy.left = 0 /\ busy' = Idle
               ELSE busy' = busy \/ (busy.sock # d /\ busy' = Idle)
      <4>1. CASE last
        <5>1. busy.sock = c /\ busy.left = 0 /\ busy' = Idle /\ (b <=> d = c)
          BY <1>4, <3>2, <4>1, Zenon
        <5> QED
          BY <5>1
      <4>2. CASE ~last
        <5>1. ~b /\ busy' = busy
          BY <1>4, <3>2, <4>2
        <5> QED
          BY <5>1, Zenon
      <4> QED
        BY <4>1, <4>2
    <3> QED
      BY <1>0, <1>4, <2>1, <3>1, <3>3, <3>4, OwnWrite
  <2>2. CASE ~Open(d)
    BY <1>4, <2>2 DEF Own, Open
  <2> QED
    BY <2>1, <2>2
<1>5. ASSUME NEW c \in Socks, Reply(c) PROVE Own(d)'
  BY <1>4, <1>5, ReplyEffect DEF Reply
<1>6. CASE Notify
  BY <1>4, <1>6, NotifyEffect DEF Notify
<1>7. CASE UNCHANGED vars \/ Change \/ Skip
  <2>1. /\ UNCHANGED <<sess, heap, frame, busy, in, out, peer, got, ghost>>
    BY <1>7 DEF vars, Change, Skip
  <2>2. CASE Open(d)
    <3>1. Current(d)' = Current(d)
      BY <2>1, CurrentAfter
    <3>2. /\ Chain(d) => Chain(d)'
          /\ Handed(d) => Handed(d)'
          /\ Joined(d) => Joined(d)'
          /\ Answered(d) => Answered(d)'
      BY <2>1, <3>1, ChainSame, HandedSame, JoinedSame, AnsweredSame
    <3> QED
      BY <1>0, <2>1, <2>2, <3>2, Zenon DEF Own, Open, Invalid
  <2>3. CASE ~Open(d)
    BY <2>1, <2>3 DEF Own, Open
  <2> QED
    BY <2>2, <2>3
<1>8. ASSUME NEW c \in Socks, Overrun(c) PROVE Own(d)'
  BY <1>8, Restarted DEF Own
<1> QED
  BY <1>1, <1>2, <1>3, <1>5, <1>6, <1>7, <1>8, Steps, Zenon

-----------------------------------------------------------------------------
(* The session table *)

\* The table registers sessions of open sockets, and no more than it has
\* entries for.
TableInv ==
  /\ IsFiniteSet(table) /\ Cardinality(table) <= NumEntries
  /\ table \subseteq {sess[c] : c \in Socks}

\* hap_add_secure_session() and hap_free_session() keep the table in its bound.
LEMMA TableStep == TypeInv /\ SessInv /\ TableInv /\ [Next]_vars => TableInv'
<1> SUFFICES ASSUME TypeInv, SessInv, TableInv, [Next]_vars PROVE TableInv'
  OBVIOUS
<1>1. ASSUME NEW c \in Socks, Verified(c) PROVE TableInv'
  <2>1. PICK a \in Addrs : sess' = [sess EXCEPT ![c] = a] /\ hap_add_secure_session(a)
    BY <1>1, Zenon DEF Verified
  <2>2. sess[c] = None /\ None \notin Addrs
    BY <1>1, SessionAssumption DEF Verified, Open
  <2>3. sess'[c] = a /\ \A d \in Socks : d # c => sess'[d] = sess[d]
    BY <2>1 DEF TypeInv
  <2>4. table \subseteq {sess'[d] : d \in Socks}
    <3>1. ASSUME NEW x \in table PROVE x \in {sess'[d] : d \in Socks}
      <4>1. PICK d \in Socks : x = sess[d]
        BY DEF TableInv
      <4>2. d # c
        BY <2>2, <4>1 DEF TypeInv
      <4> QED
        BY <2>3, <4>1, <4>2
    <3> QED
      BY <3>1
  <2>5. a \in {sess'[d] : d \in Socks}
    BY <2>3
  <2>6. CASE Cardinality(table) < NumEntries
    <3>1. table' = table \cup {a}
      BY <2>1, <2>6 DEF hap_add_secure_session
    <3>2. IsFiniteSet(table \cup {a})
          /\ Cardinality(table \cup {a}) = IF a \in table THEN Cardinality(table) ELSE Cardinality(table) + 1
      BY FS_AddElement DEF TableInv
    <3>3. Cardinality(table) \in Nat /\ NumEntries \in Nat
      BY FS_CardinalityType, SessionAssumption DEF TableInv
    <3>4. Cardinality(table \cup {a}) <= NumEntries
      BY <2>6, <3>2, <3>3
    <3> QED
      BY <2>4, <2>5, <3>1, <3>2, <3>4 DEF TableInv
  <2>7. CASE ~(Cardinality(table) < NumEntries)
    BY <2>1, <2>4, <2>7 DEF hap_add_secure_session, TableInv
  <2> QED
    BY <2>6, <2>7
<1>2. ASSUME NEW c \in Socks, Close(c) PROVE TableInv'
  <2>1. sess' = [sess EXCEPT ![c] = None] /\ table' = table \ {sess[c]}
    BY <1>2, Zenon DEF Close, Closed
  <2>2. \A d \in Socks : d # c => sess'[d] = sess[d]
    BY <2>1 DEF TypeInv
  <2>3. table' \subseteq {sess'[d] : d \in Socks}
    BY <2>1, <2>2 DEF TableInv
  <2>4. IsFiniteSet(table') /\ Cardinality(table') <= Cardinality(table)
    BY <2>1, FS_Subset DEF TableInv
  <2>5. Cardinality(table) \in Nat /\ Cardinality(table') \in Nat /\ NumEntries \in Nat
    BY <2>4, FS_CardinalityType, SessionAssumption DEF TableInv
  <2> QED
    BY <2>3, <2>4, <2>5 DEF TableInv
<1>3. CASE UNCHANGED <<sess, table>>
  BY <1>3 DEF TableInv
<1>4. ASSUME NEW c \in Socks, \/ Request(c) \/ ReadRest(c) \/ ReadFrame(c) \/ Fail(c) \/ Reply(c)
                              \/ NewRequest(c) \/ SendFrame(c) \/ Understand(c)
      PROVE  UNCHANGED <<sess, table>>
  BY <1>4, Zenon DEF Request, ReadRest, ReadFrame, Fail, Reply, NewRequest, SendFrame, Understand
<1>5. UNCHANGED vars \/ Change \/ Notify \/ Skip => UNCHANGED <<sess, table>>
  BY Zenon DEF vars, Change, Notify, Skip
<1>6. ASSUME NEW c \in Socks, Overrun(c) PROVE TableInv'
  <2>1. IsFiniteSet({}) /\ Cardinality({}) = 0 /\ 0 <= NumEntries /\ table' = {}
    BY <1>6, FS_EmptySet, SessionAssumption DEF Overrun
  <2> QED
    BY <2>1 DEF TableInv
<1> QED
  BY <1>1, <1>2, <1>3, <1>4, <1>5, <1>6, Actions, Zenon

-----------------------------------------------------------------------------
(* The request in service *)

LeftInv == busy.left \in Nat

\* A request is never read past its end.
LEMMA LeftStep == TypeInv /\ SessInv /\ OwnInv /\ LeftInv /\ [Next]_vars => LeftInv'
<1> SUFFICES ASSUME TypeInv, SessInv, OwnInv, LeftInv, [Next]_vars PROVE LeftInv'
  OBVIOUS
<1>1. ASSUME NEW c \in Socks, Request(c) PROVE LeftInv'
  <2>1. Open(c) /\ in[c] # <<>>
    BY <1>1, Zenon DEF Request
  <2> DEFINE f == in[c][1]
             first == f.data[1].k
  <2>2. busy' = [sock |-> c, left |-> peer[c].sent + peer[c].todo + 1 - first]
    <3>1. Head(in[c]) = f
      BY <2>1, Typed
    <3> QED
      BY <1>1, <3>1, Zenon DEF Request
  <2>3. peer[c].sent \in Nat /\ peer[c].todo \in Nat /\ in[c] \in Seq(Sent)
    BY Typed
  <2>4. 1 \in 1..Len(in[c]) /\ f.data \in Seq(Units)
    <3>1. 1 \in 1..Len(in[c]) /\ in[c][1] \in Sent
      BY <2>1, <2>3
    <3> QED
      BY <3>1 DEF Sent
  <2>5. Run(f, peer[c].gen) /\ End(f) <= peer[c].sent
    BY <2>1, <2>4 DEF OwnInv, Own, Chain
  <2>6. f.data # <<>> /\ Base(f) + Len(f.data) <= peer[c].sent
    BY <2>5 DEF Run, End
  <2>7. Len(f.data) \in Nat /\ Len(f.data) > 0 /\ first \in Nat
    <3>1. \A q \in Seq(Units) : q # <<>> => Len(q) \in Nat /\ Len(q) > 0 /\ q[1] \in Units
      OBVIOUS
    <3>2. first \in Nat
      BY <2>4, <2>6, <3>1 DEF Units
    <3> QED
      BY <2>4, <2>6, <3>1, <3>2
  <2>8. first <= peer[c].sent
    BY <2>3, <2>6, <2>7 DEF Base
  <2>9. peer[c].sent + peer[c].todo + 1 - first \in Nat
    <3>1. \A x, y, z \in Nat : z <= x => x + y + 1 - z \in Nat
      OBVIOUS
    <3> HIDE DEF first
    <3> QED
      BY <2>3, <2>7, <2>8, <3>1
  <2> QED
    BY <2>2, <2>9 DEF LeftInv
<1>2. ASSUME NEW c \in Socks, NEW f, f \in Frames, f.read <= Len(f.data), NEW size \in Nat,
             size <= busy.left, Copy(c, f, size)
      PROVE  LeftInv'
  <2>1. Rest(f) \in Nat
    BY <1>2 DEF Rest, Frames
  <2>2. PICK n \in Nat : n <= size /\ busy' = [busy EXCEPT !.left = @ - n]
    <3>1. (IF Rest(f) < size THEN Rest(f) ELSE size) \in Nat
          /\ (IF Rest(f) < size THEN Rest(f) ELSE size) <= size
      BY <2>1
    <3> QED
      BY <1>2, <3>1 DEF Copy
  <2>3. busy.left - n \in Nat
    BY <1>2, <2>2 DEF LeftInv
  <2>4. busy'.left = busy.left - n
    BY <2>2 DEF TypeInv
  <2> QED
    BY <2>3, <2>4 DEF LeftInv
<1>3. ASSUME NEW c \in Socks, ReadRest(c) PROVE LeftInv'
  <2>1. PICK size \in 1..BufUnits : size <= busy.left /\ Copy(c, Current(c), size)
    BY <1>3, Zenon DEF ReadRest
  <2>2. Current(c) \in Frames /\ Current(c).read <= Len(Current(c).data)
    BY <1>3, FrameTypes DEF ReadRest
  <2>3. size \in Nat
    BY SessionAssumption
  <2> QED
    BY <1>2, <2>1, <2>2, <2>3
<1>4. ASSUME NEW c \in Socks, ReadFrame(c) PROVE LeftInv'
  <2>1. PICK size \in 1..BufUnits : size <= busy.left /\ Copy(c, Fresh(c), size)
    BY <1>4, Zenon DEF ReadFrame, Fresh
  <2>2. busy.sock = c /\ in[c] # <<>>
    BY <1>4 DEF ReadFrame
  <2>3. Fresh(c) \in Frames /\ Fresh(c).read <= Len(Fresh(c).data)
    BY <2>2, FrameTypes DEF Fresh
  <2>4. size \in Nat
    BY SessionAssumption
  <2> QED
    BY <1>2, <2>1, <2>3, <2>4
<1>5. CASE busy' = busy \/ busy' = Idle \/ busy' = [busy EXCEPT !.left = 0]
  <2>1. busy = [sock |-> busy.sock, left |-> busy.left] /\ 0 \in Nat
    BY DEF TypeInv
  <2> QED
    BY <1>5, <2>1 DEF LeftInv, Idle
<1>6. ASSUME NEW c \in Socks, \/ Verified(c) \/ Close(c) \/ Fail(c) \/ Reply(c)
                              \/ NewRequest(c) \/ SendFrame(c) \/ Understand(c) \/ Overrun(c)
      PROVE  busy' = busy \/ busy' = Idle \/ busy' = [busy EXCEPT !.left = 0]
  BY <1>6, Zenon DEF Verified, Close, Closed, Fail, Reply, NewRequest, SendFrame, Understand, Overrun
<1>7. UNCHANGED vars \/ Change \/ Notify \/ Skip => busy' = busy
  BY Zenon DEF vars, Change, Notify, Skip
<1> QED
  BY <1>1, <1>3, <1>4, <1>5, <1>6, <1>7, Actions, Zenon

-----------------------------------------------------------------------------
(* The invariants hold *)

\* The invariants hold at the start, when no socket is open.
LEMMA Inits == Init => TypeInv /\ SessInv /\ EndInv /\ NonceInv /\ OwnInv
<1> SUFFICES ASSUME Init PROVE TypeInv /\ SessInv /\ EndInv /\ NonceInv /\ OwnInv
  OBVIOUS
<1>1. \A c \in Socks : ~Open(c)
  BY DEF Init, Open
<1>2. clear = {}
  BY DEF Init
<1> QED
  BY <1>1, <1>2, TypeInit DEF EndInv, Ending, Invalid, NonceInv, Counted, OwnInv, Own

\* Sessions and sockets belong together: an open socket has a session of its
\* own that is in use, the socket whose request is served is open, and nothing
\* is kept of a closed one.
THEOREM SessionsCorrect == Spec => [](TypeInv /\ SessInv)
<1>1. TypeInv /\ SessInv /\ [Next]_vars => (TypeInv /\ SessInv)'
  BY TypeStep, SessStep
<1> QED
  BY <1>1, Inits, PTL DEF Spec

\* The types, with the table of sessions: it never holds more than
\* HAP_MAX_SESSIONS, nor a session that has been freed, and a request is never
\* read past its end.
THEOREM TypeCorrect == Spec => []TypeOK
<1>1. Init => TableInv /\ LeftInv
  <2> SUFFICES ASSUME Init PROVE TableInv /\ LeftInv
    OBVIOUS
  <2>1. IsFiniteSet({}) /\ Cardinality({}) = 0 /\ 0 <= NumEntries
    BY FS_EmptySet, SessionAssumption
  <2> QED
    BY <2>1 DEF Init, TableInv, LeftInv, Idle
<1>2. TypeInv /\ SessInv /\ TableInv /\ LeftInv => TypeOK
  <2> SUFFICES ASSUME TypeInv, SessInv, TableInv, LeftInv PROVE TypeOK
    OBVIOUS
  <2>1. frame.session \in Addrs \cup {None} /\ frame.read \in 0..(Len(frame.data) + 1)
    BY DEF TypeInv, Frames
  <2>2. \A c \in Socks : sess[c] # None => sess[c] \in Addrs
    BY DEF TypeInv
  <2> QED
    BY <2>1, <2>2, Zenon DEF TypeOK, TypeInv, SessInv, TableInv, LeftInv, States, Open
<1>3. TypeInv /\ SessInv /\ OwnInv /\ [Next]_vars => (TypeInv /\ SessInv /\ OwnInv)'
  BY TypeStep, SessStep, OwnStep
<1> QED
  BY <1>1, <1>2, <1>3, TableStep, LeftStep, Inits, PTL DEF Spec

\* Whatever fails on it, a connection hands over to the server exactly the units
\* its controller sent, in their order and none twice, and no read of it copies a
\* negative length, unless the session was given the address of an ended one whose
\* last frame had not been read out or had not arrived whole: hap_httpd_recv()
\* wipes the frame of any other session.
THEOREM OwnBytesCorrect == Spec => []OwnBytes
<1>1. TypeInv /\ SessInv /\ OwnInv /\ [Next]_vars => (TypeInv /\ SessInv /\ OwnInv)'
  BY TypeStep, SessStep, OwnStep
<1>2. TypeInv /\ OwnInv => OwnBytes
  <2> SUFFICES ASSUME TypeInv, OwnInv, NEW c \in Socks, Open(c), c \notin ghost
               PROVE  /\ \A i \in DOMAIN got[c] : got[c][i] = Unit(peer[c].gen, i)
                      /\ Invalid(c) \/ Rest(Current(c)) >= 0
    BY Zenon DEF OwnBytes
  <2>1. Handed(c) /\ (Invalid(c) \/ Joined(c))
    BY DEF OwnInv, Own
  <2>2. DOMAIN got[c] = 1..Len(got[c])
    BY DEF TypeInv
  <2> QED
    BY <2>1, <2>2, Zenon DEF Handed, Joined
<1> QED
  BY <1>1, <1>2, Inits, PTL DEF Spec

\* The nonces of hap_httpd_send(): whatever the order of replies and events,
\* a controller can decrypt every frame under way to it, unless a write to it
\* was lost or cut short or its session was found invalid.
THEOREM UnderstandableCorrect == Spec => []Understandable
<1>1. TypeInv /\ SessInv /\ NonceInv /\ [Next]_vars => (TypeInv /\ SessInv /\ NonceInv)'
  BY TypeStep, SessStep, NonceStep
<1>2. TypeInv /\ NonceInv => Understandable
  <2> SUFFICES ASSUME TypeInv, NonceInv, NEW c \in Socks, Open(c), c \notin torn \cup clear,
                      NEW i \in DOMAIN out[c]
               PROVE  out[c][i] = Msg("enc", peer[c].dec + i - 1, out[c][i].last)
    BY Zenon DEF Understandable
  <2>1. i \in 1..Len(out[c]) /\ out[c][i] \in Msgs
    BY DEF TypeInv
  <2>2. out[c][i].kind = "enc" /\ out[c][i].nonce = peer[c].dec + i - 1
    BY <2>1, Zenon DEF NonceInv, Counted
  <2>3. out[c][i] = [kind |-> out[c][i].kind, nonce |-> out[c][i].nonce, last |-> out[c][i].last]
    BY <2>1 DEF Msgs
  <2> QED
    BY <2>2, <2>3, Zenon DEF Msg
<1> QED
  BY <1>1, <1>2, Inits, PTL DEF Spec

\* hap_httpd_send() sends in the clear only on a session that is marked invalid,
\* and hap_session_error() has queued the closing of one that the table knows;
\* nothing takes either back while the connection lasts.
THEOREM ClearIsEndingCorrect == Spec => []ClearIsEnding
<1>1. TypeInv /\ SessInv /\ EndInv /\ [Next]_vars => (TypeInv /\ SessInv /\ EndInv)'
  BY TypeStep, SessStep, EndStep
<1>2. TypeInv /\ EndInv => ClearIsEnding
  BY DEF ClearIsEnding, EndInv, Ending, TypeInv
<1> QED
  BY <1>1, <1>2, Inits, PTL DEF Spec
=============================================================================
