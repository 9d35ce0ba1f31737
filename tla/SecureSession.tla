---------------------------- MODULE SecureSession ----------------------------
(***************************************************************************)
(* The encrypted traffic of pair-verified connections                      *)
(* (esp_hap_network_io.c): the frames of a controller's requests as        *)
(* hap_httpd_recv() decrypts them and hands them out in pieces, the frames *)
(* hap_httpd_send() produces for replies and events, the two counters that *)
(* serve as nonces, and what happens when a read or a write fails.         *)
(*                                                                         *)
(* All connections share one static hap_decrypt_frame_t, which remembers   *)
(* by its address which session it belongs to; sessions are allocated and  *)
(* freed, so that an address comes back.                                   *)
(*                                                                         *)
(* The HTTP server is external, modelled from how it is used: one task     *)
(* serves a request at a time, closes a connection whose handler or whose  *)
(* header failed, executes queued work (events, closings) between          *)
(* requests, in order, and purges the least recently used connection when  *)
(* a new one needs its socket.  The controllers are external too: they     *)
(* send a request in frames of at most HAP_MAX_NW_FRAME_SIZE bytes, wait   *)
(* for its reply before the next one, and leave when a frame does not      *)
(* decrypt.  A unit stands for a run of bytes that is always read at once. *)
(***************************************************************************)
EXTENDS Integers, Sequences, FiniteSets, SequencesExt

CONSTANTS
  Socks,       \* sockets of the HTTP server
  Addrs,       \* addresses the heap may give to a session
  None,
  NumEntries,  \* HAP_MAX_SESSIONS
  BufUnits,    \* units the server asks for at most in one read
  Sizes,       \* units a request may have
  FrameUnits,  \* units a frame holds at most
  ReplyFrames, \* frames a reply may need
  MaxConns,    \* bound on connections
  MaxRequests, \* bound on the requests of a connection
  MaxEvents,   \* bound on events
  MaxFails     \* bound on reads and writes that fail

ASSUME SessionAssumption ==
  /\ None \notin Socks \cup Addrs /\ "notify" \notin Socks
  /\ NumEntries \in Nat \ {0} /\ BufUnits \in Nat \ {0}
  /\ Sizes \cup ReplyFrames \subseteq Nat \ {0} /\ FrameUnits \in Nat \ {0}
  /\ {MaxConns, MaxRequests, MaxEvents, MaxFails} \subseteq Nat

VARIABLES
  sess,   \* per socket: the session context of the server, None if closed
  heap,   \* per address: the hap_secure_session_t
  table,  \* hap_priv.sessions: the addresses registered
  frame,  \* decrypt_frame of hap_httpd_recv()
  busy,   \* the socket whose request is served, and how far
  work,   \* the queue of the HTTP server
  in,     \* per socket: encrypted frames that have arrived
  out,    \* per socket: frames under way to the controller
  peer,   \* external, per socket: the controller
  got,    \* history, per socket: the units handed to the server
  ghost,  \* history: sockets whose session began at the address of a frame not read out
  torn,   \* history: sockets on which a frame was lost or cut short
  clear,  \* history: sockets on which something was sent unencrypted
  conns, events, fails  \* the counters behind the bounds

vars == <<sess, heap, table, frame, busy, work, in, out, peer, got, ghost, torn, clear,
          conns, events, fails>>

Free == [state |-> "free", enc |-> 0, dec |-> 0]
Idle == [sock |-> None, left |-> 0]
Unit(gen, k) == [gen |-> gen, k |-> k]
Junk == Unit(0, 0)  \* what no controller of this session sent

\* enc and dec count the frames of each direction; todo counts the units of the
\* request that are not sent yet, sent those of the connection that are.
Peer(gen) == [gen |-> gen, enc |-> 0, dec |-> 0, todo |-> 0, sent |-> 0,
              waits |-> FALSE, requests |-> 0]

Rest(f) == Len(f.data) - f.read

Open(c) == sess[c] # None
Registered(c) == Open(c) /\ sess[c] \in table
Invalid(c) == Open(c) /\ heap[sess[c]].state = "invalid"

TypeOK ==
  /\ sess \in [Socks -> Addrs \cup {None}]
  /\ heap \in [Addrs -> [state : {"free", "verified", "invalid"}, enc : Nat, dec : Nat]]
  /\ table \subseteq Addrs /\ Cardinality(table) <= NumEntries
  /\ frame.session \in Addrs \cup {None} /\ frame.read \in 0..(Len(frame.data) + 1)
  /\ busy.sock \in Socks \cup {None} /\ busy.left \in Nat
  /\ \A c \in Socks : Open(c) => heap[sess[c]].state # "free"
  /\ \A c, d \in Socks : c # d /\ Open(c) => sess[c] # sess[d]
  /\ table \subseteq {sess[c] : c \in Socks}

Init ==
  /\ sess = [c \in Socks |-> None] /\ heap = [a \in Addrs |-> Free] /\ table = {}
  /\ frame = [session |-> None, data |-> <<>>, read |-> 0]
  /\ busy = Idle /\ work = <<>>
  /\ in = [c \in Socks |-> <<>>] /\ out = [c \in Socks |-> <<>>]
  /\ peer = [c \in Socks |-> Peer(0)] /\ got = [c \in Socks |-> <<>>]
  /\ ghost = {} /\ torn = {} /\ clear = {} /\ conns = 0 /\ events = 0 /\ fails = 0

-----------------------------------------------------------------------------
(* Connections *)

\* hap_add_secure_session(): with all entries taken the session is not registered.
hap_add_secure_session(a) ==
  table' = IF Cardinality(table) < NumEntries THEN table \cup {a} ELSE table

\* A connection is accepted and pair-verified: both counters start from 0.
Verified(c) ==
  /\ conns < MaxConns /\ ~Open(c) /\ conns' = conns + 1
  /\ \E a \in Addrs :
       /\ heap[a].state = "free"
       /\ heap' = [heap EXCEPT ![a] = [state |-> "verified", enc |-> 0, dec |-> 0]]
       /\ sess' = [sess EXCEPT ![c] = a]
       /\ hap_add_secure_session(a)
       /\ ghost' = IF frame.session = a /\ Rest(frame) # 0
                   THEN ghost \cup {c} ELSE ghost
  /\ peer' = [peer EXCEPT ![c] = Peer(conns + 1)]
  /\ UNCHANGED <<frame, busy, work, in, out, got, torn, clear, events, fails>>

\* The HTTP server closes the socket; hap_free_session() frees the context.
\* What the socket held is gone, and what the histories say of it.
Closed(c) ==
  /\ sess' = [sess EXCEPT ![c] = None]
  /\ table' = table \ {sess[c]}
  /\ in' = [in EXCEPT ![c] = <<>>] /\ out' = [out EXCEPT ![c] = <<>>]
  /\ peer' = [peer EXCEPT ![c] = Peer(0)] /\ got' = [got EXCEPT ![c] = <<>>]
  /\ ghost' = ghost \ {c} /\ torn' = torn \ {c} /\ clear' = clear \ {c}
  /\ busy' = IF busy.sock = c THEN Idle ELSE busy

Freed(h, c) == [h EXCEPT ![sess[c]] = Free]

\* Every socket is taken: the server closes one to accept another.
Purge(c) ==
  /\ busy = Idle /\ conns < MaxConns /\ \A d \in Socks : Open(d)
  /\ Closed(c) /\ heap' = Freed(heap, c)
  /\ UNCHANGED <<frame, work, conns, events, fails>>

\* Slip: an invalid session is not closed.
hap_session_error_Lax(c) == [state |-> "invalid", work |-> <<>>]

\* The session is marked; its closing is queued if the table knows it.
hap_session_error(c) ==
  [state |-> "invalid", work |-> IF Registered(c) THEN <<c>> ELSE <<>>]

-----------------------------------------------------------------------------
(* Reading *)

\* The server turns to a connection with data; the request ends with the last
\* unit its controller is to send.
Request(c) ==
  /\ busy = Idle /\ Open(c) /\ ~Invalid(c) /\ in[c] # <<>>
  /\ LET first == Head(in[c]).data[1].k IN
     busy' = [sock |-> c, left |-> peer[c].sent + peer[c].todo + 1 - first]
  /\ UNCHANGED <<sess, heap, table, frame, work, in, out, peer, got, ghost, torn, clear,
                 conns, events, fails>>

Empty(c) == [session |-> sess[c], data |-> <<>>, read |-> 0]

\* Slip: the frame of another session is taken for one's own.
Current_Any(c) == frame

\* The frame as the session of c finds it: that of another session is wiped.
Current(c) ==
  IF frame.session = sess[c] THEN frame
  ELSE Empty(c)

\* The rest of a frame, cut to the buffer.
Copy(c, f, size) ==
  LET bytes == IF Rest(f) < size THEN Rest(f) ELSE size IN
  /\ frame' = [f EXCEPT !.read = @ + bytes]
  /\ got' = [got EXCEPT ![c] = @ \o SubSeq(f.data, f.read + 1, f.read + bytes)]
  /\ busy' = [busy EXCEPT !.left = @ - bytes]

\* hap_decrypt_data() with something left of the last frame.
ReadRest(c) ==
  /\ busy.sock = c /\ busy.left > 0 /\ heap[sess[c]].state = "verified"
  /\ Rest(Current(c)) > 0
  /\ \E size \in 1..BufUnits :
       /\ size <= busy.left
       /\ Copy(c, Current(c), size)
  /\ UNCHANGED <<sess, heap, table, work, in, out, peer, ghost, torn, clear, conns, events, fails>>

\* hap_decrypt_data() with a new frame, whose nonce is right.
ReadFrame(c) ==
  /\ busy.sock = c /\ busy.left > 0 /\ heap[sess[c]].state = "verified"
  /\ Rest(Current(c)) = 0 /\ in[c] # <<>> /\ Head(in[c]).nonce = heap[sess[c]].dec
  /\ in' = [in EXCEPT ![c] = Tail(@)]
  /\ heap' = [heap EXCEPT ![sess[c]].dec = @ + 1]
  /\ \E size \in 1..BufUnits :
       /\ size <= busy.left
       /\ Copy(c, [session |-> sess[c], data |-> Head(in[c]).data, read |-> 0], size)
  /\ UNCHANGED <<sess, table, work, out, peer, ghost, torn, clear, conns, events, fails>>

\* A frame of which less than nothing is left is copied with a negative length:
\* an exception, and the program restarts.
Overrun(c) ==
  /\ busy.sock = c /\ busy.left > 0 /\ heap[sess[c]].state = "verified"
  /\ Rest(Current(c)) < 0
  /\ sess' = [d \in Socks |-> None] /\ heap' = [a \in Addrs |-> Free] /\ table' = {}
  /\ frame' = [session |-> None, data |-> <<>>, read |-> 0]
  /\ busy' = Idle /\ work' = <<>>
  /\ in' = [d \in Socks |-> <<>>] /\ out' = [d \in Socks |-> <<>>]
  /\ peer' = [d \in Socks |-> Peer(0)] /\ got' = [d \in Socks |-> <<>>]
  /\ ghost' = {} /\ torn' = {} /\ clear' = {}
  /\ UNCHANGED <<conns, events, fails>>

\* What a read that fails leaves in the frame.  Half a header and a tag that does
\* not match leave nothing.  When the body stops arriving, what is missing of its
\* data counts as not handed out yet; when only a part of the tag is missing, more
\* than the data counts as handed out.
Remains(c) ==
  {[Empty(c) EXCEPT !.data = [i \in 1..k |-> Junk]] : k \in 0..FrameUnits}
  \cup {[Empty(c) EXCEPT !.read = 1]}

\* A read fails: nothing arrives in time, a part of a frame arrives, the
\* connection is lost, or the frame does not decrypt.
Unreadable(c) ==
  \/ fails < MaxFails /\ fails' = fails + 1 /\ frame' \in Remains(c)
  \/ /\ in[c] # <<>> /\ Head(in[c]).nonce # heap[sess[c]].dec
     /\ frame' = Empty(c) /\ UNCHANGED fails

\* In the header the server closes the connection at once, in the body the
\* handler goes on without it; the controller may be out of reach for good.
ReadFails(c) ==
  /\ busy.sock = c /\ busy.left > 0 /\ heap[sess[c]].state = "verified"
  /\ Rest(Current(c)) = 0 /\ Unreadable(c)
  /\ LET e == hap_session_error(c) IN
     /\ work' = work \o e.work
     /\ \/ /\ Closed(c) /\ heap' = Freed(heap, c)
        \/ /\ heap' = [heap EXCEPT ![sess[c]].state = e.state]
           /\ busy' = [busy EXCEPT !.left = 0]
           /\ \/ UNCHANGED <<in, peer>>
              \/ /\ in' = [in EXCEPT ![c] = <<>>]
                 /\ peer' = [peer EXCEPT ![c].todo = 0]
           /\ UNCHANGED <<sess, table, out, got, ghost, torn, clear>>
  /\ UNCHANGED <<conns, events>>

\* A request no handler is registered for, or whose reply failed, is not read
\* to its end; the server closes the connection.
Abandon(c) ==
  /\ busy.sock = c /\ busy.left > 0 /\ fails < MaxFails /\ fails' = fails + 1
  /\ Closed(c) /\ heap' = Freed(heap, c)
  /\ UNCHANGED <<frame, work, conns, events>>

\* hap_httpd_recv() refuses an invalid session: the server closes it.
ReadInvalid(c) ==
  /\ busy = Idle /\ Invalid(c) /\ in[c] # <<>>
  /\ Closed(c) /\ heap' = Freed(heap, c)
  /\ UNCHANGED <<frame, work, conns, events, fails>>

-----------------------------------------------------------------------------
(* Writing *)

Msg(kind, nonce, last) == [kind |-> kind, nonce |-> nonce, last |-> last]

\* Slip: one nonce for all the frames of a message.
Encrypted_Once(n, k, last) == [i \in 1..k |-> Msg("enc", n, last /\ i = k)]

\* The frames of one message: the nonce grows by one with each of them.
Encrypted(n, k, last) == [i \in 1..k |-> Msg("enc", n + i - 1, last /\ i = k)]

\* hap_httpd_send(): k frames, of which the last may fail to go out or may be
\* cut short, which is taken for success; a session that is not verified
\* sends what it is given as it is.
Send(c, k, last) ==
  LET s == heap[sess[c]] IN
  \/ /\ s.state = "verified"
     /\ out' = [out EXCEPT ![c] = @ \o Encrypted(s.enc, k, last)]
     /\ heap' = [heap EXCEPT ![sess[c]].enc = @ + k]
     /\ UNCHANGED <<torn, clear, fails>>
  \/ /\ s.state = "verified" /\ fails < MaxFails /\ fails' = fails + 1
     /\ out' = [out EXCEPT ![c] = @ \o Front(Encrypted(s.enc, k, last))]
     /\ heap' = [heap EXCEPT ![sess[c]].enc = @ + k]
     /\ torn' = torn \cup {c} /\ UNCHANGED clear
  \/ /\ s.state = "invalid"
     /\ out' = [out EXCEPT ![c] = Append(@, Msg("plain", 0, last))]
     /\ clear' = clear \cup {c} /\ UNCHANGED <<heap, torn, fails>>

\* The handler replies; the error of a write that failed closes the connection,
\* a write that was cut short does not.
Reply(c) ==
  /\ busy.sock = c /\ busy.left = 0 /\ busy' = Idle
  /\ \E k \in ReplyFrames : Send(c, k, TRUE)
  /\ UNCHANGED <<sess, table, frame, work, in, peer, got, ghost, conns, events>>

ReplyFails(c) ==
  /\ busy.sock = c /\ busy.left = 0 /\ fails < MaxFails /\ fails' = fails + 1
  /\ Closed(c) /\ heap' = Freed(heap, c)
  /\ UNCHANGED <<frame, work, conns, events>>

\* A value changes: hap_send_notification() is queued.
Change ==
  /\ events < MaxEvents /\ events' = events + 1
  /\ work' = Append(work, "notify")
  /\ UNCHANGED <<sess, heap, table, frame, busy, in, out, peer, got, ghost, torn, clear,
                 conns, fails>>

\* hap_send_notification() writes an event to every registered session, in
\* three calls of hap_httpd_send() whose results it ignores: one of them at a
\* time, todo are the sockets not served yet.
Notify ==
  /\ busy = Idle /\ work # <<>> /\ Head(work) = "notify"
  /\ LET live == {c \in Socks : Registered(c)}
         ok   == {c \in live : heap[sess[c]].state = "verified"}
         Enc(c) == Encrypted(heap[sess[c]].enc, 3, FALSE)
     IN
     /\ \E lost \in {<<None, 0>>} \cup (ok \X (1..3)) :
          /\ fails' = fails + (IF lost[1] = None THEN 0 ELSE 1) /\ fails' <= MaxFails
          /\ out' = [c \in Socks |-> out[c] \o
                       (IF c \notin live THEN <<>>
                        ELSE IF c \notin ok THEN <<Msg("plain", 0, FALSE)>>
                        ELSE IF c = lost[1] THEN RemoveAt(Enc(c), lost[2]) ELSE Enc(c))]
          /\ torn' = torn \cup (ok \cap {lost[1]})
     /\ heap' = [a \in Addrs |-> IF a \in {sess[c] : c \in ok}
                                 THEN [heap[a] EXCEPT !.enc = @ + 3] ELSE heap[a]]
     /\ clear' = clear \cup (live \ ok)
  /\ work' = Tail(work)
  /\ UNCHANGED <<sess, table, frame, busy, in, peer, got, ghost, conns, events>>

\* httpd_sess_trigger_close(): whatever connection the socket has by now.
ExecuteClose ==
  /\ busy = Idle /\ work # <<>> /\ Head(work) \in Socks /\ work' = Tail(work)
  /\ LET c == Head(work) IN
     IF Open(c) THEN Closed(c) /\ heap' = Freed(heap, c)
     ELSE UNCHANGED <<sess, heap, table, busy, in, out, peer, got, ghost, torn, clear>>
  /\ UNCHANGED <<frame, conns, events, fails>>

-----------------------------------------------------------------------------
(* The controllers *)

NewRequest(c) ==
  /\ Open(c) /\ ~peer[c].waits /\ peer[c].requests < MaxRequests
  /\ \E size \in Sizes :
       peer' = [peer EXCEPT ![c].todo = size, ![c].waits = TRUE, ![c].requests = @ + 1]
  /\ UNCHANGED <<sess, heap, table, frame, busy, work, in, out, got, ghost, torn, clear,
                 conns, events, fails>>

SendFrame(c) ==
  /\ Open(c)
  /\ \E n \in 1..FrameUnits :
       /\ n <= peer[c].todo
       /\ in' = [in EXCEPT ![c] = Append(@, [nonce |-> peer[c].enc,
                   data |-> [i \in 1..n |-> Unit(peer[c].gen, peer[c].sent + i)]])]
       /\ peer' = [peer EXCEPT ![c].enc = @ + 1, ![c].todo = @ - n, ![c].sent = @ + n]
  /\ UNCHANGED <<sess, heap, table, frame, busy, work, out, got, ghost, torn, clear,
                 conns, events, fails>>

Understood(c) == Head(out[c]).kind = "enc" /\ Head(out[c]).nonce = peer[c].dec

\* A frame arrives at the controller, or cannot be decrypted: then it leaves,
\* which the server notices between requests.
ReceiveFrame(c) ==
  /\ Open(c) /\ out[c] # <<>>
  /\ IF Understood(c)
     THEN /\ out' = [out EXCEPT ![c] = Tail(@)]
          /\ peer' = [peer EXCEPT ![c].dec = @ + 1, ![c].waits = @ /\ ~Head(out[c]).last]
          /\ UNCHANGED <<sess, heap, table, busy, in, got, ghost, torn, clear>>
     ELSE busy.sock # c /\ Closed(c) /\ heap' = Freed(heap, c)
  /\ UNCHANGED <<frame, work, conns, events, fails>>

-----------------------------------------------------------------------------
Serve(c) ==
  \/ Request(c) \/ ReadRest(c) \/ ReadFrame(c) \/ ReadFails(c) \/ ReadInvalid(c)
  \/ Overrun(c) \/ Abandon(c) \/ Reply(c) \/ ReplyFails(c)
Execute == Notify \/ ExecuteClose

Next ==
  \/ \E c \in Socks : \/ Verified(c) \/ Purge(c) \/ Serve(c)
                      \/ NewRequest(c) \/ SendFrame(c) \/ ReceiveFrame(c)
  \/ Change \/ Execute

Spec == Init /\ [][Next]_vars

\* The server's task goes on, a controller sends the request it began, and a
\* read ends in time, with a frame or without (SO_RCVTIMEO).
FairSpec ==
  /\ Spec /\ WF_vars(Execute)
  /\ \A c \in Socks : WF_vars(Serve(c)) /\ WF_vars(SendFrame(c))

-----------------------------------------------------------------------------
(* Properties *)

\* A connection's requests reach the server as its controller sent them, and no
\* read copies a negative length, although all sessions share one frame and some
\* reads fail in the middle of it, except where a session was given the address of
\* an ended one whose last frame had not been read out or had not arrived whole.
OwnBytes ==
  \A c \in Socks : Open(c) /\ c \notin ghost =>
    /\ \A i \in DOMAIN got[c] : got[c][i] = Unit(peer[c].gen, i)
    /\ Invalid(c) \/ Rest(Current(c)) >= 0

\* A controller can decrypt everything it is sent unless a write to it failed
\* or its session was found invalid: what counts is the order in which replies
\* and events interleave with failures.
Understandable ==
  \A c \in Socks : Open(c) /\ c \notin torn \cup clear =>
    \A i \in DOMAIN out[c] : out[c][i] = Msg("enc", peer[c].dec + i - 1, out[c][i].last)

\* Nothing goes out unencrypted on a session while it is verified, and one that
\* sends unencrypted is about to be closed if the table knows it.
ClearIsEnding ==
  \A c \in clear : Open(c) => Invalid(c) /\ (Registered(c) => Contains(work, c))

\* An invalid session that the table knows does not stay.
InvalidEnds == \A c \in Socks : (Invalid(c) /\ Registered(c)) ~> ~Invalid(c)
=============================================================================
