----------------------------- MODULE HapPairing -----------------------------
(***************************************************************************)
(* Controllers, secure sessions and pair-setup of the HomeKit core         *)
(* (arduino/libraries/Homekit/esp_hap_core): the table of paired           *)
(* controllers in RAM and its copy in the NVS keystore, the sessions that  *)
(* pair-verify opens on the HTTP server's sockets, and the one pair-setup  *)
(* context.                                                                *)
(*                                                                         *)
(* Four actors take turns.  The httpd task runs one handler at a time; a   *)
(* handler is one action unless another actor can observe it half way, in  *)
(* which case pc names where it is.  The timer task fires the pair-setup   *)
(* timeout.  The HomeKit main loop executes hap_reset_pairings().  Power   *)
(* may be lost at any step.                                                *)
(*                                                                         *)
(* Abstractions.  Cryptography is a choice between "verifies" and "does    *)
(* not".  A controller has one long-term key, so an identifier stands for  *)
(* the pair (identifier, key): requests with a foreign key change nothing. *)
(* Requests that are answered with an error and change no state are        *)
(* stuttering steps.  Subscriptions and events belong to other modules.    *)
(*                                                                         *)
(* POST /pair-setup takes whatever session context its connection has for  *)
(* a pair_setup_ctx_t: also a pair-verify context, a secure session, or a  *)
(* pair-setup context that was freed since.  Such a request is a stray     *)
(* one; strays counts them.  It reads past the context it was given, and   *)
(* where it would write there too pc becomes "broken": what the program    *)
(* does with a damaged heap is not modelled, only its restart.             *)
(***************************************************************************)
EXTENDS Integers, FiniteSets

CONSTANTS
  NumSlots,     \* HAP_MAX_CONTROLLERS
  NumSessions,  \* HAP_MAX_SESSIONS
  MaxAttempts,  \* HAP_PAIR_SETUP_MAX_ATTEMPTS
  Ids,          \* controller identifiers
  Socks,        \* sockets of the HTTP server
  NoId,         \* the identifier of a zeroed record
  NoSock,       \* a free entry of the session table
  MaxFails,     \* bound on keystore operations that fail
  MaxBoots,     \* bound on restarts
  MaxAgain,     \* bound on pair-setup restarts by a controller
  MaxStrays     \* bound on stray requests between two restarts

ASSUME PairingAssumption ==
  /\ NumSlots \in Nat \ {0}
  /\ NumSessions \in Nat \ {0}
  /\ MaxAttempts \in 1..255
  /\ NoId \notin Ids
  /\ NoSock \notin Socks
  /\ MaxFails \in Nat /\ MaxBoots \in Nat /\ MaxAgain \in Nat
  /\ MaxStrays \in Nat

Slots   == 1..NumSlots
Entries == 1..NumSessions

VARIABLES
  ctrl,      \* hap_priv.controllers: the RAM table
  nvs,       \* namespace "hap_ctrl" of the keystore, one key per slot
  conn,      \* per socket: closed, or the kind of session context it holds
  sess,      \* per socket: its hap_secure_session_t
  table,     \* hap_priv.sessions: which sockets' sessions are registered
  lost,      \* its other entries: sessions that no connection holds any more
  setup,     \* the static ps_ctx of hap_pair_setup_ctx_action()
  attempts,  \* hap_priv.pair_attempts, a uint8_t
  closing,   \* sockets with an httpd_sess_trigger_close() still queued
  pc,        \* where the httpd task is: idle, or inside a handler
  reset,     \* where the main loop is in HAP_INTERNAL_EVENT_RESET_PAIRINGS
  stale,     \* history: slots whose last keystore operation failed
  fails, boots, again, strays  \* the counters behind the four bounds

vars == <<ctrl, nvs, conn, sess, table, lost, setup, attempts, closing, pc,
          reset, stale, fails, boots, again, strays>>

-----------------------------------------------------------------------------
(* Records *)

Perms  == {0, 1}                         \* regular user, administrator
Record == [valid : BOOLEAN, id : Ids \cup {NoId}, perms : Perms]
Empty  == [valid |-> FALSE, id |-> NoId, perms |-> 0]
Paired(id, p) == [valid |-> TRUE, id |-> id, perms |-> p]

\* "pv0" and "pv2" are a pair_verify_ctx_t in STATE_M0 and STATE_M2.
Kinds == {"closed", "plain", "setup", "pv0", "pv2", "secure"}

\* slot is the pointer session->ctrl; who is the controller that verified.
\* live is state = STATE_VERIFIED; bound says conn_identifier is set.
Session   == [slot : Slots, who : Ids \cup {NoId}, live : BOOLEAN, bound : BOOLEAN]
NoSession == [slot |-> 1, who |-> NoId, live |-> FALSE, bound |-> FALSE]

\* An entry whose session was dropped by its connection: pointer ctrl and
\* conn_identifier.
Lost   == [slot : Slots, sock : Socks \cup {NoSock}]
NoLost == [slot |-> 1, sock |-> NoSock]

\* sock is sock_fd; ptrs are the connections whose session context points to
\* the context.
SetupCtx == [state : {"none", "M2", "M4"}, sock : Socks \cup {NoSock},
             slot : Slots, timer : BOOLEAN, ptrs : SUBSET Socks]
NoSetup  == [state |-> "none", sock |-> NoSock, slot |-> 1,
             timer |-> FALSE, ptrs |-> {}]

TypeOK ==
  /\ ctrl \in [Slots -> Record]
  /\ nvs \in [Slots -> Record]
  /\ conn \in [Socks -> Kinds]
  /\ sess \in [Socks -> Session]
  /\ table \in [Entries -> Socks \cup {NoSock}]
  /\ lost \in [Entries -> Lost]
  /\ setup \in SetupCtx
  /\ attempts \in 0..255
  /\ closing \in SUBSET Socks
  /\ pc \in {"idle", "bind", "purge", "broken"}
  /\ reset \in {"none", "asked", "closed", "erased"}
  /\ stale \in SUBSET Slots
  /\ fails \in 0..MaxFails /\ boots \in 0..MaxBoots /\ again \in 0..MaxAgain
  /\ strays \in 0..MaxStrays

-----------------------------------------------------------------------------
(* Helpers of esp_hap_controllers.c and esp_hap_pair_verify.c *)

First(S) == CHOOSE i \in S : \A j \in S : i <= j

Valid(c)    == {i \in Slots : c[i].valid}
SlotsOf(id) == {i \in Valid(ctrl) : ctrl[i].id = id}     \* hap_get_controller
EmptyLocs   == Slots \ Valid(ctrl)         \* hap_controller_get_empty_loc

is_accessory_paired == Valid(ctrl) # {}
is_admin_paired(c)  == \E i \in Valid(c) : c[i].perms # 0

Registered(s) == \E e \in Entries : table[e] = s
FreeEntries   == {e \in Entries : table[e] = NoSock /\ lost[e].sock = NoSock}

\* httpd_sess_trigger_close() of a socket that is not open does nothing.
Open == {s \in Socks : conn[s] # "closed"}

\* The sockets of the entries whose session points to slot i: the loop of
\* hap_close_sessions_of_ctrl() asks httpd to close each of them.
SessionsOf(i) ==
  {s \in Socks : Registered(s) /\ sess[s].slot = i}
    \cup {s \in Open : \E e \in Entries : lost[e] = [slot |-> i, sock |-> s]}

\* Slip: every verified session may manage pairings.
hap_is_req_admin_Any(s) == conn[s] = "secure" /\ sess[s].live

\* session->state == STATE_VERIFIED and the record it points to is an admin.
hap_is_req_admin(s) ==
  conn[s] = "secure" /\ sess[s].live /\ ctrl[sess[s].slot].perms = 1

\* A keystore write or erase of slot i, which may fail and is not retried.
Keystore(i, rec) ==
  \/ /\ nvs' = [nvs EXCEPT ![i] = rec]
     /\ stale' = stale \ {i}
     /\ UNCHANGED fails
  \/ /\ fails < MaxFails
     /\ fails' = fails + 1
     /\ stale' = stale \cup {i}
     /\ UNCHANGED nvs

\* valid is set before the keystore is written and stays set when that fails.
hap_controller_save(i, rec) ==
  /\ ctrl' = [ctrl EXCEPT ![i] = rec]
  /\ Keystore(i, rec)

\* Slip: only the RAM record is cleared.
hap_controller_remove_RamOnly(i) ==
  /\ ctrl' = [ctrl EXCEPT ![i] = Empty]
  /\ UNCHANGED <<nvs, stale, fails>>

hap_controller_remove(i) ==
  /\ Keystore(i, Empty)
  /\ ctrl' = [ctrl EXCEPT ![i] = Empty]

-----------------------------------------------------------------------------
(* Connections: httpd accepts, closes and frees session contexts *)

Init ==
  /\ ctrl = [i \in Slots |-> Empty] /\ nvs = [i \in Slots |-> Empty]
  /\ conn = [s \in Socks |-> "closed"]
  /\ sess = [s \in Socks |-> NoSession]
  /\ table = [e \in Entries |-> NoSock]
  /\ lost = [e \in Entries |-> NoLost]
  /\ setup = NoSetup
  /\ attempts = 0
  /\ closing = {}
  /\ pc = "idle" /\ reset = "none"
  /\ stale = {}
  /\ fails = 0 /\ boots = 0 /\ again = 0 /\ strays = 0

\* Everything but what pairing requests and their sessions change.
bounds == <<lost, stale, fails, boots, again, strays>>

Accept(s) ==
  /\ pc = "idle" /\ conn[s] = "closed"
  /\ conn' = [conn EXCEPT ![s] = "plain"]
  /\ UNCHANGED <<ctrl, nvs, sess, table, setup, attempts, closing, pc, reset, bounds>>

\* Slip: pair-setup's context is registered without its free function.
FreeCtx_KeepsSetup(s) ==
  /\ conn' = [conn EXCEPT ![s] = "closed"]
  /\ table' = [e \in Entries |-> IF conn[s] = "secure" /\ table[e] = s
                                 THEN NoSock ELSE table[e]]
  /\ sess' = [sess EXCEPT ![s] = NoSession]
  /\ UNCHANGED setup

\* Slip: the session is freed without leaving the table.
FreeCtx_KeepsEntry(s) ==
  /\ conn' = [conn EXCEPT ![s] = "closed"]
  /\ setup' = IF conn[s] = "setup" THEN NoSetup ELSE setup
  /\ sess' = [sess EXCEPT ![s] = NoSession]
  /\ UNCHANGED table

\* The free_ctx of the socket's context runs when httpd deletes the socket:
\* hap_pair_setup_ctx_clean() frees the static context, whichever it is;
\* hap_free_session() leaves the table; a pair-verify context is freed.
FreeCtx(s) ==
  /\ conn' = [conn EXCEPT ![s] = "closed"]
  /\ setup' = IF conn[s] = "setup" THEN NoSetup ELSE setup
  /\ table' = [e \in Entries |-> IF conn[s] = "secure" /\ table[e] = s
                                 THEN NoSock ELSE table[e]]
  /\ sess' = [sess EXCEPT ![s] = NoSession]

\* The peer disconnects, its socket fails, or httpd purges it as least
\* recently used.  A queued close of the same socket number stays queued.
PeerClose(s) ==
  /\ pc = "idle" /\ conn[s] # "closed"
  /\ FreeCtx(s)
  /\ UNCHANGED <<ctrl, nvs, attempts, closing, pc, reset, bounds>>

\* httpd takes a queued httpd_sess_trigger_close() from its control socket.
ProcessClose(s) ==
  /\ pc = "idle" /\ s \in closing
  /\ closing' = closing \ {s}
  /\ IF conn[s] = "closed" THEN UNCHANGED <<conn, setup, table, sess>> ELSE FreeCtx(s)
  /\ UNCHANGED <<ctrl, nvs, attempts, pc, reset, bounds>>

-----------------------------------------------------------------------------
(* POST /pair-verify *)

\* M1: the context is created on first use; a malformed M1 leaves it in M0.
VerifyStart(s, good) ==
  /\ pc = "idle" /\ conn[s] \in {"plain", "pv0"}
  /\ conn' = [conn EXCEPT ![s] = IF good THEN "pv2" ELSE "pv0"]
  /\ UNCHANGED <<ctrl, nvs, sess, table, setup, attempts, closing, pc, reset, bounds>>

\* M3 with a valid signature of a paired controller: the session is created,
\* registered if the table has room, and answered before it is bound.
VerifyFinish(s, id) ==
  /\ pc = "idle" /\ conn[s] = "pv2" /\ SlotsOf(id) # {}
  /\ sess' = [sess EXCEPT ![s] = [slot |-> First(SlotsOf(id)), who |-> id,
                                  live |-> TRUE, bound |-> FALSE]]
  /\ table' = IF FreeEntries = {} THEN table
              ELSE [table EXCEPT ![First(FreeEntries)] = s]
  /\ conn' = [conn EXCEPT ![s] = "secure"]
  /\ pc' = "bind"
  /\ UNCHANGED <<ctrl, nvs, setup, attempts, closing, reset, bounds>>

\* The rest of the handler: conn_identifier and the session context are set.
VerifyBind(s) ==
  /\ pc = "bind" /\ conn[s] = "secure" /\ ~sess[s].bound
  /\ sess' = [sess EXCEPT ![s].bound = TRUE]
  /\ pc' = "idle"
  /\ UNCHANGED <<ctrl, nvs, conn, table, setup, attempts, closing, reset, bounds>>

\* A frame that cannot be read or decrypted makes the session invalid and
\* asks for its close, if hap_close_session() finds it in the table.
SessionError(s) ==
  /\ pc = "idle" /\ conn[s] = "secure" /\ sess[s].live
  /\ sess' = [sess EXCEPT ![s].live = FALSE]
  /\ closing' = IF Registered(s) THEN closing \cup {s} ELSE closing
  /\ UNCHANGED <<ctrl, nvs, conn, table, setup, attempts, pc, reset, bounds>>

-----------------------------------------------------------------------------
(* POST /pairings, refused unless the session is an administrator's *)

\* Slip: a controller that is already known gets another slot.
PairAdd_NoLookup(s, id, p) ==
  /\ pc = "idle" /\ hap_is_req_admin(s)
  /\ EmptyLocs # {} /\ hap_controller_save(First(EmptyLocs), Paired(id, p))
  /\ UNCHANGED <<conn, sess, table, lost, setup, attempts, closing, pc, reset,
                 boots, again, strays>>

\* A known controller only has its permissions changed; a new one takes the
\* first free slot; with no free slot the answer is MaxPeers.
PairAdd(s, id, p) ==
  /\ pc = "idle" /\ hap_is_req_admin(s)
  /\ \/ SlotsOf(id) # {} /\ hap_controller_save(First(SlotsOf(id)), Paired(id, p))
     \/ /\ SlotsOf(id) = {} /\ EmptyLocs # {}
        /\ hap_controller_save(First(EmptyLocs), Paired(id, p))
  /\ UNCHANGED <<conn, sess, table, lost, setup, attempts, closing, pc, reset,
                 boots, again, strays>>

\* The sessions of the controller are asked to close, then it is removed.
\* If that leaves no administrator the handler goes on to remove the rest.
PairRemove(s, id) ==
  /\ pc = "idle" /\ hap_is_req_admin(s) /\ SlotsOf(id) # {}
  /\ LET i == First(SlotsOf(id)) IN
     /\ closing' = closing \cup SessionsOf(i)
     /\ hap_controller_remove(i)
  /\ pc' = IF Valid(ctrl') # {} /\ ~is_admin_paired(ctrl') THEN "purge" ELSE "idle"
  /\ UNCHANGED <<conn, sess, table, lost, setup, attempts, reset, boots, again, strays>>

\* Slip: the loop removes the controllers and leaves their sessions open.
PurgeOne_KeepsSessions ==
  /\ pc = "purge"
  /\ hap_controller_remove(First(Valid(ctrl)))
  /\ pc' = IF Valid(ctrl') = {} THEN "idle" ELSE "purge"
  /\ UNCHANGED <<conn, sess, table, lost, setup, attempts, closing, reset,
                 boots, again, strays>>

\* One turn of the loop of hap_remove_all_controllers().
PurgeOne ==
  /\ pc = "purge"
  /\ LET i == First(Valid(ctrl)) IN
     /\ closing' = closing \cup SessionsOf(i)
     /\ hap_controller_remove(i)
  /\ pc' = IF Valid(ctrl') = {} THEN "idle" ELSE "purge"
  /\ UNCHANGED <<conn, sess, table, lost, setup, attempts, reset, boots, again, strays>>
-----------------------------------------------------------------------------
(* POST /pair-setup, and the one-shot timer of its context *)

\* A new context: started by M1, its timer running.  A freed context that some
\* other connection still points to may have been the same block.
Dangling == {r \in Socks : conn[r] = "setup"}
Started(sock, holders) ==
  [state |-> "M2", sock |-> sock, slot |-> First(EmptyLocs), timer |-> TRUE,
   ptrs |-> holders]

\* Slip: M1 does not ask whether the accessory is paired.
SetupStart_Paired(s) ==
  /\ pc = "idle" /\ conn[s] = "plain"
  /\ setup.state = "none" /\ attempts < MaxAttempts /\ EmptyLocs # {}
  /\ setup' = Started(s, {s})
  /\ conn' = [conn EXCEPT ![s] = "setup"]
  /\ UNCHANGED <<ctrl, nvs, sess, table, attempts, closing, pc, reset, bounds>>

\* Slip: one attempt too many.
SetupStart_OneMore(s) ==
  /\ pc = "idle" /\ conn[s] = "plain"
  /\ setup.state = "none" /\ ~is_accessory_paired /\ attempts <= MaxAttempts
  /\ setup' = Started(s, {s})
  /\ conn' = [conn EXCEPT ![s] = "setup"]
  /\ UNCHANGED <<ctrl, nvs, sess, table, attempts, closing, pc, reset, bounds>>

MayStart == ~is_accessory_paired /\ attempts < MaxAttempts

\* M1 on a connection without a session context.  It is refused while another
\* pair-setup exists (Busy), when a controller is paired (Unavailable) and
\* after MaxAttempts.
SetupStart(s) ==
  /\ pc = "idle" /\ conn[s] = "plain"
  /\ setup.state = "none" /\ MayStart /\ EmptyLocs # {}
  /\ \E others \in SUBSET Dangling : setup' = Started(s, {s} \cup others)
  /\ conn' = [conn EXCEPT ![s] = "setup"]
  /\ UNCHANGED <<ctrl, nvs, sess, table, attempts, closing, pc, reset, bounds>>

\* An error frees the static context and clears the session context.
SetupFails(s) ==
  /\ setup' = NoSetup
  /\ conn' = [conn EXCEPT ![s] = "plain"]

\* Slip: the new context has no timer.
SetupRestart_NoTimer(s) ==
  /\ pc = "idle" /\ conn[s] = "setup" /\ s \in setup.ptrs /\ again < MaxAgain
  /\ again' = again + 1
  /\ setup' = [setup EXCEPT !.state = "M2", !.timer = FALSE]
  /\ UNCHANGED <<ctrl, nvs, conn, sess, table, lost, attempts, closing, pc, reset,
                 stale, fails, boots, strays>>

\* M1 while in progress: the context is freed and a new one allocated and
\* started, or refused.  The session context of the connection keeps the old
\* pointer, which is right again only if the allocator returns the same block.
SetupRestart(s) ==
  /\ pc = "idle" /\ conn[s] = "setup" /\ s \in setup.ptrs /\ again < MaxAgain
  /\ again' = again + 1
  /\ \/ /\ MayStart
        /\ \E holders \in SUBSET Dangling : setup' = Started(setup.sock, holders)
        /\ UNCHANGED conn
     \/ SetupFails(s)
  /\ UNCHANGED <<ctrl, nvs, sess, table, lost, attempts, closing, pc, reset,
                 stale, fails, boots, strays>>

\* M3: every try counts; a wrong proof ends pair-setup.
SetupVerify(s, good) ==
  /\ pc = "idle" /\ conn[s] = "setup" /\ s \in setup.ptrs /\ setup.state = "M2"
  /\ attempts' = (attempts + 1) % 256
  /\ \/ good /\ setup' = [setup EXCEPT !.state = "M4"] /\ UNCHANGED conn
     \/ ~good /\ SetupFails(s)
  /\ UNCHANGED <<ctrl, nvs, sess, table, closing, pc, reset, bounds>>

\* M5: the controller is stored as an administrator in the slot that was
\* chosen at M1, and the context is freed; or the exchange fails.
SetupExchange(s, id) ==
  /\ pc = "idle" /\ conn[s] = "setup" /\ s \in setup.ptrs /\ setup.state = "M4"
  /\ \/ /\ hap_controller_save(setup.slot, Paired(id, 1))
        /\ attempts' = 0
     \/ UNCHANGED <<ctrl, nvs, stale, fails, attempts>>
  /\ SetupFails(s)
  /\ UNCHANGED <<sess, table, lost, closing, pc, reset, boots, again, strays>>

\* The session context of s is not the pair-setup context the handler takes it
\* for.  A session that is no longer live refuses to read a request.
Stray(s) ==
  /\ pc = "idle" /\ strays < MaxStrays
  /\ \/ conn[s] \in {"pv0", "pv2"}
     \/ conn[s] = "secure" /\ sess[s].live
     \/ conn[s] = "setup" /\ s \notin setup.ptrs

\* A stray M1 finds a state other than M0: it frees the static context, of
\* whichever connection, and starts another for the socket it reads beyond the
\* one it was given.  No session context points to it but by chance.
StrayRestart(s) ==
  /\ Stray(s) /\ conn[s] # "pv0" /\ MayStart
  /\ strays' = strays + 1
  /\ \E sock \in Socks \cup {NoSock}, holders \in SUBSET Dangling :
       setup' = Started(sock, holders)
  /\ UNCHANGED <<ctrl, nvs, conn, sess, table, lost, attempts, closing, pc, reset,
                 stale, fails, boots, again>>

\* Any other is answered with an error, after counting a try where it read M2.
\* The static context is freed; what the connection had is dropped and not
\* freed, so a session keeps its entry of hap_priv.sessions.
StrayFails(s) ==
  /\ Stray(s) /\ (conn[s] = "pv0" => ~MayStart)
  /\ strays' = strays + 1
  /\ attempts' \in {attempts} \cup
       {n \in {(attempts + 1) % 256} : conn[s] \in {"pv2", "setup"}}
  /\ SetupFails(s)
  /\ sess' = [sess EXCEPT ![s] = NoSession]
  /\ table' = [e \in Entries |-> IF table[e] = s THEN NoSock ELSE table[e]]
  /\ lost' = [e \in Entries |-> IF table[e] = s
                                THEN [slot |-> sess[s].slot, sock |-> s]
                                ELSE lost[e]]
  /\ UNCHANGED <<ctrl, nvs, closing, pc, reset, stale, fails, boots, again>>

\* M1 fills in a pair-verify context in M0 as if it were a pair-setup context;
\* an M3 or M5 runs SRP on one in M2; a freed one can be written as any.
StrayBreaks(s) ==
  /\ Stray(s) /\ conn[s] # "secure" /\ (conn[s] = "pv0" => MayStart)
  /\ strays' = strays + 1
  /\ pc' = "broken"
  /\ UNCHANGED <<ctrl, nvs, conn, sess, table, lost, setup, attempts, closing,
                 reset, stale, fails, boots, again>>

Broken == pc = "broken" /\ UNCHANGED vars

\* hap_pair_setup_timeout(), in the timer task.
SetupTimeout ==
  /\ setup.state # "none" /\ setup.timer
  /\ setup' = [setup EXCEPT !.timer = FALSE]
  /\ closing' = closing \cup ({setup.sock} \cap Open)
  /\ UNCHANGED <<ctrl, nvs, conn, sess, table, attempts, pc, reset, bounds>>

-----------------------------------------------------------------------------
(* hap_reset_pairings() in the main loop, and restarts *)

ResetAsk ==
  /\ reset = "none"
  /\ reset' = "asked"
  /\ UNCHANGED <<ctrl, nvs, conn, sess, table, setup, attempts, closing, pc, bounds>>

\* After a second: hap_close_all_sessions().  A session that is not bound
\* yet has conn_identifier 0, which is not a socket of the server.
ResetClose ==
  /\ reset = "asked"
  /\ closing' = closing
       \cup {s \in Socks : Registered(s) /\ sess[s].bound}
       \cup {s \in Open : \E e \in Entries : lost[e].sock = s}
  /\ reset' = "closed"
  /\ UNCHANGED <<ctrl, nvs, conn, sess, table, setup, attempts, pc, bounds>>

\* Two seconds later (hap_mdns_deannounce): the namespace is erased.
ResetErase ==
  /\ reset = "closed"
  /\ reset' = "erased"
  /\ \/ /\ nvs' = [i \in Slots |-> Empty]
        /\ UNCHANGED fails
     \/ /\ fails < MaxFails
        /\ fails' = fails + 1
        /\ UNCHANGED nvs
  /\ UNCHANGED <<ctrl, conn, sess, table, lost, setup, attempts, closing, pc,
                 stale, boots, again, strays>>

Volatile ==
  /\ boots < MaxBoots
  /\ boots' = boots + 1
  /\ conn' = [s \in Socks |-> "closed"]
  /\ sess' = [s \in Socks |-> NoSession]
  /\ table' = [e \in Entries |-> NoSock]
  /\ lost' = [e \in Entries |-> NoLost]
  /\ setup' = NoSetup
  /\ attempts' = 0
  /\ closing' = {}
  /\ pc' = "idle" /\ reset' = "none"
  /\ stale' = {} /\ strays' = 0
  /\ UNCHANGED <<fails, again>>

\* esp_restart() or power loss at any step: hap_controllers_init() loads the
\* records the keystore holds.
Boot ==
  /\ Volatile
  /\ ctrl' = nvs
  /\ UNCHANGED nvs

\* The SAMD21's factory reset: the runtime partition is erased, then restart.
FactoryReset ==
  /\ Volatile
  /\ nvs' = [i \in Slots |-> Empty]
  /\ ctrl' = nvs'

-----------------------------------------------------------------------------
SockStep(s) ==
  \/ Accept(s) \/ PeerClose(s) \/ ProcessClose(s)
  \/ \E good \in BOOLEAN : VerifyStart(s, good)
  \/ \E id \in Ids : VerifyFinish(s, id)
  \/ VerifyBind(s) \/ SessionError(s)
  \/ \E id \in Ids, p \in Perms : PairAdd(s, id, p)
  \/ \E id \in Ids : PairRemove(s, id)
  \/ SetupStart(s) \/ SetupRestart(s)
  \/ \E good \in BOOLEAN : SetupVerify(s, good)
  \/ \E id \in Ids : SetupExchange(s, id)
  \/ StrayRestart(s) \/ StrayFails(s) \/ StrayBreaks(s)

Next ==
  \/ \E s \in Socks : SockStep(s)
  \/ PurgeOne \/ SetupTimeout
  \/ ResetAsk \/ ResetClose \/ ResetErase
  \/ Boot \/ FactoryReset \/ Broken

Spec == Init /\ [][Next]_vars

-----------------------------------------------------------------------------
(* Properties *)

\* While a pair-setup is past M1 nobody is paired: the check of M1 still holds
\* when M5 stores the controller, whatever was added or removed in between and
\* whichever context a request was handled with.
SetupExclusive == setup.state # "none" => Valid(ctrl) = {}

\* The static context belongs to the one connection that will free it, and a
\* connection in pair-setup has a context: no abandoned pair-setup can answer
\* Busy for ever.  A stray request can take it away from its connection.
SetupOwned ==
  strays = 0 =>
    /\ setup.state # "none" => conn[setup.sock] = "setup"
    /\ \A s \in Socks : conn[s] = "setup" => setup.state # "none" /\ setup.sock = s

\* A pair-setup past M1 is going to end whatever its peer does: its timer runs,
\* or the close of its connection, which frees the context, is queued.  So the
\* one static context cannot answer Busy for ever, also after a restart of the
\* exchange and when a socket number was closed and taken again; but one that a
\* stray request started has the socket of nobody.
SetupEnds ==
  strays = 0 /\ setup.state # "none" => setup.timer \/ setup.sock \in closing

\* The uint8_t counter stops at the limit: it can neither pass it nor wrap,
\* unless a stray M3 counts a try that no M1 allowed.
AttemptsBounded == strays = 0 => attempts <= MaxAttempts

\* One pair-setup at a time, of a connection that will free it, with nobody
\* paired, that is going to end, and in a limited number of tries.
SetupSound ==
  pc # "broken" => SetupExclusive /\ SetupOwned /\ SetupEnds /\ AttemptsBounded

\* Every entry of hap_priv.sessions is the session of a connection that is
\* open and verified, but for those that stray requests left behind, and no
\* session has two entries (two notification bits) or both kinds.
SessionTableSound ==
  /\ \A e \in Entries : table[e] # NoSock => conn[table[e]] = "secure"
  /\ \A e, f \in Entries : table[e] = table[f] /\ table[e] # NoSock => e = f
  /\ \A e \in Entries :
       lost[e].sock # NoSock => strays # 0 /\ table[e] = NoSock

\* The record the session points to is no longer its controller's.
Orphaned(s) ==
  /\ conn[s] = "secure"
  /\ ~ctrl[sess[s].slot].valid \/ ctrl[sess[s].slot].id # sess[s].who

\* A registered session outlives its controller's record only until httpd
\* takes the close that the removal queued, even if the slot is reused.
OrphansClosing == \A s \in Socks : Registered(s) /\ Orphaned(s) => s \in closing

\* The keystore holds what RAM holds, except in slots whose last keystore
\* operation failed and between the erase of a reset and its restart.
KeystoreMirrorsRam ==
  reset # "erased" => \A i \in Slots \ stale : nvs[i] = ctrl[i]

\* As long as the keystore works no controller has two records, in RAM or
\* after any restart.
UniqueIds ==
  fails = 0 => \A i, j \in Valid(ctrl) : ctrl[i].id = ctrl[j].id => i = j

\* The table of sessions, the table of controllers and the keystore agree with
\* the connections and with one another.
TablesSound ==
  pc # "broken" =>
    SessionTableSound /\ OrphansClosing /\ KeystoreMirrorsRam /\ UniqueIds

\* A paired controller's record is never overwritten by another controller's:
\* it has to be removed first (or the accessory restarted).
NoOverwrite ==
  [][boots' = boots =>
       \A i \in Valid(ctrl) : ctrl'[i].valid => ctrl'[i].id = ctrl[i].id]_vars

-----------------------------------------------------------------------------
(* The pairing database it implements, as long as the keystore works *)

Pairings(c) == {[id |-> c[i].id, perms |-> c[i].perms] : i \in Valid(c)}

Store == INSTANCE PairingStore WITH paired <- Pairings(ctrl), durable <- Pairings(nvs)

\* Slots, sessions, timers, handlers that take several steps and restarts in
\* their middle implement the pairing database, up to the first keystore
\* operation that fails.
ImplementsStore == Store!Init /\ [][fails' = 0 => Store!Next]_(Store!vars)
=============================================================================
