-------------------------- MODULE HapPairing_proofs --------------------------
(***************************************************************************)
(* Proofs about HapPairing, for every number of slots, sessions, sockets,  *)
(* controllers, failures and restarts.  The inductive invariants are built *)
(* in layers; a later one uses those above it:                             *)
(*   TypeInv      types, and what First() and setup.sock rely on;          *)
(*   SetupOwned, AttemptsInv   the pair-setup context and its counter,     *)
(*                until the first stray request;                           *)
(*   CtrlInv      the records of the controllers (RecordsValid) and the    *)
(*                pair-setup in progress;                                  *)
(*   KeyInv       the keystore against the RAM table;                      *)
(*   SessionTableSound, OrphansClosing   sessions and their controllers.   *)
(***************************************************************************)
EXTENDS HapPairing, TLAPS, WellFoundedInduction

\* The helper First() of the model: the search loops of the code return the
\* lowest index that qualifies.
LEMMA FirstIsLeast ==
  ASSUME NEW S, S \subseteq Nat, S # {}
  PROVE  First(S) \in S /\ \A j \in S : First(S) <= j
<1> DEFINE Less == {p \in Nat \X Nat : p[1] < p[2]}
<1>1. Less = OpToRel(<, Nat)
  BY Zenon DEF OpToRel
<1>2. IsWellFoundedOn(Less, Nat)
  BY <1>1, NatLessThanWellFounded, Zenon
<1>3. PICK i \in S : \A j \in S : ~(<<j, i>> \in Less)
  BY <1>2, WFMin, Zenon
<1>4. \A j \in Nat : j < i => <<j, i>> \in Less
  OBVIOUS
<1> HIDE DEF Less
<1>5. \A j \in S : ~(j < i)
  BY <1>3, <1>4, Zenon
<1>6. \A j \in S : i <= j
  BY <1>5
<1> QED
  BY <1>6 DEF First

\* A search over controller slots or session entries finds one of them.
LEMMA FirstSlot ==
  ASSUME NEW S, S \subseteq Slots \/ S \subseteq Entries, S # {}
  PROVE  First(S) \in S
<1>1. S \subseteq Nat
  BY PairingAssumption DEF Slots, Entries
<1> QED
  BY <1>1, FirstIsLeast

-----------------------------------------------------------------------------
(* Types *)

\* Until the first stray request a pair-setup context knows the socket whose
\* close frees it; and who points to the context points to one that exists.
SetupSock ==
  /\ strays = 0 /\ setup.state # "none" => setup.sock \in Socks
  /\ setup.ptrs # {} => setup.state # "none"

\* While the handler is removing the remaining controllers there is one.
PurgeBusy == pc = "purge" => Valid(ctrl) # {}

TypeInv == TypeOK /\ SetupSock /\ PurgeBusy

\* The values of zeroed records.
LEMMA ZeroTypes ==
  /\ Empty \in Record
  /\ NoSession \in Session
  /\ NoLost \in Lost /\ NoLost.sock = NoSock
  /\ NoSetup \in SetupCtx /\ NoSetup.state = "none" /\ NoSetup.ptrs = {}
<1>1. 1 \in Slots
  BY PairingAssumption DEF Slots
<1>2. Empty \in Record
  BY DEF Empty, Record, Perms
<1>3. NoSession \in Session
  BY <1>1 DEF NoSession, Session
<1>4. NoSetup \in SetupCtx /\ NoSetup.state = "none" /\ NoSetup.ptrs = {}
  BY <1>1 DEF NoSetup, SetupCtx
<1>5. NoLost \in Lost /\ NoLost.sock = NoSock
  BY <1>1 DEF NoLost, Lost
<1> QED
  BY <1>2, <1>3, <1>4, <1>5

\* A started context has its type, the socket it was given and a running timer.
LEMMA StartedType ==
  ASSUME NEW sock \in Socks \cup {NoSock}, NEW holders \in SUBSET Socks,
         MayStart \/ EmptyLocs # {}
  PROVE  /\ Started(sock, holders) \in SetupCtx
         /\ Started(sock, holders).state = "M2"
         /\ Started(sock, holders).sock = sock
         /\ Started(sock, holders).timer = TRUE
<1>1. EmptyLocs # {}
  BY PairingAssumption DEF MayStart, is_accessory_paired, EmptyLocs, Slots
<1>2. First(EmptyLocs) \in Slots
  BY <1>1, FirstSlot DEF EmptyLocs
<1> QED
  BY <1>2 DEF Started, SetupCtx

\* Those who may hold the new context are connections.
LEMMA DanglingType == Dangling \subseteq Socks
BY DEF Dangling

\* A keystore operation keeps the types whether or not it fails.
LEMMA KeystoreType ==
  ASSUME TypeOK, NEW i \in Slots, NEW rec \in Record, Keystore(i, rec)
  PROVE  /\ nvs' \in [Slots -> Record]
         /\ stale' \in SUBSET Slots
         /\ fails' \in 0..MaxFails
BY PairingAssumption DEF TypeOK, Keystore

LEMMA TypeInit == Init => TypeInv
BY PairingAssumption, ZeroTypes DEF Init, TypeInv, TypeOK, SetupSock, PurgeBusy, Kinds

\* hap_free_session() and its siblings keep the types.
LEMMA FreeCtxType ==
  ASSUME TypeInv, NEW s \in Socks, FreeCtx(s), UNCHANGED strays
  PROVE  /\ conn' \in [Socks -> Kinds]
         /\ sess' \in [Socks -> Session]
         /\ table' \in [Entries -> Socks \cup {NoSock}]
         /\ setup' \in SetupCtx
         /\ SetupSock'
BY ZeroTypes DEF TypeInv, TypeOK, SetupSock, FreeCtx, Kinds

LEMMA TypeStep == TypeInv /\ [Next]_vars => TypeInv'
<1> SUFFICES ASSUME TypeInv, [Next]_vars PROVE TypeInv'
  OBVIOUS
<1> USE DEF TypeInv
<1>0. CASE UNCHANGED vars
  BY <1>0 DEF vars, TypeOK, SetupSock, PurgeBusy, Valid
<1>1. ASSUME NEW s \in Socks, Accept(s) PROVE TypeInv'
  BY <1>1 DEF Accept, bounds, TypeOK, SetupSock, PurgeBusy, Valid, Kinds
<1>2. ASSUME NEW s \in Socks, PeerClose(s) PROVE TypeInv'
  BY <1>2, FreeCtxType DEF PeerClose, bounds, TypeOK, PurgeBusy, Valid
<1>3. ASSUME NEW s \in Socks, ProcessClose(s) PROVE TypeInv'
  BY <1>3, FreeCtxType DEF ProcessClose, bounds, TypeOK, SetupSock, PurgeBusy, Valid
<1>4. ASSUME NEW s \in Socks, NEW good \in BOOLEAN, VerifyStart(s, good) PROVE TypeInv'
  BY <1>4 DEF VerifyStart, bounds, TypeOK, SetupSock, PurgeBusy, Valid, Kinds
<1>5. ASSUME NEW s \in Socks, NEW id \in Ids, VerifyFinish(s, id) PROVE TypeInv'
  <2>1. First(SlotsOf(id)) \in Slots
    BY <1>5, FirstSlot DEF VerifyFinish, SlotsOf, Valid
  <2>2. FreeEntries # {} => First(FreeEntries) \in Entries
    BY FirstSlot DEF FreeEntries
  <2> QED
    BY <1>5, <2>1, <2>2 DEF VerifyFinish, bounds, TypeOK, SetupSock, PurgeBusy,
      Valid, Kinds, Session
<1>6. ASSUME NEW s \in Socks, VerifyBind(s) PROVE TypeInv'
  BY <1>6 DEF VerifyBind, bounds, TypeOK, SetupSock, PurgeBusy, Session
<1>7. ASSUME NEW s \in Socks, SessionError(s) PROVE TypeInv'
  BY <1>7 DEF SessionError, bounds, TypeOK, SetupSock, PurgeBusy, Session
<1>8. ASSUME NEW s \in Socks, NEW id \in Ids, NEW p \in Perms, PairAdd(s, id, p)
      PROVE  TypeInv'
  <2>1. PICK i \in Slots : hap_controller_save(i, Paired(id, p))
    BY <1>8, FirstSlot DEF PairAdd, SlotsOf, EmptyLocs, Valid
  <2>2. Paired(id, p) \in Record
    BY DEF Paired, Record, Perms
  <2> QED
    BY <1>8, <2>1, <2>2, KeystoreType DEF PairAdd, hap_controller_save, TypeOK,
      SetupSock, PurgeBusy
<1>9. ASSUME NEW s \in Socks, NEW id \in Ids, PairRemove(s, id) PROVE TypeInv'
  <2> DEFINE i == First(SlotsOf(id))
  <2>1. i \in Slots
    BY <1>9, FirstSlot DEF PairRemove, SlotsOf, Valid
  <2>2. Empty \in Record
    BY ZeroTypes
  <2>3. closing' \in SUBSET Socks
    BY <1>9 DEF PairRemove, SessionsOf, Open, TypeOK
  <2>4. ctrl' \in [Slots -> Record]
    BY <1>9, <2>1, <2>2 DEF PairRemove, hap_controller_remove, TypeOK
  <2> QED
    BY <1>9, <2>1, <2>2, <2>3, <2>4, KeystoreType DEF PairRemove,
      hap_controller_remove, TypeOK, SetupSock, PurgeBusy
<1>10. CASE PurgeOne
  <2> DEFINE i == First(Valid(ctrl))
  <2>1. i \in Slots
    BY <1>10, FirstSlot DEF PurgeOne, PurgeBusy, Valid
  <2>2. Empty \in Record
    BY ZeroTypes
  <2>3. closing' \in SUBSET Socks
    BY <1>10 DEF PurgeOne, SessionsOf, Open, TypeOK
  <2>4. ctrl' \in [Slots -> Record]
    BY <1>10, <2>1, <2>2 DEF PurgeOne, hap_controller_remove, TypeOK
  <2> QED
    BY <1>10, <2>1, <2>2, <2>3, <2>4, KeystoreType DEF PurgeOne,
      hap_controller_remove, TypeOK, SetupSock, PurgeBusy
<1>11. ASSUME NEW s \in Socks, SetupStart(s) PROVE TypeInv'
  <2>1. PICK others \in SUBSET Dangling : setup' = Started(s, {s} \cup others)
    BY <1>11 DEF SetupStart
  <2>2. setup' \in SetupCtx /\ setup'.sock \in Socks /\ setup'.state = "M2"
    <3>1. {s} \cup others \in SUBSET Socks
      BY DanglingType
    <3> QED
      BY <1>11, <2>1, <3>1, StartedType DEF SetupStart
  <2> QED
    BY <1>11, <2>2 DEF SetupStart, bounds, TypeOK, SetupSock, PurgeBusy, Valid, Kinds
<1>12. ASSUME NEW s \in Socks, SetupRestart(s) PROVE TypeInv'
  <2>2. again' \in 0..MaxAgain
    BY <1>12, PairingAssumption DEF SetupRestart, TypeOK
  <2>3. conn' \in [Socks -> Kinds]
    BY <1>12 DEF SetupRestart, SetupFails, TypeOK, Kinds
  <2>4. setup' \in SetupCtx /\ SetupSock'
    <3>1. CASE setup' = NoSetup
      BY <3>1, ZeroTypes DEF SetupSock
    <3>2. ASSUME NEW holders \in SUBSET Dangling, MayStart,
                 setup' = Started(setup.sock, holders)
          PROVE  setup' \in SetupCtx /\ SetupSock'
      <4>1. setup.sock \in Socks \cup {NoSock} /\ holders \in SUBSET Socks
        BY DanglingType DEF TypeOK, SetupCtx
      <4>2. setup' \in SetupCtx /\ setup'.sock = setup.sock /\ setup'.state = "M2"
        BY <3>2, <4>1, StartedType
      <4>3. setup.state # "none"
        BY <1>12 DEF SetupRestart, SetupSock
      <4> QED
        BY <1>12, <4>2, <4>3 DEF SetupSock, SetupRestart
    <3> QED
      BY <1>12, <3>1, <3>2, Zenon DEF SetupRestart, SetupFails
  <2> QED
    BY <1>12, <2>2, <2>3, <2>4 DEF SetupRestart, TypeOK, PurgeBusy, Valid
<1>13. ASSUME NEW s \in Socks, NEW good \in BOOLEAN, SetupVerify(s, good) PROVE TypeInv'
  <2>1. attempts' \in 0..255
    BY <1>13 DEF SetupVerify, TypeOK
  <2>2. conn' \in [Socks -> Kinds]
    BY <1>13 DEF SetupVerify, SetupFails, TypeOK, Kinds
  <2>3. setup' \in SetupCtx /\ SetupSock'
    BY <1>13, ZeroTypes DEF SetupVerify, SetupFails, TypeOK, SetupSock, SetupCtx, bounds
  <2> QED
    BY <1>13, <2>1, <2>2, <2>3 DEF SetupVerify, bounds, TypeOK, PurgeBusy, Valid
<1>14. ASSUME NEW s \in Socks, NEW id \in Ids, SetupExchange(s, id) PROVE TypeInv'
  <2>1. Paired(id, 1) \in Record /\ setup.slot \in Slots
    BY DEF Paired, Record, Perms, TypeOK, SetupCtx
  <2>2. /\ ctrl' \in [Slots -> Record] /\ nvs' \in [Slots -> Record]
        /\ stale' \in SUBSET Slots /\ fails' \in 0..MaxFails
        /\ attempts' \in 0..255
    BY <1>14, <2>1, KeystoreType DEF SetupExchange, hap_controller_save, TypeOK
  <2> QED
    BY <1>14, <2>2, ZeroTypes DEF SetupExchange, SetupFails, TypeOK, SetupSock,
      PurgeBusy, Kinds
<1>15. ASSUME NEW s \in Socks, StrayRestart(s) \/ StrayFails(s) \/ StrayBreaks(s)
       PROVE  TypeInv'
  <2>1. strays' \in 0..MaxStrays /\ strays' # 0
    BY <1>15, PairingAssumption DEF StrayRestart, StrayFails, StrayBreaks, Stray, TypeOK
  <2>2. CASE StrayRestart(s)
    <3>1. PICK sock \in Socks \cup {NoSock}, holders \in SUBSET Dangling :
            setup' = Started(sock, holders)
      BY <2>2 DEF StrayRestart
    <3>2. setup' \in SetupCtx /\ setup'.state = "M2"
      BY <2>2, <3>1, DanglingType, StartedType DEF StrayRestart
    <3> QED
      BY <2>1, <2>2, <3>2 DEF StrayRestart, TypeOK, SetupSock, PurgeBusy, Valid
  <2>3. CASE StrayFails(s)
    <3>1. attempts' \in 0..255
      BY <2>3 DEF StrayFails, TypeOK
    <3>2. conn' \in [Socks -> Kinds] /\ sess' \in [Socks -> Session]
      BY <2>3, ZeroTypes DEF StrayFails, SetupFails, TypeOK, Kinds
    <3>3. table' \in [Entries -> Socks \cup {NoSock}]
      BY <2>3 DEF StrayFails, TypeOK
    <3>4. lost' \in [Entries -> Lost]
      <4>1. [slot |-> sess[s].slot, sock |-> s] \in Lost
        BY DEF TypeOK, Session, Lost
      <4> QED
        BY <2>3, <4>1 DEF StrayFails, TypeOK
    <3>5. setup' \in SetupCtx /\ SetupSock'
      BY <2>3, ZeroTypes DEF StrayFails, SetupFails, SetupSock
    <3> QED
      BY <2>1, <2>3, <3>1, <3>2, <3>3, <3>4, <3>5
      DEF StrayFails, TypeOK, PurgeBusy, Valid
  <2>4. CASE StrayBreaks(s)
    BY <2>1, <2>4 DEF StrayBreaks, TypeOK, SetupSock, PurgeBusy
  <2> QED
    BY <1>15, <2>2, <2>3, <2>4
<1>16. CASE SetupTimeout
  BY <1>16 DEF SetupTimeout, bounds, TypeOK, SetupSock, PurgeBusy, Valid, SetupCtx, Open
<1>17. CASE ResetAsk
  BY <1>17 DEF ResetAsk, bounds, TypeOK, SetupSock, PurgeBusy, Valid
<1>18. CASE ResetClose
  BY <1>18 DEF ResetClose, bounds, TypeOK, SetupSock, PurgeBusy, Valid, Open
<1>19. CASE ResetErase
  BY <1>19, ZeroTypes, PairingAssumption DEF ResetErase, TypeOK, SetupSock, PurgeBusy, Valid
<1>20. CASE Boot
  BY <1>20, ZeroTypes, PairingAssumption DEF Boot, Volatile, TypeOK, SetupSock, PurgeBusy, Kinds
<1>21. CASE FactoryReset
  BY <1>21, ZeroTypes, PairingAssumption DEF FactoryReset, Volatile, TypeOK, SetupSock, PurgeBusy, Kinds
<1> QED
  BY <1>0, <1>1, <1>2, <1>3, <1>4, <1>5, <1>6, <1>7, <1>8, <1>9, <1>10, <1>11,
     <1>12, <1>13, <1>14, <1>15, <1>16, <1>17, <1>18, <1>19, <1>20, <1>21
  DEF Next, SockStep, Broken

\* The tables, sessions, contexts and counters keep their types whatever the
\* actors do.
THEOREM TypeCorrect == Spec => []TypeOK
<1>1. TypeInv => TypeOK
  BY DEF TypeInv
<1> QED
  BY TypeInit, TypeStep, <1>1, PTL DEF Spec

-----------------------------------------------------------------------------
(* The pair-setup context *)

\* A context that awaits a proof was started below the limit of attempts.
AttemptsInv ==
  /\ AttemptsBounded
  /\ strays = 0 /\ setup.state = "M2" => attempts < MaxAttempts

\* A stray request is counted.
StrayStep(s) == StrayRestart(s) \/ StrayFails(s) \/ StrayBreaks(s)

LEMMA StrayCounted ==
  ASSUME TypeInv, NEW s \in Socks, StrayStep(s) PROVE strays' # 0
BY DEF TypeInv, TypeOK, StrayStep, StrayRestart, StrayFails, StrayBreaks

\* Any other step leaves the count alone or is a restart, which clears it.
LEMMA StraysKept ==
  ASSUME TypeInv, [Next]_vars
  PROVE  (\E s \in Socks : StrayStep(s)) \/ Volatile \/ UNCHANGED strays
BY Zenon DEF StrayStep, Next, SockStep, vars, bounds, Accept, PeerClose, ProcessClose,
  VerifyStart, VerifyFinish, VerifyBind, SessionError, PairAdd, PairRemove, PurgeOne,
  SetupStart, SetupRestart, SetupVerify, SetupExchange, SetupTimeout, ResetAsk,
  ResetClose, ResetErase, Boot, FactoryReset, Broken

\* What holds until the first stray request has to be kept by the other steps
\* only, and by a restart.
LEMMA NoStray ==
  ASSUME TypeInv, [Next]_vars, strays' = 0
  PROVE  Volatile \/ (strays = 0 /\ \A s \in Socks : ~StrayStep(s))
<1>1. \A s \in Socks : ~StrayStep(s)
  BY StrayCounted, Zenon
<1> QED
  BY <1>1, StraysKept, Zenon

LEMMA OwnedStep == TypeInv /\ SetupOwned /\ [Next]_vars => SetupOwned'
<1> SUFFICES ASSUME TypeInv, SetupOwned, [Next]_vars, strays' = 0 PROVE SetupOwned'
  BY Zenon DEF SetupOwned
<1>0. Volatile \/ (strays = 0 /\ \A s \in Socks : ~StrayStep(s))
  BY NoStray
<1>11. CASE Volatile
  BY <1>11, ZeroTypes DEF Volatile, SetupOwned
<1>12. CASE strays = 0 /\ \A s \in Socks : ~StrayStep(s)
  <2> USE <1>12 DEF TypeInv, TypeOK, SetupSock, SetupOwned
  <2>1. CASE UNCHANGED <<conn, setup>>
    BY <2>1
  <2>2. ASSUME NEW s \in Socks, Accept(s) PROVE SetupOwned'
    BY <2>2 DEF Accept
  <2>3. ASSUME NEW s \in Socks, FreeCtx(s) PROVE SetupOwned'
    BY <2>3, ZeroTypes DEF FreeCtx
  <2>4. ASSUME NEW s \in Socks, NEW good \in BOOLEAN, VerifyStart(s, good)
        PROVE  SetupOwned'
    BY <2>4 DEF VerifyStart
  <2>5. ASSUME NEW s \in Socks, NEW id \in Ids, VerifyFinish(s, id) PROVE SetupOwned'
    BY <2>5 DEF VerifyFinish
  <2>6. ASSUME NEW s \in Socks, SetupStart(s) PROVE SetupOwned'
    <3>1. PICK others \in SUBSET Dangling : setup' = Started(s, {s} \cup others)
      BY <2>6 DEF SetupStart
    <3>2. setup'.sock = s /\ setup'.state = "M2"
      BY <3>1 DEF Started
    <3> QED
      BY <2>6, <3>2 DEF SetupStart
  <2>7. ASSUME NEW s \in Socks, conn[s] = "setup", SetupFails(s) PROVE SetupOwned'
    BY <2>7, ZeroTypes DEF SetupFails
  <2>8. ASSUME NEW s \in Socks, SetupRestart(s) PROVE SetupOwned'
    <3>1. ASSUME NEW holders \in SUBSET Dangling, MayStart, UNCHANGED conn,
                 setup' = Started(setup.sock, holders)
          PROVE  SetupOwned'
      <4>1. setup'.sock = setup.sock /\ setup'.state = "M2"
        BY <3>1 DEF Started
      <4>2. setup.state # "none"
        BY <2>8 DEF SetupRestart
      <4> QED
        BY <3>1, <4>1, <4>2
    <3> QED
      BY <2>7, <2>8, <3>1, Zenon DEF SetupRestart
  <2>9. ASSUME NEW s \in Socks, NEW good \in BOOLEAN, SetupVerify(s, good)
        PROVE  SetupOwned'
    BY <2>9, <2>7 DEF SetupVerify, SetupCtx
  <2>10. CASE SetupTimeout
    BY <2>10 DEF SetupTimeout, SetupCtx
  <2>11. ASSUME NEW s \in Socks, NEW id \in Ids, SetupExchange(s, id) PROVE SetupOwned'
    BY <2>7, <2>11, Zenon DEF SetupExchange
  <2>12. CASE Volatile
    BY <1>11, <2>12
  <2> QED
    BY <2>1, <2>2, <2>3, <2>4, <2>5, <2>6, <2>8, <2>9, <2>10, <2>11, <2>12, Zenon
    DEF StrayStep, Next, SockStep, vars, PeerClose, ProcessClose, VerifyBind,
      SessionError, PairAdd, PairRemove, PurgeOne, ResetAsk, ResetClose,
      ResetErase, Boot, FactoryReset, Broken
<1> QED
  BY <1>0, <1>11, <1>12

\* Below the limit the uint8_t increment does not wrap.
LEMMA NoWrap == \A a \in 0..254 : (a + 1) % 256 = a + 1
OBVIOUS

LEMMA AttemptsStep ==
  TypeInv /\ AttemptsInv /\ [Next]_vars => AttemptsInv'
<1> SUFFICES ASSUME TypeInv, AttemptsInv, [Next]_vars, strays' = 0 PROVE AttemptsInv'
  BY Zenon DEF AttemptsInv, AttemptsBounded
<1>0. Volatile \/ (strays = 0 /\ \A s \in Socks : ~StrayStep(s))
  BY NoStray
<1>11. CASE Volatile
  BY <1>11, ZeroTypes, PairingAssumption DEF Volatile, AttemptsInv, AttemptsBounded
<1>12. CASE strays = 0 /\ \A s \in Socks : ~StrayStep(s)
  <2> USE <1>12, PairingAssumption DEF TypeInv, TypeOK, AttemptsInv, AttemptsBounded
  <2>1. CASE UNCHANGED <<attempts, setup>>
    BY <2>1
  <2>2. CASE setup' = NoSetup /\ attempts' \in {attempts, 0}
    BY <2>2, ZeroTypes
  <2>3. ASSUME NEW s \in Socks, FreeCtx(s), UNCHANGED attempts PROVE AttemptsInv'
    BY <2>3, <2>1, <2>2 DEF FreeCtx
  <2>4. ASSUME NEW s \in Socks, SetupStart(s) PROVE AttemptsInv'
    BY <2>4 DEF SetupStart, MayStart
  <2>5. ASSUME NEW s \in Socks, SetupRestart(s) PROVE AttemptsInv'
    BY <2>5, <2>2 DEF SetupRestart, SetupFails, MayStart
  <2>6. ASSUME NEW s \in Socks, NEW good \in BOOLEAN, SetupVerify(s, good)
        PROVE  AttemptsInv'
    <3>1. attempts \in 0..254 /\ attempts < MaxAttempts /\ attempts' = (attempts + 1) % 256
      BY <2>6 DEF SetupVerify
    <3>2. attempts' = attempts + 1
      <4>1. (attempts + 1) % 256 = attempts + 1
        BY <3>1, NoWrap, Zenon
      <4> QED
        BY <3>1, <4>1, Zenon
    <3>3. attempts' <= MaxAttempts
      BY <3>1, <3>2
    <3>4. setup'.state # "M2"
      BY <2>6, ZeroTypes DEF SetupVerify, SetupFails, SetupCtx
    <3> QED
      BY <3>3, <3>4
  <2>7. CASE SetupTimeout
    BY <2>7 DEF SetupTimeout, SetupCtx
  <2>8. ASSUME NEW s \in Socks, NEW id \in Ids, SetupExchange(s, id) PROVE AttemptsInv'
    BY <2>8, <2>2 DEF SetupExchange, SetupFails
  <2>9. CASE Volatile
    BY <1>11, <2>9
  <2> QED
    BY <2>1, <2>3, <2>4, <2>5, <2>6, <2>7, <2>8, <2>9
    DEF StrayStep, Next, SockStep, vars, Accept, PeerClose, ProcessClose, VerifyStart,
      VerifyFinish, VerifyBind, SessionError, PairAdd, PairRemove, PurgeOne,
      ResetAsk, ResetClose, ResetErase, Boot, FactoryReset, Broken
<1> QED
  BY <1>0, <1>11, <1>12

LEMMA SetupInit == Init => SetupOwned /\ AttemptsInv
BY PairingAssumption, ZeroTypes DEF Init, SetupOwned, AttemptsInv, AttemptsBounded

\* Until the first stray request pair-setup's context belongs to the one
\* connection whose close frees it.
THEOREM SetupOwnedCorrect == Spec => []SetupOwned
BY TypeInit, TypeStep, SetupInit, OwnedStep, PTL DEF Spec

\* Until the first stray request the uint8_t counter of attempts never passes
\* its limit, whatever contexts are restarted or abandoned.
THEOREM AttemptsCorrect == Spec => []AttemptsBounded
<1>1. AttemptsInv => AttemptsBounded
  BY DEF AttemptsInv
<1> QED
  BY TypeInit, TypeStep, SetupInit, AttemptsStep, <1>1, PTL DEF Spec

LEMMA EndsStep ==
  TypeInv /\ SetupOwned /\ SetupEnds /\ [Next]_vars => SetupEnds'
<1> SUFFICES ASSUME TypeInv, SetupOwned, SetupEnds, [Next]_vars, strays' = 0
             PROVE  SetupEnds'
  BY Zenon DEF SetupEnds
<1>0. Volatile \/ (strays = 0 /\ \A s \in Socks : ~StrayStep(s))
  BY NoStray
<1>11. CASE Volatile
  BY <1>11, ZeroTypes DEF Volatile, SetupEnds
<1>12. CASE strays = 0 /\ \A s \in Socks : ~StrayStep(s)
  <2> USE <1>12 DEF TypeInv, TypeOK, SetupSock, SetupEnds
  <2>1. CASE UNCHANGED setup /\ closing \subseteq closing'
    BY <2>1
  <2>2. CASE setup' = NoSetup
    BY <2>2, ZeroTypes
  <2>3. ASSUME NEW s \in Socks, PeerClose(s) PROVE SetupEnds'
    BY <2>1, <2>2, <2>3 DEF PeerClose, FreeCtx
  <2>4. ASSUME NEW s \in Socks, ProcessClose(s) PROVE SetupEnds'
    <3>1. CASE conn[s] = "setup"
      BY <2>2, <2>4, <3>1 DEF ProcessClose, FreeCtx
    <3>2. CASE conn[s] # "setup"
      <4>1. setup.state # "none" => setup.sock # s
        BY <3>2 DEF SetupOwned
      <4>2. UNCHANGED setup /\ closing' = closing \ {s}
        BY <2>4, <3>2 DEF ProcessClose, FreeCtx
      <4> QED
        BY <4>1, <4>2
    <3> QED
      BY <3>1, <3>2
  <2>5. ASSUME NEW s \in Socks, SetupStart(s) PROVE SetupEnds'
    BY <2>5 DEF SetupStart, Started
  <2>6. ASSUME NEW s \in Socks, SetupRestart(s) PROVE SetupEnds'
    BY <2>2, <2>6 DEF SetupRestart, SetupFails, Started
  <2>7. ASSUME NEW s \in Socks, NEW good \in BOOLEAN, SetupVerify(s, good)
        PROVE  SetupEnds'
    BY <2>2, <2>7 DEF SetupVerify, SetupFails, SetupCtx
  <2>8. CASE SetupTimeout
    <3>1. setup.sock \in Socks /\ conn[setup.sock] = "setup"
      BY <2>8 DEF SetupTimeout, SetupOwned
    <3> QED
      BY <2>8, <3>1 DEF SetupTimeout, SetupCtx, Open
  <2>9. CASE Volatile
    BY <1>11, <2>9
  <2>10. ASSUME NEW s \in Socks, NEW id \in Ids, SetupExchange(s, id) PROVE SetupEnds'
    BY <2>2, <2>10 DEF SetupExchange, SetupFails
  <2> QED
    BY <2>1, <2>3, <2>4, <2>5, <2>6, <2>7, <2>8, <2>9, <2>10
    DEF StrayStep, Next, SockStep, vars, bounds, Accept, VerifyStart, VerifyFinish,
      VerifyBind, SessionError, PairAdd, PairRemove, PurgeOne, ResetAsk,
      ResetClose, ResetErase, Boot, FactoryReset, Broken
<1> QED
  BY <1>0, <1>11, <1>12

LEMMA EndsInit == Init => SetupEnds
BY ZeroTypes DEF Init, SetupEnds

\* Until the first stray request no pair-setup is left to its peer: a timer or a
\* queued close will end it, so the one static context is never busy for ever.
THEOREM SetupEndsCorrect == Spec => []SetupEnds
BY TypeInit, TypeStep, SetupInit, OwnedStep, EndsInit, EndsStep, PTL DEF Spec

-----------------------------------------------------------------------------
(* The records of controllers *)

\* A record that says administrator is a valid one, for hap_is_req_admin() reads
\* the permissions of a record without asking whether it is still in use; and a
\* valid one is a controller's.
RecordsValid ==
  \A i \in Slots : \A r \in {ctrl[i], nvs[i]} :
    /\ r.perms = 1 => r.valid
    /\ r.valid => r.id \in Ids

\* Slot i may take a record of id: it holds one, or nothing does and i is free.
MaySave(i, id) == i \in SlotsOf(id) \/ (SlotsOf(id) = {} /\ i \in EmptyLocs)

\* Add Pairing finds such a slot.
LEMMA AddSaves ==
  ASSUME NEW s \in Socks, NEW id \in Ids, NEW p \in Perms, PairAdd(s, id, p)
  PROVE  \E i \in Slots : MaySave(i, id) /\ hap_controller_save(i, Paired(id, p))
BY FirstSlot DEF PairAdd, MaySave, SlotsOf, EmptyLocs, Valid

\* What any step may do to the records.
RecordStep ==
  \/ /\ UNCHANGED <<ctrl, nvs, stale, fails>>
     /\ reset = "erased" => reset' = "erased"
     /\ reset' = "erased" => reset = "erased"
  \/ \E i \in Slots, id \in Ids, p \in Perms :
       MaySave(i, id) /\ hap_controller_save(i, Paired(id, p)) /\ UNCHANGED reset
  \/ \E i \in Slots : hap_controller_remove(i) /\ UNCHANGED reset
  \/ ResetErase \/ Boot \/ FactoryReset

LEMMA RecordSteps ==
  ASSUME TypeInv, SetupExclusive, [Next]_vars
  PROVE  RecordStep
<1> USE DEF RecordStep
<1>1. CASE UNCHANGED <<ctrl, nvs, stale, fails, reset>>
  BY <1>1
<1>2. ASSUME NEW s \in Socks, NEW id \in Ids, NEW p \in Perms, PairAdd(s, id, p)
      PROVE  RecordStep
  <2>1. PICK i \in Slots : MaySave(i, id) /\ hap_controller_save(i, Paired(id, p))
    BY <1>2, AddSaves
  <2> QED
    BY <1>2, <2>1, Zenon DEF PairAdd
<1>3. ASSUME NEW s \in Socks, NEW id \in Ids, PairRemove(s, id) PROVE RecordStep
  <2>1. First(SlotsOf(id)) \in Slots
    BY <1>3, FirstSlot DEF PairRemove, SlotsOf, Valid
  <2> QED
    BY <1>3, <2>1, Zenon DEF PairRemove
<1>4. CASE PurgeOne
  <2>1. First(Valid(ctrl)) \in Slots
    BY <1>4, FirstSlot DEF PurgeOne, TypeInv, PurgeBusy, Valid
  <2> QED
    BY <1>4, <2>1, Zenon DEF PurgeOne
<1>5. ASSUME NEW s \in Socks, NEW id \in Ids, SetupExchange(s, id) PROVE RecordStep
  <2>1. CASE UNCHANGED <<ctrl, nvs, stale, fails>>
    BY <1>5, <2>1 DEF SetupExchange
  <2>2. CASE hap_controller_save(setup.slot, Paired(id, 1))
    <3>1. MaySave(setup.slot, id) /\ setup.slot \in Slots
      BY <1>5 DEF SetupExchange, SetupExclusive, MaySave, SlotsOf, EmptyLocs,
        TypeInv, TypeOK, SetupCtx
    <3>2. 1 \in Perms
      BY DEF Perms
    <3> QED
      BY <1>5, <2>2, <3>1, <3>2, Zenon DEF SetupExchange
  <2> QED
    BY <1>5, <2>1, <2>2 DEF SetupExchange
<1>6. CASE ResetAsk \/ ResetClose
  BY <1>6 DEF ResetAsk, ResetClose, bounds
<1> QED
  BY <1>1, <1>2, <1>3, <1>4, <1>5, <1>6
  DEF Next, SockStep, vars, bounds, Accept, PeerClose, ProcessClose,
    VerifyStart, VerifyFinish, VerifyBind, SessionError, SetupStart,
    SetupRestart, SetupVerify, SetupTimeout, StrayRestart, StrayFails,
    StrayBreaks, Broken

LEMMA RecordsStep ==
  ASSUME TypeInv, RecordsValid, RecordStep PROVE RecordsValid'
<1> USE DEF TypeInv, TypeOK, RecordsValid
<1>1. ASSUME NEW i \in Slots, NEW rec \in Record, rec.perms = 1 => rec.valid,
             rec.valid => rec.id \in Ids,
             ctrl' = [ctrl EXCEPT ![i] = rec], Keystore(i, rec)
      PROVE  RecordsValid'
  BY <1>1 DEF Keystore
<1>2. Empty \in Record /\ Empty.perms = 0 /\ ~Empty.valid
  BY ZeroTypes DEF Empty
<1>3. ASSUME NEW id \in Ids, NEW p \in Perms
      PROVE  Paired(id, p) \in Record /\ Paired(id, p).valid /\ Paired(id, p).id = id
  BY DEF Paired, Record
<1>4. CASE ResetErase \/ Boot \/ FactoryReset
  <2>1. ctrl' \in {ctrl, nvs, [i \in Slots |-> Empty]}
    BY <1>4 DEF ResetErase, Boot, FactoryReset
  <2>2. nvs' \in {nvs, [i \in Slots |-> Empty]}
    BY <1>4 DEF ResetErase, Boot, FactoryReset
  <2> QED
    BY <1>2, <2>1, <2>2
<1>5. ASSUME NEW i \in Slots, NEW id \in Ids, NEW p \in Perms,
             hap_controller_save(i, Paired(id, p))
      PROVE  RecordsValid'
  BY <1>1, <1>3, <1>5 DEF hap_controller_save
<1>6. ASSUME NEW i \in Slots, hap_controller_remove(i) PROVE RecordsValid'
  <2>1. (Empty.perms = 1 => Empty.valid) /\ (Empty.valid => Empty.id \in Ids)
    BY <1>2
  <2> QED
    BY <1>1, <1>2, <1>6, <2>1, Zenon DEF hap_controller_remove
<1>7. CASE UNCHANGED <<ctrl, nvs>>
  BY <1>7
<1> QED
  BY <1>4, <1>5, <1>6, <1>7 DEF RecordStep

\* Who manages pairings does so because somebody is paired.
LEMMA AdminPaired ==
  ASSUME TypeInv, RecordsValid, NEW s \in Socks, hap_is_req_admin(s)
  PROVE  Valid(ctrl) # {}
BY DEF TypeInv, TypeOK, RecordsValid, hap_is_req_admin, Valid, Session

LEMMA ExclusiveStep ==
  ASSUME TypeInv, RecordsValid, SetupExclusive, [Next]_vars
  PROVE  SetupExclusive'
<1> USE DEF SetupExclusive
<1>1. CASE setup'.state = "none"
  BY <1>1
<1>2. CASE UNCHANGED <<ctrl, setup>>
  BY <1>2 DEF Valid
<1>3. ASSUME NEW s \in Socks, FreeCtx(s), UNCHANGED ctrl PROVE SetupExclusive'
  BY <1>2, <1>3, ZeroTypes DEF FreeCtx
<1>4. ASSUME NEW s \in Socks, hap_is_req_admin(s), UNCHANGED setup
      PROVE  SetupExclusive'
  BY <1>4, AdminPaired
<1>5. CASE PurgeOne
  BY <1>5 DEF PurgeOne, TypeInv, PurgeBusy
<1>6. CASE ~is_accessory_paired /\ UNCHANGED ctrl
  BY <1>6 DEF is_accessory_paired, Valid
<1>7. CASE setup.state # "none" /\ UNCHANGED ctrl
  BY <1>7 DEF Valid
<1>8. ASSUME NEW s \in Socks, SetupFails(s) PROVE SetupExclusive'
  BY <1>1, <1>8, ZeroTypes DEF SetupFails
<1>9. CASE Volatile
  BY <1>1, <1>9, ZeroTypes DEF Volatile
<1> QED
  BY <1>2, <1>3, <1>4, <1>5, <1>6, <1>7, <1>8, <1>9
  DEF Next, SockStep, vars, bounds, Accept, PeerClose, ProcessClose,
    VerifyStart, VerifyFinish, VerifyBind, SessionError, PairAdd, PairRemove,
    SetupStart, SetupRestart, SetupVerify, SetupExchange, StrayRestart,
    StrayFails, StrayBreaks, SetupTimeout, ResetAsk, ResetClose, ResetErase,
    Boot, FactoryReset, Broken, MayStart

CtrlInv == TypeInv /\ RecordsValid /\ SetupExclusive

LEMMA CtrlInit == Init => CtrlInv
BY TypeInit, ZeroTypes DEF Init, CtrlInv, RecordsValid, SetupExclusive, Empty

LEMMA CtrlStep == CtrlInv /\ [Next]_vars => CtrlInv'
BY TypeStep, RecordSteps, RecordsStep, ExclusiveStep DEF CtrlInv

\* The check of M1 still holds at M5: nobody is paired while a pair-setup is
\* in progress.
THEOREM SetupExclusiveCorrect == Spec => []SetupExclusive
<1>1. CtrlInv => SetupExclusive
  BY DEF CtrlInv
<1> QED
  BY CtrlInit, CtrlStep, <1>1, PTL DEF Spec

\* A paired controller's record is never overwritten by another controller's.
THEOREM NoOverwriteCorrect == Spec => NoOverwrite
<1> DEFINE Kept == boots' = boots =>
             \A i \in Valid(ctrl) : ctrl'[i].valid => ctrl'[i].id = ctrl[i].id
<1>1. ASSUME CtrlInv, [Next]_vars PROVE [Kept]_vars
  <2>1. RecordStep /\ TypeOK
    BY <1>1, RecordSteps DEF CtrlInv, TypeInv
  <2>2. CASE UNCHANGED ctrl \/ ResetErase
    BY <2>2 DEF ResetErase, Valid
  <2>3. CASE Boot \/ FactoryReset
    BY <2>1, <2>3, PairingAssumption DEF Boot, FactoryReset, Volatile, TypeOK
  <2>4. ASSUME NEW i \in Slots, NEW id \in Ids, NEW p \in Perms,
               MaySave(i, id), hap_controller_save(i, Paired(id, p))
        PROVE  Kept
    BY <2>1, <2>4 DEF MaySave, hap_controller_save, SlotsOf, EmptyLocs, Valid,
      Paired, TypeOK
  <2>5. ASSUME NEW i \in Slots, hap_controller_remove(i) PROVE Kept
    BY <2>1, <2>5 DEF hap_controller_remove, Empty, Valid, TypeOK
  <2> QED
    BY <2>1, <2>2, <2>3, <2>4, <2>5 DEF RecordStep
<1> QED
  BY CtrlInit, CtrlStep, <1>1, PTL DEF Spec, NoOverwrite

-----------------------------------------------------------------------------
(* The keystore *)

\* As long as no operation failed a slot of the keystore holds the RAM record
\* or, after the erase of a reset, nothing.
NvsFollows ==
  fails = 0 => stale = {} /\ \A i \in Slots : nvs[i] \in {ctrl[i], Empty}

KeyInv == KeystoreMirrorsRam /\ NvsFollows /\ UniqueIds

LEMMA KeyInit == Init => KeyInv
BY DEF Init, KeyInv, KeystoreMirrorsRam, NvsFollows, UniqueIds, Valid, Empty

LEMMA MirrorStep ==
  ASSUME TypeInv, KeystoreMirrorsRam, RecordStep PROVE KeystoreMirrorsRam'
<1> USE DEF TypeInv, TypeOK, KeystoreMirrorsRam
<1>1. CASE UNCHANGED <<ctrl, nvs, stale>> /\ (reset = "erased" => reset' = "erased")
  BY <1>1
<1>2. ASSUME NEW i \in Slots, NEW rec, ctrl' = [ctrl EXCEPT ![i] = rec],
             Keystore(i, rec), UNCHANGED reset
      PROVE  KeystoreMirrorsRam'
  BY <1>2 DEF Keystore
<1>3. CASE ResetErase
  BY <1>3 DEF ResetErase
<1>4. CASE Boot \/ FactoryReset
  BY <1>4 DEF Boot, FactoryReset
<1>5. ASSUME NEW i \in Slots, NEW id \in Ids, NEW p \in Perms,
             hap_controller_save(i, Paired(id, p)), UNCHANGED reset
      PROVE  KeystoreMirrorsRam'
  BY <1>2, <1>5, Zenon DEF hap_controller_save
<1>6. ASSUME NEW i \in Slots, hap_controller_remove(i), UNCHANGED reset
      PROVE  KeystoreMirrorsRam'
  BY <1>2, <1>6, Zenon DEF hap_controller_remove
<1> QED
  BY <1>1, <1>3, <1>4, <1>5, <1>6, Zenon DEF RecordStep

LEMMA FollowsStep ==
  ASSUME TypeInv, NvsFollows, RecordStep PROVE NvsFollows'
<1> USE PairingAssumption DEF TypeInv, TypeOK, NvsFollows
<1>1. CASE UNCHANGED <<ctrl, nvs, stale, fails>>
  BY <1>1
<1>2. ASSUME NEW i \in Slots, NEW rec, ctrl' = [ctrl EXCEPT ![i] = rec],
             Keystore(i, rec)
      PROVE  NvsFollows'
  BY <1>2 DEF Keystore
<1>3. CASE ResetErase
  BY <1>3 DEF ResetErase
<1>4. CASE Boot \/ FactoryReset
  BY <1>4 DEF Boot, FactoryReset, Volatile
<1>5. ASSUME NEW i \in Slots, NEW id \in Ids, NEW p \in Perms,
             hap_controller_save(i, Paired(id, p))
      PROVE  NvsFollows'
  BY <1>2, <1>5, Zenon DEF hap_controller_save
<1>6. ASSUME NEW i \in Slots, hap_controller_remove(i) PROVE NvsFollows'
  BY <1>2, <1>6, Zenon DEF hap_controller_remove
<1> QED
  BY <1>1, <1>3, <1>4, <1>5, <1>6, Zenon DEF RecordStep

LEMMA UniqueStep ==
  ASSUME TypeInv, NvsFollows, UniqueIds, RecordStep PROVE UniqueIds'
<1> USE DEF TypeInv, TypeOK, UniqueIds, Valid
<1>0. fails \in Nat /\ fails' >= fails
  BY PairingAssumption DEF RecordStep, hap_controller_save,
    hap_controller_remove, Keystore, ResetErase, Boot, FactoryReset, Volatile
<1>1. CASE UNCHANGED ctrl
  BY <1>0, <1>1
<1>2. CASE ResetErase
  BY <1>1, <1>2 DEF ResetErase
<1>3. CASE Boot
  BY <1>3 DEF Boot, Volatile, NvsFollows, Empty
<1>4. CASE FactoryReset
  BY <1>4 DEF FactoryReset, Empty
<1>5. ASSUME NEW i \in Slots, NEW id \in Ids, NEW p \in Perms, MaySave(i, id),
             hap_controller_save(i, Paired(id, p))
      PROVE  UniqueIds'
  <2>1. \A j \in Slots : /\ ctrl'[j] = IF j = i THEN Paired(id, p) ELSE ctrl[j]
                         /\ j # i /\ ctrl[j].valid /\ fails = 0 => ctrl[j].id # id
    BY <1>5 DEF MaySave, SlotsOf, hap_controller_save
  <2> QED
    BY <1>0, <2>1 DEF Paired
<1>6. ASSUME NEW i \in Slots, hap_controller_remove(i) PROVE UniqueIds'
  BY <1>0, <1>6 DEF hap_controller_remove, Empty
<1> QED
  BY <1>1, <1>2, <1>3, <1>4, <1>5, <1>6, Zenon DEF RecordStep

LEMMA KeyStep == CtrlInv /\ KeyInv /\ [Next]_vars => KeyInv'
BY RecordSteps, MirrorStep, FollowsStep, UniqueStep DEF CtrlInv, KeyInv

\* The keystore holds what RAM holds, but for failed operations and the erase
\* of a reset.
THEOREM KeystoreCorrect == Spec => []KeystoreMirrorsRam
<1>1. KeyInv => KeystoreMirrorsRam
  BY DEF KeyInv
<1> QED
  BY CtrlInit, CtrlStep, KeyInit, KeyStep, <1>1, PTL DEF Spec

\* While the keystore works no controller ever has two records.
THEOREM UniqueIdsCorrect == Spec => []UniqueIds
<1>1. KeyInv => UniqueIds
  BY DEF KeyInv
<1> QED
  BY CtrlInit, CtrlStep, KeyInit, KeyStep, <1>1, PTL DEF Spec

-----------------------------------------------------------------------------
(* The pairing database *)

\* A record of id replaces the one that id had, if any, and no other.
LEMMA PairingsSave ==
  ASSUME NEW c \in [Slots -> Record], NEW i \in Slots, NEW id \in Ids, NEW p \in Perms,
         c[i].valid => c[i].id = id,
         \A j \in Slots \ {i} : c[j].valid => c[j].id # id
  PROVE  Pairings([c EXCEPT ![i] = Paired(id, p)])
           = Store!Others(Pairings(c), id) \cup {[id |-> id, perms |-> p]}
<1> DEFINE d == [c EXCEPT ![i] = Paired(id, p)]
<1>1. d[i] = Paired(id, p) /\ \A j \in Slots \ {i} : d[j] = c[j]
  OBVIOUS
<1>2. Paired(id, p).valid /\ Paired(id, p).id = id /\ Paired(id, p).perms = p
  BY DEF Paired
<1> HIDE DEF d
<1>3. ASSUME NEW r \in Pairings(d)
      PROVE  r \in Store!Others(Pairings(c), id) \cup {[id |-> id, perms |-> p]}
  <2>1. PICK j \in Slots : d[j].valid /\ r = [id |-> d[j].id, perms |-> d[j].perms]
    BY DEF Pairings, Valid
  <2>2. CASE j = i
    BY <1>1, <1>2, <2>1, <2>2
  <2>3. CASE j # i
    BY <1>1, <2>1, <2>3 DEF Pairings, Valid, Store!Others
  <2> QED
    BY <2>2, <2>3
<1>4. ASSUME NEW r \in Store!Others(Pairings(c), id) PROVE r \in Pairings(d)
  <2>1. PICK j \in Slots : c[j].valid /\ r = [id |-> c[j].id, perms |-> c[j].perms]
    BY DEF Pairings, Valid, Store!Others
  <2>2. j # i
    BY <2>1 DEF Store!Others
  <2> QED
    BY <1>1, <2>1, <2>2 DEF Pairings, Valid
<1>5. [id |-> id, perms |-> p] \in Pairings(d)
  <2>1. i \in Valid(d) /\ d[i].id = id /\ d[i].perms = p
    BY <1>1, <1>2 DEF Valid
  <2> QED
    BY <2>1 DEF Pairings
<1> QED
  BY <1>3, <1>4, <1>5 DEF d

\* Clearing the slot of id takes id out, and nobody else.
LEMMA PairingsRemove ==
  ASSUME NEW c \in [Slots -> Record], NEW i \in Slots, NEW id,
         c[i].valid => c[i].id = id,
         \A j \in Slots \ {i} : c[j].valid => c[j].id # id
  PROVE  Pairings([c EXCEPT ![i] = Empty]) = Store!Others(Pairings(c), id)
<1> DEFINE d == [c EXCEPT ![i] = Empty]
<1>1. ~d[i].valid /\ \A j \in Slots \ {i} : d[j] = c[j]
  BY DEF Empty
<1> HIDE DEF d
<1>2. ASSUME NEW r \in Pairings(d) PROVE r \in Store!Others(Pairings(c), id)
  <2>1. PICK j \in Slots : d[j].valid /\ r = [id |-> d[j].id, perms |-> d[j].perms]
    BY DEF Pairings, Valid
  <2> QED
    BY <1>1, <2>1 DEF Pairings, Valid, Store!Others
<1>3. ASSUME NEW r \in Store!Others(Pairings(c), id) PROVE r \in Pairings(d)
  <2>1. PICK j \in Slots : c[j].valid /\ r = [id |-> c[j].id, perms |-> c[j].perms]
    BY DEF Pairings, Valid, Store!Others
  <2>2. j # i
    BY <2>1 DEF Store!Others
  <2> QED
    BY <1>1, <2>1, <2>2 DEF Pairings, Valid
<1> QED
  BY <1>2, <1>3 DEF d

\* While the keystore works, the slot that may take a record of id is the only
\* one that holds id, in RAM and in the keystore.
LEMMA OnlySlot ==
  ASSUME TypeOK, KeyInv, fails = 0, NEW i \in Slots, NEW id \in Ids,
         MaySave(i, id) \/ (ctrl[i].valid /\ ctrl[i].id = id)
  PROVE  \A c \in {ctrl, nvs} :
           /\ c[i].valid => c[i].id = id
           /\ \A j \in Slots \ {i} : c[j].valid => c[j].id # id
<1>1. /\ ctrl[i].valid => ctrl[i].id = id
      /\ \A j \in Slots \ {i} : ctrl[j].valid => ctrl[j].id # id
  BY DEF MaySave, SlotsOf, EmptyLocs, Valid, KeyInv, UniqueIds
<1>2. \A j \in Slots : nvs[j].valid => nvs[j].id = ctrl[j].id /\ ctrl[j].valid
  BY DEF KeyInv, NvsFollows, Empty
<1> QED
  BY <1>1, <1>2

LEMMA StoreStep ==
  ASSUME CtrlInv, KeyInv, [Next]_vars, fails' = 0
  PROVE  [Store!Next]_(Store!vars)
<1> USE DEF CtrlInv, TypeInv, TypeOK, Store!Next, Store!vars
<1>1. CASE UNCHANGED <<ctrl, nvs>>
  BY <1>1, Zenon DEF Pairings, Valid
<1>2. fails = 0
  <2>1. RecordStep
    BY RecordSteps
  <2> QED
    BY <2>1, PairingAssumption DEF RecordStep, hap_controller_save,
      hap_controller_remove, Keystore, ResetErase, Boot, FactoryReset, Volatile
<1>3. ASSUME NEW i \in Slots, NEW rec, Keystore(i, rec)
      PROVE  nvs' = [nvs EXCEPT ![i] = rec]
  BY <1>2, <1>3 DEF Keystore
<1>4. ASSUME NEW i \in Slots, NEW id \in Ids, NEW p \in Perms, MaySave(i, id),
             hap_controller_save(i, Paired(id, p))
      PROVE  /\ Pairings(ctrl') = Store!Others(Pairings(ctrl), id) \cup {[id |-> id, perms |-> p]}
             /\ Pairings(nvs') = Store!Others(Pairings(nvs), id) \cup {[id |-> id, perms |-> p]}
  <2>1. /\ ctrl' = [ctrl EXCEPT ![i] = Paired(id, p)]
        /\ nvs' = [nvs EXCEPT ![i] = Paired(id, p)]
    BY <1>3, <1>4, Zenon DEF hap_controller_save
  <2>2. \A c \in {ctrl, nvs} :
          /\ c[i].valid => c[i].id = id
          /\ \A j \in Slots \ {i} : c[j].valid => c[j].id # id
    BY <1>2, <1>4, OnlySlot
  <2>3. ASSUME NEW c \in {ctrl, nvs}
        PROVE  Pairings([c EXCEPT ![i] = Paired(id, p)])
                 = Store!Others(Pairings(c), id) \cup {[id |-> id, perms |-> p]}
    BY <2>2, PairingsSave
  <2> QED
    BY <2>1, <2>3, Zenon
<1>5. ASSUME NEW i \in Slots, hap_controller_remove(i)
      PROVE  [Store!Next]_(Store!vars)
  <2>1. ctrl' = [ctrl EXCEPT ![i] = Empty] /\ nvs' = [nvs EXCEPT ![i] = Empty]
    BY <1>3, <1>5, Zenon DEF hap_controller_remove
  <2>2. CASE ctrl[i].valid
    <3> DEFINE id == ctrl[i].id
    <3>1. id \in Ids
      BY <2>2 DEF RecordsValid
    <3>2. \A c \in {ctrl, nvs} :
            /\ c[i].valid => c[i].id = id
            /\ \A j \in Slots \ {i} : c[j].valid => c[j].id # id
      BY <1>2, <2>2, <3>1, OnlySlot
    <3>3. /\ Pairings(ctrl') = Store!Others(Pairings(ctrl), id)
          /\ Pairings(nvs') = Store!Others(Pairings(nvs), id)
      BY <2>1, <3>2, PairingsRemove
    <3>4. \E r \in Pairings(ctrl) : r.id = id
      <4>1. [id |-> ctrl[i].id, perms |-> ctrl[i].perms] \in Pairings(ctrl)
        BY <2>2, Zenon DEF Pairings, Valid
      <4> QED
        BY <4>1
    <3> QED
      BY <3>1, <3>3, <3>4, Zenon DEF Store!Revoke
  <2>3. CASE ~ctrl[i].valid
    <3>1. \A c \in {ctrl, nvs} : /\ ~c[i].valid
                                 /\ \A j \in Slots : c[j].valid => c[j].id \in Ids
      BY <1>2, <2>3 DEF RecordsValid, KeyInv, NvsFollows, Empty
    <3>2. \A c \in {ctrl, nvs} :
            /\ Pairings([c EXCEPT ![i] = Empty]) = Store!Others(Pairings(c), NoId)
            /\ \A r \in Pairings(c) : r.id # NoId
      <4>1. ASSUME NEW c \in {ctrl, nvs}
            PROVE  Pairings([c EXCEPT ![i] = Empty]) = Store!Others(Pairings(c), NoId)
        BY <3>1, PairingAssumption, PairingsRemove
      <4>2. ASSUME NEW c \in {ctrl, nvs}, NEW r \in Pairings(c) PROVE r.id # NoId
        BY <3>1, PairingAssumption DEF Pairings, Valid
      <4> QED
        BY <4>1, <4>2
    <3>3. Pairings(ctrl') = Pairings(ctrl) /\ Pairings(nvs') = Pairings(nvs)
      BY <2>1, <3>2 DEF Store!Others
    <3> QED
      BY <3>3
  <2> QED
    BY <2>2, <2>3
<1>6. ASSUME NEW s \in Socks, NEW id \in Ids, NEW p \in Perms, PairAdd(s, id, p)
      PROVE  Store!Next
  <2>1. PICK i \in Slots : MaySave(i, id) /\ hap_controller_save(i, Paired(id, p))
    BY <1>6, AddSaves
  <2>2. Store!HasAdmin
    <3>1. sess[s].slot \in Valid(ctrl) /\ ctrl[sess[s].slot].perms = 1
      BY <1>6 DEF PairAdd, hap_is_req_admin, RecordsValid, Valid, Session
    <3>2. [id |-> ctrl[sess[s].slot].id, perms |-> 1] \in Pairings(ctrl)
      BY <3>1, Zenon DEF Pairings
    <3>3. [id |-> ctrl[sess[s].slot].id, perms |-> 1].perms = 1
      OBVIOUS
    <3> QED
      BY <3>2, <3>3, Zenon DEF Store!HasAdmin
  <2>3. Store!Grant(id, p)
    BY <1>4, <2>1, <2>2 DEF Store!Grant
  <2> QED
    BY <2>3 DEF Perms
<1>7. ASSUME NEW s \in Socks, NEW id \in Ids, SetupExchange(s, id)
      PROVE  [Store!Next]_(Store!vars)
  <2>1. CASE UNCHANGED <<ctrl, nvs>>
    BY <1>1, <2>1
  <2>2. CASE hap_controller_save(setup.slot, Paired(id, 1))
    <3>1. Valid(ctrl) = {} /\ setup.slot \in Slots
      BY <1>7 DEF SetupExchange, SetupExclusive, SetupCtx
    <3>2. MaySave(setup.slot, id) /\ 1 \in Perms
      BY <3>1 DEF MaySave, SlotsOf, EmptyLocs, Perms
    <3>3. Pairings(ctrl) = {}
      BY <3>1 DEF Pairings
    <3>4. /\ Pairings(ctrl') = {[id |-> id, perms |-> 1]}
          /\ Pairings(nvs') = Store!Others(Pairings(nvs), id) \cup Pairings(ctrl')
      BY <1>4, <2>2, <3>1, <3>2, <3>3 DEF Store!Others
    <3> QED
      BY <3>3, <3>4 DEF Store!Setup
  <2> QED
    BY <1>7, <2>1, <2>2 DEF SetupExchange
<1>8. CASE ResetErase
  <2>1. Pairings(nvs') = {} /\ Pairings(ctrl') = Pairings(ctrl)
    BY <1>2, <1>8 DEF ResetErase, Pairings, Valid, Empty
  <2> QED
    BY <2>1 DEF Store!Erase
<1>9. CASE Boot
  BY <1>9, Zenon DEF Boot, Store!Restart
<1>10. CASE FactoryReset
  <2>1. Pairings(nvs') = {} /\ Pairings(ctrl') = {}
    BY <1>10 DEF FactoryReset, Pairings, Valid, Empty
  <2> QED
    BY <2>1 DEF Store!Wipe
<1>11. ASSUME NEW s \in Socks, NEW id \in Ids, PairRemove(s, id)
       PROVE  \E i \in Slots : hap_controller_remove(i)
  <2>0. SlotsOf(id) # {} /\ SlotsOf(id) \subseteq Slots
    BY <1>11, Zenon DEF PairRemove, SlotsOf, Valid
  <2>1. First(SlotsOf(id)) \in Slots
    BY <2>0, FirstSlot, Zenon
  <2> QED
    BY <1>11, <2>1, Zenon DEF PairRemove
<1>12. CASE PurgeOne
  <2>0. Valid(ctrl) # {} /\ Valid(ctrl) \subseteq Slots
    BY <1>12, Zenon DEF PurgeOne, PurgeBusy, Valid
  <2>1. First(Valid(ctrl)) \in Slots
    BY <2>0, FirstSlot, Zenon
  <2>2. hap_controller_remove(First(Valid(ctrl)))
    BY <1>12, Zenon DEF PurgeOne
  <2> QED
    BY <1>5, <2>1, <2>2
<1> QED
  BY <1>1, <1>5, <1>6, <1>7, <1>8, <1>9, <1>10, <1>11, <1>12
  DEF Next, SockStep, vars, bounds, Accept, PeerClose, ProcessClose,
    VerifyStart, VerifyFinish, VerifyBind, SessionError, SetupStart,
    SetupRestart, SetupVerify, SetupTimeout, ResetAsk, ResetClose, StrayRestart,
    StrayFails, StrayBreaks, Broken

LEMMA StoreInit == Init => Store!Init
BY DEF Init, Store!Init, Pairings, Valid, Empty

\* Slots, sessions, timers, handlers of several steps and restarts in their
\* middle implement the pairing database until a keystore operation fails.
THEOREM StoreImplemented == Spec => ImplementsStore
<1>1. CtrlInv /\ KeyInv /\ [Next]_vars => [fails' = 0 => Store!Next]_(Store!vars)
  BY StoreStep
<1> QED
  BY CtrlInit, CtrlStep, KeyInit, KeyStep, StoreInit, <1>1, PTL
  DEF Spec, ImplementsStore

-----------------------------------------------------------------------------
(* Sessions *)

LEMMA TableStep ==
  ASSUME TypeInv, SessionTableSound, [Next]_vars PROVE SessionTableSound'
<1> USE PairingAssumption DEF TypeInv, TypeOK, SessionTableSound
<1>1. CASE UNCHANGED <<table, conn, lost, strays>>
  BY <1>1
<1>2. ASSUME NEW s \in Socks, UNCHANGED <<table, lost, strays>>, conn[s] # "secure",
             \E k \in Kinds : conn' = [conn EXCEPT ![s] = k]
      PROVE  SessionTableSound'
  BY <1>2
<1>3. ASSUME NEW s \in Socks, FreeCtx(s), UNCHANGED <<lost, strays>>
      PROVE  SessionTableSound'
  BY <1>3 DEF FreeCtx
<1>4. ASSUME NEW s \in Socks, NEW id \in Ids, VerifyFinish(s, id)
      PROVE  SessionTableSound'
  <2>1. \A e \in Entries : table[e] # s
    BY <1>4 DEF VerifyFinish
  <2>2. \A r \in Socks : conn[r] = "secure" => conn'[r] = "secure"
    BY <1>4 DEF VerifyFinish
  <2>3. conn'[s] = "secure" /\ UNCHANGED <<lost, strays>>
    BY <1>4 DEF VerifyFinish, bounds
  <2>4. CASE UNCHANGED table
    BY <2>2, <2>3, <2>4
  <2>5. ASSUME NEW f \in FreeEntries, table' = [table EXCEPT ![f] = s]
        PROVE  SessionTableSound'
    BY <2>1, <2>2, <2>3, <2>5 DEF FreeEntries
  <2>6. FreeEntries # {} => First(FreeEntries) \in FreeEntries
    BY FirstSlot DEF FreeEntries
  <2> QED
    BY <1>4, <2>4, <2>5, <2>6 DEF VerifyFinish
<1>5. CASE Volatile
  BY <1>5, ZeroTypes DEF Volatile
<1>6. ASSUME NEW s \in Socks,
             \/ Accept(s) \/ SetupStart(s) \/ SetupRestart(s)
             \/ \E good \in BOOLEAN : VerifyStart(s, good) \/ SetupVerify(s, good)
             \/ \E id \in Ids : SetupExchange(s, id)
      PROVE  SessionTableSound'
  BY <1>1, <1>2, <1>6 DEF Accept, SetupStart, SetupRestart,
    VerifyStart, SetupVerify, SetupExchange, SetupFails, Kinds, bounds
<1>7. ASSUME NEW s \in Socks, StrayStep(s) PROVE SessionTableSound'
  <2>1. strays' # 0
    BY <1>7, StrayCounted
  <2>2. CASE UNCHANGED <<table, conn, lost>>
    BY <2>1, <2>2
  <2>3. CASE StrayFails(s)
    <3>1. /\ conn' = [conn EXCEPT ![s] = "plain"]
          /\ table' = [e \in Entries |-> IF table[e] = s THEN NoSock ELSE table[e]]
          /\ \A e \in Entries : table[e] # s => lost'[e] = lost[e]
      BY <2>3 DEF StrayFails, SetupFails
    <3> QED
      BY <2>1, <3>1
  <2> QED
    BY <1>7, <2>2, <2>3 DEF StrayStep, StrayRestart, StrayBreaks
<1> QED
  BY <1>1, <1>3, <1>4, <1>5, <1>6, <1>7
  DEF StrayStep, Next, SockStep, vars, bounds, PeerClose, ProcessClose, VerifyBind,
    SessionError, PairAdd, PairRemove, PurgeOne, SetupTimeout, ResetAsk,
    ResetClose, ResetErase, Boot, FactoryReset, Broken

LEMMA TableInit == Init => SessionTableSound
BY ZeroTypes DEF Init, SessionTableSound

\* Every entry of the session table is one open and verified connection, but for
\* those that stray requests left behind.
THEOREM SessionTableCorrect == Spec => []SessionTableSound
BY TypeInit, TypeStep, TableInit, TableStep, PTL DEF Spec

\* The sessions that are there after the step were there before it, with the
\* same controller and slot.
SessionsKept(s) ==
  conn'[s] = "secure" /\ Registered(s)' =>
     /\ conn[s] = "secure" /\ Registered(s)
     /\ sess'[s].slot = sess[s].slot /\ sess'[s].who = sess[s].who

LEMMA FreeCtxKeeps ==
  ASSUME TypeInv, NEW r \in Socks, FreeCtx(r)
  PROVE  conn'[r] = "closed" /\ \A s \in Socks : SessionsKept(s)
BY PairingAssumption DEF TypeInv, TypeOK, FreeCtx, SessionsKept, Registered

LEMMA OrphansStep ==
  ASSUME CtrlInv, OrphansClosing, [Next]_vars PROVE OrphansClosing'
<1> USE DEF OrphansClosing, Orphaned
<1>0. TypeOK
  BY DEF CtrlInv, TypeInv
<1>1. ASSUME UNCHANGED ctrl, closing \subseteq closing', \A s \in Socks : SessionsKept(s)
      PROVE  OrphansClosing'
  BY <1>1 DEF SessionsKept
<1>2. ASSUME UNCHANGED <<sess, table>>, NEW r \in Socks, conn[r] # "secure",
             \E k \in Kinds \ {"secure"} : conn' = [conn EXCEPT ![r] = k]
      PROVE  \A s \in Socks : SessionsKept(s)
  BY <1>0, <1>2 DEF TypeOK, SessionsKept, Registered
<1>3. ASSUME UNCHANGED <<conn, sess, table>> PROVE \A s \in Socks : SessionsKept(s)
  BY <1>3 DEF SessionsKept, Registered
<1>4. ASSUME NEW r \in Socks, ProcessClose(r) PROVE OrphansClosing'
  <2>1. conn'[r] = "closed" /\ \A s \in Socks : SessionsKept(s)
    BY <1>3, <1>4, FreeCtxKeeps DEF ProcessClose, CtrlInv
  <2> QED
    BY <1>4, <2>1 DEF ProcessClose, SessionsKept
<1>5. ASSUME NEW r \in Socks, NEW id \in Ids, VerifyFinish(r, id)
      PROVE  OrphansClosing'
  <2>1. First(SlotsOf(id)) \in SlotsOf(id)
    BY <1>5, FirstSlot DEF VerifyFinish, SlotsOf, Valid
  <2>2. ctrl[sess'[r].slot].valid /\ ctrl[sess'[r].slot].id = sess'[r].who
    BY <1>0, <1>5, <2>1 DEF VerifyFinish, SlotsOf, Valid, TypeOK
  <2>3. ASSUME NEW s \in Socks, s # r PROVE SessionsKept(s)
    BY <1>0, <1>5, <2>3 DEF VerifyFinish, SessionsKept, Registered, TypeOK
  <2> QED
    BY <1>5, <2>2, <2>3 DEF VerifyFinish, SessionsKept
<1>6. ASSUME NEW r \in Socks,
             (\E good \in BOOLEAN : VerifyStart(r, good)) \/ VerifyBind(r) \/ SessionError(r)
      PROVE  OrphansClosing'
  <2>1. \A s \in Socks : SessionsKept(s)
    BY <1>0, <1>2, <1>6 DEF VerifyStart, VerifyBind, SessionError, SessionsKept,
      Registered, TypeOK, Session, Kinds
  <2> QED
    BY <1>1, <1>6, <2>1 DEF VerifyStart, VerifyBind, SessionError, bounds
<1>7. ASSUME NEW i \in Slots, NEW id \in Ids, NEW p \in Perms, MaySave(i, id),
             hap_controller_save(i, Paired(id, p)), closing \subseteq closing',
             \A s \in Socks : SessionsKept(s)
      PROVE  OrphansClosing'
  <2>1. \A j \in Slots : ctrl'[j] = IF j = i THEN Paired(id, p) ELSE ctrl[j]
    BY <1>0, <1>7 DEF hap_controller_save, TypeOK
  <2>2. ctrl[i].valid => ctrl[i].id = id
    BY <1>7 DEF MaySave, SlotsOf, EmptyLocs, Valid
  <2>3. ASSUME NEW s \in Socks, Registered(s)', Orphaned(s)'
        PROVE  Registered(s) /\ Orphaned(s)
    BY <1>0, <1>7, <2>1, <2>2, <2>3 DEF Paired, SessionsKept, TypeOK, Session
  <2> QED
    BY <1>7, <2>3
<1>8. ASSUME NEW i \in Slots, hap_controller_remove(i),
             closing' = closing \cup SessionsOf(i), UNCHANGED <<conn, sess, table>>
      PROVE  OrphansClosing'
  <2>1. \A j \in Slots \ {i} : ctrl'[j] = ctrl[j]
    BY <1>0, <1>8 DEF hap_controller_remove, TypeOK
  <2> QED
    BY <1>0, <1>8, <2>1 DEF SessionsOf, Registered, TypeOK, Session
<1>9. ASSUME NEW r \in Socks, NEW id \in Ids, NEW p \in Perms, PairAdd(r, id, p)
      PROVE  OrphansClosing'
  <2>1. PICK i \in Slots : MaySave(i, id) /\ hap_controller_save(i, Paired(id, p))
    BY <1>9, AddSaves
  <2> QED
    BY <1>3, <1>7, <1>9, <2>1 DEF PairAdd
<1>10. ASSUME NEW r \in Socks, NEW id \in Ids, PairRemove(r, id) PROVE OrphansClosing'
  <2>1. First(SlotsOf(id)) \in Slots
    BY <1>10, FirstSlot DEF PairRemove, SlotsOf, Valid
  <2> QED
    BY <1>8, <1>10, <2>1, Zenon DEF PairRemove
<1>11. CASE PurgeOne
  <2>1. First(Valid(ctrl)) \in Slots
    BY <1>11, FirstSlot DEF PurgeOne, CtrlInv, TypeInv, PurgeBusy, Valid
  <2> QED
    BY <1>8, <1>11, <2>1, Zenon DEF PurgeOne
<1>12. ASSUME NEW r \in Socks,
              \/ Accept(r) \/ SetupStart(r) \/ SetupRestart(r)
              \/ \E good \in BOOLEAN : SetupVerify(r, good)
       PROVE  OrphansClosing'
  <2>1. \A s \in Socks : SessionsKept(s)
    BY <1>2, <1>3, <1>12 DEF Accept, SetupStart, SetupRestart,
      SetupVerify, SetupFails, Kinds
  <2> QED
    BY <1>1, <1>12, <2>1 DEF Accept, SetupStart, SetupRestart,
      SetupVerify, bounds
<1>13. ASSUME NEW r \in Socks, NEW id \in Ids, SetupExchange(r, id)
       PROVE  OrphansClosing'
  <2>1. \A s \in Socks : SessionsKept(s)
    BY <1>2, <1>13 DEF SetupExchange, SetupFails, Kinds
  <2>2. CASE UNCHANGED ctrl
    BY <1>1, <1>13, <2>1, <2>2 DEF SetupExchange
  <2>3. CASE hap_controller_save(setup.slot, Paired(id, 1))
    <3>1. MaySave(setup.slot, id) /\ setup.slot \in Slots /\ 1 \in Perms
      BY <1>0, <1>13 DEF SetupExchange, CtrlInv, SetupExclusive, MaySave,
        SlotsOf, EmptyLocs, TypeOK, SetupCtx, Perms
    <3> QED
      BY <1>7, <1>13, <2>1, <2>3, <3>1 DEF SetupExchange
  <2> QED
    BY <1>13, <2>2, <2>3 DEF SetupExchange
<1>14. ASSUME NEW r \in Socks, PeerClose(r) PROVE OrphansClosing'
  BY <1>1, <1>14, FreeCtxKeeps DEF PeerClose, CtrlInv
<1>15. CASE SetupTimeout \/ ResetAsk \/ ResetClose \/ ResetErase \/ UNCHANGED vars
  BY <1>1, <1>3, <1>15 DEF SetupTimeout, ResetAsk, ResetClose, ResetErase, vars, bounds
<1>16. CASE Volatile
  BY <1>16 DEF Volatile
<1>17. ASSUME NEW r \in Socks, StrayStep(r) PROVE OrphansClosing'
  <2>1. CASE StrayFails(r)
    <3>1. \A s \in Socks : SessionsKept(s)
      BY <1>0, <2>1, PairingAssumption
      DEF StrayFails, SetupFails, SessionsKept, Registered, TypeOK
    <3> QED
      BY <1>1, <2>1, <3>1 DEF StrayFails
  <2>2. CASE UNCHANGED <<ctrl, closing, conn, sess, table>>
    BY <1>1, <1>3, <2>2
  <2> QED
    BY <1>17, <2>1, <2>2 DEF StrayStep, StrayRestart, StrayBreaks
<1> QED
  BY <1>4, <1>5, <1>6, <1>9, <1>10, <1>11, <1>12, <1>13, <1>14, <1>15, <1>16, <1>17
  DEF StrayStep, Next, SockStep, Boot, FactoryReset, Broken

LEMMA OrphansInit == Init => OrphansClosing
BY DEF Init, OrphansClosing, Orphaned

\* A registered session outlives its controller's record only while its close
\* is queued: removal never leaves a working session behind.
THEOREM OrphansCorrect == Spec => []OrphansClosing
BY CtrlInit, CtrlStep, OrphansInit, OrphansStep, PTL DEF Spec

-----------------------------------------------------------------------------
(* The parts together *)

\* One pair-setup at a time, of a connection that will free it, with nobody
\* paired, that is going to end, and in a limited number of tries.
THEOREM SetupSoundCorrect == Spec => []SetupSound
BY SetupExclusiveCorrect, SetupOwnedCorrect, SetupEndsCorrect, AttemptsCorrect,
   PTL DEF SetupSound

\* Sessions, controllers and keystore agree with the connections and with one
\* another.
THEOREM TablesSoundCorrect == Spec => []TablesSound
BY SessionTableCorrect, OrphansCorrect, KeystoreCorrect, UniqueIdsCorrect,
   PTL DEF TablesSound
=============================================================================
