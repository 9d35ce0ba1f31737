----------------------------- MODULE HapObjects -----------------------------
(***************************************************************************)
(* The objects of the HomeKit core (esp_hap_acc.c, esp_hap_serv.c,         *)
(* esp_hap_char.c): accessories, services and characteristics as they are  *)
(* allocated, put together, numbered and freed, when any allocation may    *)
(* fail; the list of accessories, to which bridged ones are added and from *)
(* which they are removed; and the accessory ids that are kept in the      *)
(* keystore over restarts.                                                 *)
(*                                                                         *)
(* One action is one allocation with what follows it up to the next one.   *)
(* The applications are external: Homekit.cpp, which makes the primary     *)
(* accessory with one switch per module, and a user of the functions that  *)
(* hap.h offers for bridged accessories, who deletes only what is in no    *)
(* list and gives each bridged accessory an identifier of its own.         *)
(***************************************************************************)
EXTENDS AppleProfiles, FiniteSets, Functions

CONSTANTS
  Accs,         \* addresses of accessories
  None,
  Ids,          \* identifiers of bridged accessories
  BridgedTypes, \* services a bridged accessory may get
  MaxModules,   \* modules of the chain
  MaxFails,     \* bound on allocations and keystore writes that fail
  MaxExtras,    \* bound on services, links, flags and product data added to accessories
  MaxAid        \* bound on accessory ids

ASSUME ObjectsAssumption ==
  /\ None \notin Accs \cup Ids
  /\ BridgedTypes \subseteq DOMAIN Services
  /\ {MaxModules, MaxFails, MaxExtras, MaxAid} \subseteq Nat

VARIABLES
  heap,    \* accessories, services, characteristics and blocks allocated
  primary, \* primary_acc; its accessory may have been deleted
  held,    \* accessories the applications have created and not added
  build,   \* the creation in progress
  aids,    \* cur_aid in RAM, and the ids in the keystore
  hung,    \* "walk" in an endless list, "assert" in ESP_MFI_ASSERT
  members, \* history: accessories added, with the identifier each was added under
  again,   \* history: an accessory was added again after its removal
  lost,    \* history: what the places known to lose memory have lost
  unsaved, \* history: cur_aid could not be saved
  fails, extras \* the counters behind the bounds

vars == <<heap, primary, held, build, aids, hung, members, again, lost, unsaved, fails, extras>>

\* An address for a service of accessory a or a characteristic of service s: which
\* one does not matter, so that they are told apart by what they are made for.
Fresh(S, owner) ==
  <<owner, CHOOSE n \in 1..(Cardinality(S) + 1) :
             /\ <<owner, n>> \notin S
             /\ \A k \in 1..(n - 1) : <<owner, k>> \in S>>
Without(f, S) == Restrict(f, DOMAIN f \ S)
With(f, k, v) == [x \in DOMAIN f \cup {k} |-> IF x = k THEN v ELSE f[x]]

Acc == [servs |-> <<>>, next_iid |-> 1, aid |-> 0, next |-> None]
Serv(type) == [type |-> type, chars |-> <<>>, acc |-> None, iid |-> 0, linked |-> <<>>]
Char(name, block) == [name |-> name, block |-> block, iid |-> 0]

\* Characteristics of a format with a text or data of its own.
BlockOf(name) ==
  CASE Profile[name].format = "string" -> "text"
    [] Profile[name].format \in {"data", "tlv8"} -> "data"
    [] OTHER -> "none"

Idle == [kind |-> None, acc |-> None, serv |-> None, type |-> "none", todo |-> <<>>,
         bad |-> FALSE, left |-> 0]

\* The configuration of an accessory is taken to have a hw_rev, as Homekit.cpp's does.
InfoChars == <<"identify", "manufacturer", "model", "name", "serial_number",
               "firmware_revision", "hardware_revision">>

NothingLost == [servs |-> {}, chars |-> {}, blocks |-> 0]

---------------------------------------------------------------------------
(* Operations on the heap.                                                 *)

CharsOf(h, s) == Range(h.servs[s].chars)

AllChars(h, as) ==
  UNION {CharsOf(h, s) : s \in UNION {Range(h.accs[a].servs) : a \in as}}
Blocks(h, cs, block) == Cardinality({c \in cs : h.chars[c].block = block})

FreeChars(h, cs) ==
  [h EXCEPT !.chars = Without(@, cs), !.blocks = @ - Blocks(h, cs, "text")]

hap_serv_delete(h, s) ==
  [FreeChars(h, CharsOf(h, s)) EXCEPT !.servs = Without(@, {s})]

\* Slip: the last service of the accessory is not freed.
hap_acc_delete_Slip(h, a) ==
  LET ss == Range(h.accs[a].servs)
      kept == IF ss = {} THEN {} ELSE {h.accs[a].servs[Len(h.accs[a].servs)]}
  IN [FreeChars(h, UNION {CharsOf(h, s) : s \in ss \ kept})
        EXCEPT !.servs = Without(@, ss \ kept), !.accs = Without(@, {a})]

hap_acc_delete(h, a) ==
  LET ss == Range(h.accs[a].servs)
  IN [FreeChars(h, UNION {CharsOf(h, s) : s \in ss})
        EXCEPT !.servs = Without(@, ss), !.accs = Without(@, {a})]

\* A characteristic of a service that an accessory already has is numbered at once.
hap_serv_add_char(h, s, c) ==
  LET a == h.servs[s].acc
      h2 == [h EXCEPT !.servs[s].chars = Append(@, c)]
  IN IF a = None THEN h2
     ELSE [h2 EXCEPT !.chars[c].iid = h.accs[a].next_iid, !.accs[a].next_iid = @ + 1]

\* Slip: a service takes one number, its characteristics follow without.
hap_acc_add_serv_Slip(h, a, s) ==
  LET iid == h.accs[a].next_iid  cs == h.servs[s].chars
  IN [h EXCEPT
        !.accs[a].servs = Append(@, s), !.accs[a].next_iid = iid + 1,
        !.servs[s].iid = iid, !.servs[s].acc = a,
        !.chars = [c \in DOMAIN @ |->
          IF \E i \in DOMAIN cs : cs[i] = c
          THEN [@[c] EXCEPT !.iid = iid + CHOOSE i \in DOMAIN cs : cs[i] = c] ELSE @[c]]]

hap_acc_add_serv(h, a, s) ==
  LET iid == h.accs[a].next_iid  cs == h.servs[s].chars
  IN [h EXCEPT
        !.accs[a].servs = Append(@, s), !.accs[a].next_iid = iid + 1 + Len(cs),
        !.servs[s].iid = iid, !.servs[s].acc = a,
        !.chars = [c \in DOMAIN @ |->
          IF \E i \in DOMAIN cs : cs[i] = c
          THEN [@[c] EXCEPT !.iid = iid + CHOOSE i \in DOMAIN cs : cs[i] = c] ELSE @[c]]]

\* hap_acc_get_serv_by_uuid() for the Accessory Information service.
Info(h, a) ==
  {s \in Range(h.accs[a].servs) : h.servs[s].type = "accessory_information"}

---------------------------------------------------------------------------
(* Creation.                                                               *)

\* An allocation that fails, where one still may.
Fail == fails < MaxFails /\ fails' = fails + 1
Fine == fails' = fails

Ready == build = Idle /\ hung = None

\* The accessory at primary_acc is there.
Begun == \E m \in members : m.acc = primary

\* What a creation of a characteristic comes to: the characteristic (0 if there
\* is none), whether its text or data is there, how many blocks are lost.
CharOutcomes(name) ==
  {[made |-> TRUE, block |-> BlockOf(name), spilt |-> 0, fails |-> 0]}
  \cup IF fails = MaxFails THEN {}
       ELSE {[made |-> FALSE, block |-> "none",
              spilt |-> IF BlockOf(name) = "text" THEN 1 ELSE 0, fails |-> 1]}
            \cup IF BlockOf(name) = "text"
                 THEN {[made |-> TRUE, block |-> "none", spilt |-> 0, fails |-> 1]} ELSE {}

NewChar(h, s, name, o) ==
  IF o.made
  THEN [h EXCEPT !.chars = With(@, Fresh(DOMAIN @, s), Char(name, o.block)),
                 !.blocks = @ + IF o.block = "none" THEN 0 ELSE 1]
  ELSE [h EXCEPT !.blocks = @ + o.spilt]

\* hap_acc_create() begins, for Homekit.cpp or for a bridged accessory.
BeginAcc(kind) ==
  /\ Ready
  /\ held[kind] = None /\ (kind = "bridged" => Begun)
  /\ \/ \E a \in Accs \ DOMAIN heap.accs :
          /\ heap' = [heap EXCEPT !.accs = With(@, a, Acc)]
          /\ build' = [Idle EXCEPT !.kind = kind, !.acc = a, !.type = "accessory_information",
                                   !.todo = InfoChars]
          /\ Fine
     \/ Fail /\ UNCHANGED <<heap, build>>
  /\ UNCHANGED <<primary, held, aids, hung, members, again, lost, unsaved, extras>>

Creating == build.kind \in {"primary", "bridged"}
Making == Creating \/ build.kind \in {"switch", "service"}

\* hap_acc_create() fails: what the accessory has is freed with it.  A service
\* that was not added yet, and its characteristics, are not.
GiveUp(h, l) ==
  /\ heap' = hap_acc_delete(h, build.acc)
  /\ lost' = IF build.serv = None THEN l
             ELSE [l EXCEPT !.servs = @ \cup {build.serv}]
  /\ build' = Idle

\* hap_serv_create().
CreateServ ==
  /\ Making /\ build.type # "none" /\ build.serv = None
  /\ \/ LET s == Fresh(DOMAIN heap.servs, build.acc)
        IN /\ heap' = [heap EXCEPT !.servs = With(@, s, Serv(build.type))]
           /\ build' = [build EXCEPT !.serv = s]
           /\ Fine /\ UNCHANGED <<hung, lost>>
     \/ /\ Fail
        /\ IF Creating THEN GiveUp(heap, lost) /\ UNCHANGED hung
           ELSE /\ build' = [build EXCEPT !.type = "none", !.todo = <<>>]
                /\ UNCHANGED <<heap, hung, lost>>
  /\ UNCHANGED <<primary, held, aids, members, again, unsaved, extras>>

\* "goto err" of a constructor of the profiles.
\* Slip: it goes on with the next characteristic.
Err_Slip(h) == heap' = h /\ build' = [build EXCEPT !.todo = Tail(@)]
Err(h) ==
  /\ heap' = hap_serv_delete(h, build.serv)
  /\ build' = [build EXCEPT !.serv = None, !.type = "none", !.todo = <<>>]

\* A characteristic of the service in hand.  hap_acc_create() goes on after a
\* failure, a constructor of the profiles deletes its service.
CreateChar ==
  /\ build.serv # None /\ build.todo # <<>>
  /\ \E o \in CharOutcomes(Head(build.todo)) :
       LET h == NewChar(heap, build.serv, Head(build.todo), o)
           rest == [build EXCEPT !.todo = Tail(@)]
       IN /\ fails' = fails + o.fails
          /\ lost' = [lost EXCEPT !.blocks = @ + o.spilt]
          /\ IF o.made
             THEN /\ heap' = hap_serv_add_char(h, build.serv, Fresh(DOMAIN heap.chars, build.serv))
                  /\ build' = rest
             ELSE IF Creating
             THEN heap' = h /\ build' = [rest EXCEPT !.bad = TRUE]
             ELSE Err(h)
  /\ UNCHANGED <<primary, held, aids, hung, members, again, unsaved, extras>>

\* All characteristics are tried: the service goes to the accessory or
\* hap_acc_create() fails; after the second service the accessory is complete.
FinishOwnServ ==
  /\ Creating /\ build.serv # None /\ build.todo = <<>>
  /\ IF build.bad THEN GiveUp(heap, lost) /\ UNCHANGED held
     ELSE /\ heap' = hap_acc_add_serv(heap, build.acc, build.serv)
          /\ lost' = lost
          /\ IF build.type = "accessory_information"
             THEN /\ build' = [build EXCEPT !.serv = None, !.type = "protocol_information",
                                            !.todo = <<"version">>]
                  /\ UNCHANGED held
             ELSE build' = Idle /\ held' = [held EXCEPT ![build.kind] = build.acc]
  /\ UNCHANGED <<primary, aids, hung, members, again, unsaved, fails, extras>>

---------------------------------------------------------------------------
(* The accessory of the firmware (Homekit.cpp).                            *)

\* beginAccessory(): left counts the modules whose switch is still to be made.
beginAccessory ==
  /\ Ready /\ held["primary"] # None /\ heap.accs[held["primary"]].aid = 0
  /\ \E n \in 0..MaxModules :
       build' = IF n = 0 THEN [Idle EXCEPT !.kind = "shown", !.acc = held["primary"]]
                ELSE [Idle EXCEPT !.kind = "switch", !.acc = held["primary"], !.left = n,
                                  !.type = "switch", !.todo = Services["switch"]]
  /\ UNCHANGED <<heap, primary, held, aids, hung, members, again, lost, unsaved, fails, extras>>

\* The name follows the constructor; hap_serv_add_char() refuses a service that is
\* not there, and the characteristic is lost.  hap_acc_add_serv() then asserts.
AddName ==
  /\ build.kind = "switch" /\ build.todo = <<>> /\ (build.serv # None \/ build.type = "none")
  /\ \E o \in CharOutcomes("name") :
       LET h == NewChar(heap, build.serv, "name", o)
           c == Fresh(DOMAIN heap.chars, build.serv)
       IN /\ fails' = fails + o.fails
          /\ IF build.serv = None
             THEN /\ heap' = h /\ hung' = "assert" /\ build' = Idle
                  /\ lost' = [lost EXCEPT !.blocks = @ + o.spilt,
                                          !.chars = @ \cup IF o.made THEN {c} ELSE {}]
             ELSE /\ heap' = hap_acc_add_serv(
                       IF o.made THEN hap_serv_add_char(h, build.serv, c) ELSE h,
                       build.acc, build.serv)
                  /\ lost' = [lost EXCEPT !.blocks = @ + o.spilt]
                  /\ build' = IF build.left = 1 THEN [Idle EXCEPT !.kind = "shown", !.acc = build.acc]
                              ELSE [build EXCEPT !.left = @ - 1, !.serv = None, !.type = "switch",
                                                 !.todo = Services["switch"]]
                  /\ UNCHANGED hung
  /\ UNCHANGED <<primary, held, aids, members, again, unsaved, extras>>

hap_add_accessory ==
  /\ build.kind = "shown"
  /\ heap' = [heap EXCEPT !.accs[build.acc].aid = 1]
  /\ primary' = build.acc
  /\ members' = {[acc |-> build.acc, id |-> None]}
  /\ build' = Idle
  /\ UNCHANGED <<held, aids, hung, again, lost, unsaved, fails, extras>>

\* deleteAccessory(): primary_acc is left as it is.  The data of a
\* characteristic is not freed with it.
deleteAccessory ==
  /\ Ready /\ held["primary"] # None /\ Cardinality(members) <= 1
  /\ heap' = hap_acc_delete(heap, held["primary"])
  /\ lost' = [lost EXCEPT !.blocks = @ + Blocks(heap, AllChars(heap, {held["primary"]}), "data")]
  /\ held' = [held EXCEPT !["primary"] = None]
  /\ members' = {m \in members : m.acc # held["primary"]}
  /\ UNCHANGED <<primary, build, aids, hung, again, unsaved, fails, extras>>

---------------------------------------------------------------------------
(* What hap.h offers besides.                                              *)

Extra == extras < MaxExtras /\ extras' = extras + 1

\* An application gives an accessory another service, complete or not at all.
AddService ==
  /\ Ready /\ Extra
  /\ \E a \in DOMAIN heap.accs, t \in BridgedTypes :
       /\ a = held["bridged"]
       /\ build' = [Idle EXCEPT !.kind = "service", !.acc = a, !.type = t, !.todo = Services[t]]
  /\ UNCHANGED <<heap, primary, held, aids, hung, members, again, lost, unsaved, fails>>

FinishService ==
  /\ build.kind = "service" /\ build.todo = <<>> /\ (build.serv # None \/ build.type = "none")
  /\ heap' = IF build.serv = None THEN heap ELSE hap_acc_add_serv(heap, build.acc, build.serv)
  /\ build' = Idle
  /\ UNCHANGED <<primary, held, aids, hung, members, again, lost, unsaved, fails, extras>>

\* hap_serv_link_serv(): the last service names the Accessory Information service.
Link ==
  /\ Ready /\ Extra
  /\ \E a \in DOMAIN heap.accs :
       LET ss == heap.accs[a].servs
       IN /\ Len(ss) > 2 /\ heap.servs[ss[Len(ss)]].linked = <<>>
          /\ \/ heap' = [heap EXCEPT !.servs[ss[Len(ss)]].linked = Append(@, ss[1])] /\ Fine
             \/ Fail /\ UNCHANGED heap
  /\ UNCHANGED <<primary, held, build, aids, hung, members, again, lost, unsaved>>

\* hap_acc_add_accessory_flags() and hap_acc_add_product_data(): a characteristic
\* for a service that is already numbered.  The copy of the product data is lost
\* when its characteristic cannot be made.
AddInfo(name) ==
  /\ Ready /\ Extra
  /\ \E a \in DOMAIN heap.accs : \E s \in Info(heap, a) :
       \/ /\ Fine
          /\ heap' = hap_serv_add_char(
                       NewChar(heap, s, name, [made |-> TRUE, block |-> BlockOf(name), spilt |-> 0]),
                       s, Fresh(DOMAIN heap.chars, s))
          /\ UNCHANGED lost
       \/ /\ Fail
          /\ \/ UNCHANGED <<heap, lost>>
             \/ /\ BlockOf(name) = "data"
                /\ heap' = [heap EXCEPT !.blocks = @ + 1]
                /\ lost' = [lost EXCEPT !.blocks = @ + 1]
  /\ UNCHANGED <<primary, held, build, aids, hung, members, again, unsaved>>

---------------------------------------------------------------------------
(* Bridged accessories.                                                    *)

\* Follow[k] is what k steps along next lead to from primary_acc; it stays where
\* an accessory has been freed.
Follow(h) ==
  LET f[k \in 0..Cardinality(Accs)] ==
        IF k = 0 THEN primary
        ELSE IF f[k - 1] \in DOMAIN h.accs THEN h.accs[f[k - 1]].next ELSE f[k - 1]
  IN f

\* A list that has not ended after as many steps as there are accessories is
\* endless, or leads to freed memory.
Endless(h) == Follow(h)[Cardinality(Accs)] # None

\* The position of an accessory in the list, and the last one.
Place(h, a) == CHOOSE k \in 0..Cardinality(Accs) :
                 /\ Follow(h)[k] = a
                 /\ \A j \in 0..Cardinality(Accs) : Follow(h)[j] = a => k <= j
Last(h) == Follow(h)[Place(h, None) - 1]

\* Slip: the counter is not saved.
hap_get_next_aid_Slip(saved) == [aids EXCEPT !.cur = @ + 1]
hap_get_next_aid(saved) ==
  [aids EXCEPT !.cur = @ + 1, !.stored = IF saved THEN aids.cur + 1 ELSE @]

\* hap_get_unique_aid() finds the identifier in the keystore, or takes the next
\* id and stores it in two writes.
GetAid(id) ==
  /\ Ready /\ held["bridged"] # None /\ Begun
  /\ \A m \in members : m.id # id
  /\ IF id \in DOMAIN aids.ids
     THEN /\ build' = [Idle EXCEPT !.kind = "add", !.type = id, !.left = aids.ids[id]]
          /\ UNCHANGED <<aids, unsaved, fails>>
     ELSE /\ aids.cur < MaxAid
          /\ \/ Fine /\ aids' = hap_get_next_aid(TRUE) /\ UNCHANGED unsaved
             \/ Fail /\ aids' = hap_get_next_aid(FALSE) /\ unsaved' = TRUE
          /\ build' = [Idle EXCEPT !.kind = "store", !.type = id, !.left = aids'.cur]
  /\ UNCHANGED <<heap, primary, held, hung, members, again, lost, extras>>

StoreAid ==
  /\ build.kind = "store"
  /\ \/ Fine /\ aids' = [aids EXCEPT !.ids = With(@, build.type, build.left)]
     \/ Fail /\ UNCHANGED aids
  /\ build' = [build EXCEPT !.kind = "add"]
  /\ UNCHANGED <<heap, primary, held, hung, members, again, lost, unsaved, extras>>

\* hap_add_bridged_accessory(), with an id of its own when it is given 0.
AddToList(aid, id) ==
  LET a == held["bridged"]
  IN IF Endless(heap)
     THEN /\ hung' = "walk"
          /\ UNCHANGED <<heap, held, members, again>>
     ELSE /\ heap' = [heap EXCEPT !.accs[a].aid = aid, !.accs[Last(heap)].next = a]
          /\ members' = members \cup {[acc |-> a, id |-> id]}
          /\ again' = (again \/ heap.accs[a].aid # 0)
          /\ held' = [held EXCEPT !["bridged"] = None]
          /\ UNCHANGED hung

AddBridged ==
  /\ build.kind = "add"
  /\ AddToList(build.left, build.type)
  /\ build' = Idle
  /\ UNCHANGED <<primary, aids, lost, unsaved, fails, extras>>

AddBridgedNext ==
  /\ Ready /\ held["bridged"] # None /\ Begun
  /\ aids.cur < MaxAid
  /\ \/ Fine /\ aids' = hap_get_next_aid(TRUE) /\ UNCHANGED unsaved
     \/ Fail /\ aids' = hap_get_next_aid(FALSE) /\ unsaved' = TRUE
  /\ AddToList(aids'.cur, None)
  /\ UNCHANGED <<primary, build, lost, extras>>

\* hap_remove_bridged_accessory(): the removed accessory keeps its next pointer.
\* Slip: the rest of the list goes with it.
Unlinked_Slip(h, a, prev) == [h EXCEPT !.accs[prev].next = None]
Unlinked(h, a, prev) == [h EXCEPT !.accs[prev].next = h.accs[a].next]

RemoveBridged ==
  /\ Ready /\ held["bridged"] = None
  /\ \E m \in members :
       /\ m.acc # primary
       /\ IF m.acc \in Range(Follow(heap))
          THEN /\ heap' = Unlinked(heap, m.acc, Follow(heap)[Place(heap, m.acc) - 1])
               /\ UNCHANGED hung
          ELSE hung' = "walk" /\ UNCHANGED heap
       /\ held' = [held EXCEPT !["bridged"] = m.acc]
       /\ members' = members \ {m}
  /\ UNCHANGED <<primary, build, aids, again, lost, unsaved, fails, extras>>

DeleteBridged ==
  /\ Ready /\ held["bridged"] # None
  /\ heap' = hap_acc_delete(heap, held["bridged"])
  /\ lost' = [lost EXCEPT !.blocks = @ + Blocks(heap, AllChars(heap, {held["bridged"]}), "data")]
  /\ held' = [held EXCEPT !["bridged"] = None]
  /\ UNCHANGED <<primary, build, aids, hung, members, again, unsaved, fails, extras>>

\* hap_delete_all_accessories() reads next before it frees; in an endless list it
\* comes to an accessory that is freed already.
DeleteAll ==
  /\ Ready /\ Begun
  /\ LET as == Range(Follow(heap)) \ {None}
     IN IF Endless(heap) THEN hung' = "walk" /\ UNCHANGED <<heap, held, members, lost>>
        ELSE /\ heap' = [accs |-> Without(heap.accs, as),
                         servs |-> Without(heap.servs, UNION {Range(heap.accs[a].servs) : a \in as}),
                         chars |-> Without(heap.chars, AllChars(heap, as)),
                         blocks |-> heap.blocks - Blocks(heap, AllChars(heap, as), "text")]
             /\ lost' = [lost EXCEPT !.blocks = @ + Blocks(heap, AllChars(heap, as), "data")]
             /\ held' = [k \in DOMAIN held |-> IF held[k] \in as THEN None ELSE held[k]]
             /\ members' = {}
             /\ UNCHANGED hung
  /\ UNCHANGED <<primary, build, aids, again, unsaved, fails, extras>>

---------------------------------------------------------------------------
Init ==
  /\ heap = [accs |-> <<>>, servs |-> <<>>, chars |-> <<>>, blocks |-> 0]
  /\ primary = None /\ held = [k \in {"primary", "bridged"} |-> None] /\ build = Idle
  /\ aids = [cur |-> 1, stored |-> 1, ids |-> <<>>] /\ hung = None
  /\ members = {} /\ again = FALSE /\ lost = NothingLost /\ unsaved = FALSE
  /\ fails = 0 /\ extras = 0

\* A restart, at any step: cur_aid is what was saved.
Restart ==
  /\ heap # [accs |-> <<>>, servs |-> <<>>, chars |-> <<>>, blocks |-> 0]
  /\ heap' = [accs |-> <<>>, servs |-> <<>>, chars |-> <<>>, blocks |-> 0]
  /\ primary' = None /\ held' = [k \in {"primary", "bridged"} |-> None] /\ build' = Idle
  /\ aids' = [aids EXCEPT !.cur = aids.stored] /\ hung' = None
  /\ members' = {} /\ again' = FALSE /\ lost' = NothingLost
  /\ UNCHANGED <<unsaved, fails, extras>>

Next ==
  \/ \E kind \in {"primary", "bridged"} : BeginAcc(kind)
  \/ CreateServ \/ CreateChar \/ FinishOwnServ
  \/ beginAccessory \/ AddName \/ hap_add_accessory \/ deleteAccessory
  \/ AddService \/ FinishService \/ Link
  \/ AddInfo("accessory_flags") \/ AddInfo("product_data")
  \/ \E id \in Ids : GetAid(id)
  \/ StoreAid \/ AddBridged \/ AddBridgedNext \/ RemoveBridged \/ DeleteBridged \/ DeleteAll
  \/ Restart

Spec == Init /\ [][Next]_vars

---------------------------------------------------------------------------
(* Properties.                                                             *)

AttachedServs == UNION {Range(heap.accs[a].servs) : a \in DOMAIN heap.accs}

\* Whatever allocation fails and whatever is deleted when, every service and
\* characteristic in the heap belongs to an accessory or to the creation in
\* progress, and every text and data to a characteristic: except what
\* hap_acc_create(), a service without memory for itself, a string whose
\* characteristic fails, and product data are known to lose.
NoLeak ==
  LET inHand == IF build.serv = None THEN {} ELSE {build.serv}
      known == AttachedServs \cup inHand \cup lost.servs
  IN /\ DOMAIN heap.servs = known
     /\ DOMAIN heap.chars = lost.chars \cup UNION {CharsOf(heap, s) : s \in known}
     /\ heap.blocks = lost.blocks
          + Cardinality({c \in DOMAIN heap.chars : heap.chars[c].block # "none"})

\* Within an accessory no two services or characteristics have the same number
\* (HAP addresses them by it), also when something is added to a service that is
\* numbered already.
IidsUnique ==
  \A a \in DOMAIN heap.accs :
    LET ss == Range(heap.accs[a].servs)
        cs == UNION {CharsOf(heap, s) : s \in ss}
        iids == {heap.servs[s].iid : s \in ss} \cup {heap.chars[c].iid : c \in cs}
    IN /\ Cardinality(iids) = Cardinality(ss) + Cardinality(cs)
       /\ iids \subseteq 1..(heap.accs[a].next_iid - 1)

\* A service that an accessory has, has every characteristic its constructor
\* promises: one that could not be made never leaves half a service behind.
Complete ==
  \A s \in AttachedServs :
    LET names == {heap.chars[c].name : c \in CharsOf(heap, s)}
    IN /\ Range(Services[heap.servs[s].type]) \subseteq names
       /\ heap.servs[s].acc \in DOMAIN heap.accs

\* The accessories in the list have different ids, also after restarts at any
\* step of hap_get_unique_aid(), unless cur_aid could not be saved once.
AidsUnique ==
  unsaved \/ \A m, n \in members :
    m # n => heap.accs[m.acc].aid # heap.accs[n.acc].aid

\* So a controller's (aid, iid) never stands for two things.
NumbersUnique == IidsUnique /\ AidsUnique

\* The list from primary_acc ends and has every accessory that was added and not
\* removed, and no other, as long as none was added again after its removal.
ListSound ==
  Begun /\ ~again =>
    /\ ~Endless(heap)
    /\ Range(Follow(heap)) \ {None} = {m.acc : m \in members}
=============================================================================
