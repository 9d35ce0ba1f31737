---------------------------- MODULE MCHapRequests ----------------------------
(***************************************************************************)
(* The bridge of the firmware with two modules, and a service with a dimmer *)
(* and a lock from the profiles: the firmware creates no number to write,  *)
(* but the handler has them all.                                           *)
(***************************************************************************)
EXTENDS HapRequests

V(n) == [n |-> n, text |-> <<>>]
T(t) == [n |-> 0, text |-> <<t>>]
S(iid, type, chars) ==
  [iid |-> iid, type |-> type, chars |-> chars, write_cb |-> TRUE,
   hidden |-> FALSE, primary |-> FALSE, linked |-> <<>>]

\* By the profiles; the lock is made to ask for a timed write.
DbOf(profile) ==
  LET C(iid, name, val) == [iid |-> iid, char |-> profile[name], val |-> val, valid |-> <<>>]
      Info == S(1, "3E", <<C(2, "identify", V(0)), C(5, "name", T("nina"))>>)
      Protocol == [S(9, "A2", <<C(10, "name", V(0))>>) EXCEPT !.write_cb = FALSE]
      Switch(iid, name) == S(iid, "switch", <<C(iid + 1, "on", V(0)), C(iid + 2, "name", T(name))>>)
      Lock == [C(22, "lock_target_state", V(1)) EXCEPT !.char.perms = @ \cup {"TW"}, !.valid = <<0, 1>>]
      Others == [S(20, "others", <<C(21, "brightness", V(50)), Lock,
                                   C(23, "target_temperature", V(20 * One))>>) EXCEPT
                   !.hidden = TRUE, !.primary = TRUE, !.linked = <<11, 14>>]
  IN <<[aid |-> 1, servs |-> <<Info, Protocol, Switch(11, "lamp"), Switch(14, "fan"), Others>>]>>

MCDb == DbOf(Profile)
MCAddress == (12 :> 1) @@ (15 :> 2)

Member(name, lexeme) == [name |-> name, lexeme |-> lexeme]
E(iid, with) == [aid |-> 1, iid |-> iid, with |-> with]
Set(iid, lexeme) == E(iid, <<Member("value", lexeme)>>)
True == Word("true")
False == Word("false")

\* Every kind of element, one at a time.
Single == {
  Set(12, True), Set(12, Number(1)), Set(15, Number(2)), Set(15, Quoted("true")),
  E(12, <<Member("ev", True)>>), E(12, <<Member("ev", False), Member("value", True)>>), E(12, <<>>),
  E(12, <<Member("remote", True), Member("value", False)>>),
  Set(2, True), E(2, <<Member("ev", True)>>), Set(5, Quoted("x")),
  [Set(12, True) EXCEPT !.aid = 3], Set(10, Quoted("x")), Set(15, Number(0)),
  Set(21, Number(0)), Set(21, Number(100)), Set(21, Number(101)), Set(21, Number(-1)),
  Set(21, Number(255)), Set(21, Number(300)), Set(21, True),
  Set(23, Number(38)), Set(23, Number(39)), Set(23, True)}

\* Elements that may need a timed write, and those that stand together.
Timely == {Set(22, Number(1)), Set(22, True), Set(22, Number(2)), E(22, <<Member("ev", True)>>),
           Set(12, True)}
Mixed == {Set(15, False), E(15, <<Member("ev", True)>>), Set(77, True), Set(2, True), Set(22, Number(0))}

Plan(elems, pid, first, nested) ==
  [elems |-> elems, pid |-> pid, first |-> first, nested |-> nested, cut |-> 0]

Two == <<Set(15, True), Set(12, False)>>

MCDocuments ==
  {Plan(<<e>>, 0, TRUE, FALSE) : e \in Single}
  \cup {Plan(<<e>>, pid, TRUE, FALSE) : e \in Timely, pid \in 0..1}
  \cup {Plan(<<a, b>>, 0, FALSE, TRUE) : a \in Mixed, b \in Mixed}
  \cup {Plan(<<Set(12, True), a, Set(12, False)>>, pid, FALSE, TRUE) : a \in Mixed, pid \in 0..1}
  \cup {Plan(<<a, b, Set(15, True)>>, 0, TRUE, TRUE) : a \in Mixed, b \in Mixed}
  \cup {Plan(<<>>, 0, TRUE, FALSE), Plan(Two, 2, TRUE, FALSE)}
  \cup {[Plan(Two, 1, TRUE, FALSE) EXCEPT !.cut = k] : k \in {1, 2, 6, 13, 20, 27, 33, 36}}

MCPreparations ==
  {[pid |-> 1, ttl |-> 0], [pid |-> 1, ttl |-> 1], [pid |-> 2, ttl |-> 1], [pid |-> 0, ttl |-> 1],
   [pid |-> 1, ttl |-> -1]}
=============================================================================
