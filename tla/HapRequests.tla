----------------------------- MODULE HapRequests -----------------------------
(***************************************************************************)
(* The requests about characteristics of one verified connection           *)
(* (esp_hap_ip_services.c): PUT /prepare, PUT /characteristics and         *)
(* GET /accessories, with /mqtthost and /identify, from the JSON text that *)
(* arrives to the one that is sent back.  HapNotify has what several       *)
(* connections do to each other and GET /characteristics; here it is what  *)
(* one document asks, what it is answered and what is sent to the modules. *)
(*                                                                         *)
(* A write does not reach a write routine: the firmware collects the       *)
(* switches of all the elements and sends the modules one message.         *)
(***************************************************************************)
EXTENDS AppleProfiles, JsonText, FiniteSetsExt

CONSTANTS
  Db,           \* the accessories: sequences of services of characteristics
  Address,      \* of the module of each switch, by iid
  Documents,    \* of PUT /characteristics
  Preparations, \* of PUT /prepare
  OutBuf,       \* characters of the buffer of a reply of PUT
  AccBuf,       \* and of GET /accessories
  MaxEvents     \* requests, ticks and reports, together

VARIABLES
  now,       \* esp_timer_get_time() / 1000
  session,   \* pid, ttl and prepare_time of hap_secure_session_t
  on,        \* the value of each switch
  ev,        \* characteristics whose ev_ctrls has this connection's bit
  owner,     \* and those whose owner_ctrl has
  events,    \* requests, ticks and reports so far
  last,      \* the last request, with its answer
  prepared   \* for the properties: the preparation still to be consumed

vars == <<now, session, on, ev, owner, events, last, prepared>>

HAP_STATUS_SUCCESS == 0
HAP_STATUS_WR_ON_RDONLY == -70404
HAP_STATUS_NO_NOTIF == -70406
HAP_STATUS_RES_ABSENT == -70409
HAP_STATUS_VAL_INVALID == -70410
HAP_STATUS_INSUFFICIENT_AUTH == -70411

---------------------------------------------------------------------------
(* The accessories.  acc, serv and char of a place are indexes.            *)

Places == {p \in [acc : DOMAIN Db, serv : 1..6, char : 1..4] :
             /\ p.serv \in DOMAIN Db[p.acc].servs
             /\ p.char \in DOMAIN Db[p.acc].servs[p.serv].chars}

ServiceAt(p) == Db[p.acc].servs[p.serv]
CharAt(p) == ServiceAt(p).chars[p.char]

\* hap_acc_get_by_aid() and hap_acc_get_char_by_iid().
Found(aid, iid) == {p \in Places : Db[p.acc].aid = aid /\ CharAt(p).iid = iid}

Switches == DOMAIN Address

---------------------------------------------------------------------------
(* Documents.  An element has an aid, an iid and the members in with, each *)
(* a name and a lexeme.  nested puts a member with a member aid of its own *)
(* first; first says that pid stands before the elements; cut, if not 0,   *)
(* is where the text ends too early.                                       *)

Field(name, lexemes) == <<Quoted(name), Mark(":")>> \o lexemes

List(open, parts, close) ==
  <<Mark(open)>>
    \o InTurn(LAMBDA s, n : s \o (IF n = 1 THEN <<>> ELSE <<Mark(",")>>) \o parts[n],
                <<>>, [n \in DOMAIN parts |-> n])
    \o <<Mark(close)>>

Nested == Field("x", List("{", <<Field("aid", <<Number(9)>>),
                                 Field("y", List("[", <<<<Number(1)>>, <<Number(2)>>>>, "]"))>>, "}"))

ElementText(e, nested) ==
  List("{", (IF nested THEN <<Nested>> ELSE <<>>)
             \o <<Field("aid", <<Number(e.aid)>>), Field("iid", <<Number(e.iid)>>)>>
             \o [n \in DOMAIN e.with |-> Field(e.with[n].name, <<e.with[n].lexeme>>)], "}")

PidPart(d) == IF d.pid = 0 THEN <<>> ELSE <<Field("pid", <<Number(d.pid)>>)>>

DocumentText(d) ==
  LET elems == <<Field("characteristics",
                   List("[", [n \in DOMAIN d.elems |-> ElementText(d.elems[n], d.nested)], "]"))>>
      whole == List("{", IF d.first THEN PidPart(d) \o elems ELSE elems \o PidPart(d), "}")
  IN IF d.cut = 0 THEN whole ELSE SubSeq(whole, 1, d.cut)

\* What json_parse_start() makes of each document when there is memory for it.
Contexts == [d \in Documents |-> json_parse_start(DocumentText(d), TRUE)]

PrepareText(d) ==
  List("{", PidPart(d) \o (IF d.ttl < 0 THEN <<>> ELSE <<Field("ttl", <<Number(d.ttl)>>)>>), "}")

---------------------------------------------------------------------------
(* The value of a write.                                                   *)

Unsigned(n) == n % 2^IntBits

\* val.b of the union is also the lowest byte of val.i, which starts at 0.
IntValue(c, format) ==
  LET OrBool(i) == IF i.ok \/ format # "uint8" THEN i ELSE json_obj_get_bool(c, "value")
  IN OrBool(json_obj_get_int(c, "value"))

\* A float is counted in ten-thousandths, as those of the profiles are.
FloatValue(f) == [f EXCEPT !.val = @ * One]

\* A text is copied if there is memory for it; what it says is left out.
GetValue(c, format) ==
  CASE format = "bool" -> json_obj_get_bool(c, "value")
    [] format \in {"uint8", "uint16", "uint32", "int"} -> IntValue(c, format)
    [] format = "float" -> FloatValue(json_obj_get_float(c, "value"))
    [] format \in {"string", "data", "tlv8"} -> json_obj_get_strlen(c, "value")
    [] OTHER -> Fail

WithinConstraints(char, v) ==
  LET U(n) == IF char.format \in {"int", "float"} THEN n ELSE Unsigned(n) IN
  \/ char.flags = {}
  \/ char.format \notin {"int", "uint8", "uint16", "uint32", "float"}
  \/ /\ U(v) <= U(char.max) /\ U(v) >= U(char.min)
     /\ char.step # 0 /\ char.format # "float" => (U(v) - U(char.min)) % char.step = 0

---------------------------------------------------------------------------
(* PUT /characteristics: hap_http_handle_set_char().  h is what it has got *)
(* done after some elements.                                               *)

ReportStatus(h, aid, iid, status) ==
  LET open == IF h.include_status THEN h.jstr
              ELSE json_gen_push_array(json_gen_start_object(h.jstr), "characteristics")
      report == json_gen_obj_set_int(json_gen_obj_set_int(json_gen_obj_set_int(
                  json_gen_start_object(open), "aid", aid), "iid", iid), "status", status)
  IN [h EXCEPT !.include_status = TRUE, !.jstr = json_gen_end_object(report)]

\* The status an element is refused with, or 0: the checks in the code's order.
Refusal(h, p, char, value) ==
  IF h.req_tw /\ ~h.valid_tw THEN HAP_STATUS_VAL_INVALID
  ELSE IF "TW" \in char.perms /\ ~h.valid_tw THEN HAP_STATUS_VAL_INVALID
  ELSE IF json_obj_get_bool(h.ctx, "ev").ok
    THEN IF "EV" \in char.perms THEN 0 ELSE HAP_STATUS_NO_NOTIF
  ELSE IF "PW" \notin char.perms THEN HAP_STATUS_WR_ON_RDONLY
  ELSE IF "AA" \in char.perms /\ ~json_obj_get_strlen(h.ctx, "authData").ok
    THEN HAP_STATUS_INSUFFICIENT_AUTH
  ELSE IF ~ServiceAt(p).write_cb \/ ~value.ok THEN HAP_STATUS_VAL_INVALID
  ELSE IF ~WithinConstraints(char, value.val) THEN HAP_STATUS_VAL_INVALID
  ELSE 0

Subscribe(h, p, b) ==
  [h EXCEPT !.ev = IF b = 1 THEN @ \cup {CharAt(p).iid} ELSE @ \ {CharAt(p).iid}]

Accept(h, p, value) ==
  [h EXCEPT !.owner = @ \cup {CharAt(p).iid},
            !.write_arr = Append(@, [place |-> p, val |-> value.val])]

SetCharAt(h, p, event, value, status) ==
  IF status # 0 THEN ReportStatus(h, Db[p.acc].aid, CharAt(p).iid, status)
  ELSE IF event.ok THEN Subscribe(h, p, event.val)
  ELSE Accept(h, p, value)

SetFound(h, p, char, value) ==
  SetCharAt(h, p, json_obj_get_bool(h.ctx, "ev"), value, Refusal(h, p, char, value))

\* The element that h.ctx is at.
SetObject(h, aid, iid) ==
  LET hc == Found(aid, iid)
      Chosen(p) == SetFound(h, p, CharAt(p).char, GetValue(h.ctx, CharAt(p).char.format))
  IN IF hc = {} THEN ReportStatus(h, aid, iid, HAP_STATUS_RES_ABSENT)
     ELSE Chosen(CHOOSE q \in hc : TRUE)

SetElement(h, i) ==
  LET At(a) == SetObject(a, json_obj_get_int(a.ctx, "aid").val, json_obj_get_int(a.ctx, "iid").val)
  IN At([h EXCEPT !.ctx = json_arr_get_object(json_arr_leave_object(h.ctx), i)])

IsOn(w) == CharAt(w.place).char.name = "on"
ServiceOf(w) == <<w.place.acc, w.place.serv>>

DO_TURN_ON == "n"
DO_TURN_OFF == "f"

\* CoreBridge_getModuleAddrByHc(): 0 for the characteristic of no module.
AddressOf(iid) == IF iid \in Switches THEN Address[iid] ELSE 0

WriteStatus(w) == IF IsOn(w) THEN HAP_STATUS_SUCCESS ELSE HAP_STATUS_RES_ABSENT

\* addrs and acts of the writes from to to.
Pairs(ws) ==
  LET ons == SelectSeq(ws, IsOn)
  IN [n \in DOMAIN ons |-> [addr |-> AddressOf(CharAt(ons[n].place).iid),
                            act |-> IF ons[n].val = 0 THEN DO_TURN_OFF ELSE DO_TURN_ON]]

\* Slip: nothing is collected after the last write.
Collect_Slip(write_arr) ==
  LET n == Len(write_arr)
      same == SelectInSeq([i \in 1..n |-> ServiceOf(write_arr[n + 1 - i])],
                          LAMBDA s : s # ServiceOf(write_arr[n]))
  IN IF same = 0 THEN <<>> ELSE Pairs(SubSeq(write_arr, 1, n + 1 - same))

\* The writes are taken in runs of one service: a run ends where the service
\* changes, and the last one after the last write.
Collect(write_arr) ==
  LET n == Len(write_arr)
      Ends(i, hs) == i > n \/ ServiceOf(write_arr[i]) # hs
      Step(c, i) ==
        IF ~Ends(i, c.hs) THEN c
        ELSE [pairs |-> c.pairs \o Pairs(SubSeq(write_arr, c.hs_index, i - 1)),
              hs_index |-> IF i <= n THEN i ELSE c.hs_index,
              hs |-> IF i <= n THEN ServiceOf(write_arr[i]) ELSE c.hs]
  IN InTurn(Step, [pairs |-> <<>>, hs_index |-> 1, hs |-> ServiceOf(write_arr[1])],
              [i \in 1..(n + 1) |-> i]).pairs

\* The reports of the writes that were accepted, when some element was not.
ReportWrites(h) ==
  IF ~h.include_status THEN h
  ELSE InTurn(LAMBDA a, w : ReportStatus(a, Db[w.place.acc].aid, CharAt(w.place).iid, WriteStatus(w)),
                h, h.write_arr)

SetCharEnd(h) ==
  IF ~h.include_status THEN h
  ELSE [h EXCEPT !.jstr = json_gen_str_end(json_gen_end_object(json_gen_pop_array(@)))]

\* Slip: the time since the preparation is not looked at.
TimedWrite_Slip(pid) ==
  [req |-> session.prepare_time # 0 \/ pid.ok, valid |-> pid.ok /\ pid.val = session.pid]

\* A preparation is for the next write only, and for the one with its pid.
TimedWrite(pid) ==
  [req |-> session.prepare_time # 0 \/ pid.ok,
   valid |-> pid.ok /\ pid.val = session.pid /\ now - session.prepare_time <= session.ttl]

NoSession == [pid |-> 0, ttl |-> 0, prepare_time |-> 0]

\* The elements and the reports; memory says that the arrays could be allocated.
SetChar(ctx, size, tw, memory) ==
  LET h == [ctx |-> json_arr_get_object(ctx, 0), jstr |-> json_gen_str_start(OutBuf),
            include_status |-> FALSE, req_tw |-> tw.req, valid_tw |-> tw.valid,
            ev |-> ev, owner |-> owner, write_arr |-> <<>>]
  IN IF memory THEN InTurn(SetElement, h, [i \in 1..size |-> i - 1]) ELSE h

---------------------------------------------------------------------------
(* Answers.  chunks are what httpd_resp_send_chunk() was given, the empty  *)
(* one that ends them included; a status of its own is sent at once.       *)

Answer(status, chunks) == [status |-> status, chunks |-> chunks]
NoAnswer == Answer("none", <<>>)

Event == last.op = "none" /\ events < MaxEvents /\ events' = events + 1

Nothing == [op |-> "none", doc |-> <<>>, valid |-> FALSE, was |-> <<>>, cmds |-> <<>>,
            writes |-> 0, events |-> {}, short |-> FALSE, answer |-> NoAnswer]

PutRecord(d, short) ==
  [Nothing EXCEPT !.op = "put", !.doc = <<d>>, !.was = <<prepared>>, !.short = short]

\* The document cannot be read: the session and its preparation stay as they are.
PutRefused(d, heap) ==
  /\ last' = [PutRecord(d, ~heap) EXCEPT !.answer = Answer("500", <<>>)]
  /\ UNCHANGED <<now, session, on, ev, owner, prepared>>

\* What hap_http_handle_set_char() comes to: h after the elements, the end of the
\* reply and the pairs of addresses and actions.
Outcome(ctx, memory) ==
  LET Ended(h, size) ==
        [h |-> h, size |-> size, valid |-> h.valid_tw,
         end |-> SetCharEnd(IF h.write_arr = <<>> THEN h ELSE ReportWrites(h)),
         pairs |-> IF h.write_arr = <<>> THEN <<>> ELSE Collect(h.write_arr)]
      Done(array, tw) == Ended(SetChar(array.ctx, array.size, tw, memory), array.size)
  IN Done(json_obj_get_array(ctx, "characteristics"), TimedWrite(json_obj_get_int64(ctx, "pid")))

\* ret is declared after the jumps to set_char_end: it is anything where nothing
\* was written and nothing refused.
Rets(o) == IF o.h.write_arr = <<>> /\ ~o.end.include_status THEN BOOLEAN ELSE {~o.end.include_status}

\* The message has as many pairs as there were writes, filled or not.
Junk(o) == IF Len(o.pairs) < Len(o.h.write_arr) THEN 0..1 ELSE {0}

PutHandled(d, ctx, memory) ==
  \E o \in {Outcome(ctx, memory)} :
    /\ session' = NoSession /\ prepared' = NoSession
    /\ ev' = o.h.ev /\ owner' = o.h.owner
    /\ \E ret \in Rets(o), junk \in Junk(o) :
         last' = [PutRecord(d, ~memory) EXCEPT
            !.valid = o.valid, !.events = o.h.ev, !.writes = Len(o.h.write_arr),
            !.cmds = [n \in DOMAIN o.h.write_arr |->
                        IF n <= Len(o.pairs) THEN o.pairs[n] ELSE [addr |-> junk, act |-> DO_TURN_ON]],
            !.answer = IF o.size <= 0 \/ ~ret THEN Answer("207", Append(o.end.jstr.sent, <<>>))
                       ELSE Answer("204", <<>>)]
    /\ UNCHANGED <<now, on>>

Context(d, heap) == IF heap THEN Contexts[d] ELSE NoContext

PutParsed(d, ctx, heap, memory) ==
  IF ctx.ok THEN PutHandled(d, ctx, memory) ELSE PutRefused(d, heap)

PutCharacteristics(d, heap, memory) == PutParsed(d, Context(d, heap), heap, memory)

---------------------------------------------------------------------------
(* PUT /prepare, /mqtthost and POST /identify.                             *)

StatusText(n) == <<"{\"status\":", ToString(n), "}">>

Prepared(answer, short) ==
  last' = [Nothing EXCEPT !.op = "prepare", !.short = short, !.answer = answer]

PrepareWrite(pid, ttl) ==
  IF ~pid.ok \/ ~ttl.ok
  THEN /\ UNCHANGED <<session, prepared>>
       /\ Prepared(Answer("200", <<StatusText(HAP_STATUS_VAL_INVALID)>>), FALSE)
  ELSE /\ session' = [pid |-> pid.val, ttl |-> ttl.val, prepare_time |-> now]
       /\ prepared' = session'
       /\ Prepared(Answer("200", <<StatusText(0)>>), FALSE)

PutPrepare(d, heap) ==
  LET Handled(ctx) ==
        IF ctx.ok THEN PrepareWrite(json_obj_get_int64(ctx, "pid"), json_obj_get_int64(ctx, "ttl"))
        ELSE Prepared(Answer("500", <<>>), ~heap) /\ UNCHANGED <<session, prepared>>
  IN Handled(json_parse_start(PrepareText(d), heap))

\* The message is parsed and dropped; nobody has to be verified.
PutMqtthost(d, heap) ==
  LET ctx == json_parse_start(PrepareText(d), heap)
  IN last' = [Nothing EXCEPT !.op = "mqtthost", !.answer = Answer(IF ctx.ok THEN "200" ELSE "500", <<>>)]

\* Of a paired accessory, as one with this connection is.
PostIdentify ==
  last' = [Nothing EXCEPT !.op = "identify", !.answer = Answer("400", <<StatusText(-70401)>>)]

---------------------------------------------------------------------------
(* GET /accessories.  mem says that the arrays of hap_prepare_serv_db()    *)
(* could be allocated.                                                     *)

CharVal(char) ==
  IF char.iid \in Switches THEN [n |-> IF on[char.iid] THEN 1 ELSE 0, text |-> <<>>] ELSE char.val

AddVal(j, format, key, v) ==
  CASE format = "bool" -> json_gen_obj_set_bool(j, key, v.n)
    [] format \in {"uint8", "uint16", "uint32", "int"} -> json_gen_obj_set_int(j, key, v.n)
    [] format = "float" -> json_gen_obj_set_float(j, key, v.n)
    [] format \in {"string", "data", "tlv8"} /\ v.text = <<>> -> json_gen_obj_set_null(j, key)
    [] format = "string" /\ v.text # <<>> -> json_gen_obj_set_string(j, key, v.text[1])
    [] OTHER -> json_gen_end_long_string(
                  InTurn(json_gen_add_to_long_string, json_gen_obj_start_long_string(j, key), v.text))

If(b, j, k) == IF b THEN j ELSE k

AddLimit(j, char, flag, key, n) ==
  IF flag \in char.flags THEN AddVal(j, char.format, key, [n |-> n, text |-> <<>>]) ELSE j

AddMeta(j, char) ==
  LET format == json_gen_obj_set_string(j, "format", char.format)
      min == AddLimit(format, char, MIN, "minValue", char.min)
      max == AddLimit(min, char, MAX, "maxValue", char.max)
  IN AddLimit(max, char, STEP, "minStep", char.step)

PermNames == <<"PR", "PW", "EV", "AA", "TW", "HD">>

AddPerms(j, char) ==
  json_gen_pop_array(
    InTurn(json_gen_arr_set_string, json_gen_push_array(j, "perms"),
             SelectSeq(PermNames, LAMBDA p : p \in char.perms)))

AddValidVals(j, vals) ==
  If(vals # <<>>,
     json_gen_pop_array(InTurn(json_gen_arr_set_int, json_gen_push_array(j, "valid-values"), vals)), j)

CharDb(j, c) ==
  LET iid == json_gen_obj_set_int(json_gen_start_object(j), "iid", c.iid)
      value == IF "PR" \notin c.char.perms THEN iid
               ELSE IF "SPECIAL_READ" \in c.char.perms THEN json_gen_obj_set_null(iid, "value")
               ELSE AddVal(iid, c.char.format, "value", CharVal(c))
      type == json_gen_obj_set_string(value, "type", c.char.name)
      flag == json_gen_obj_set_bool(AddPerms(type, c.char), "ev", IF c.iid \in ev THEN 1 ELSE 0)
  IN json_gen_end_object(AddValidVals(AddMeta(flag, c.char), c.valid))

\* Without memory the object and its array are left open.
ServDb(j, s, mem) ==
  LET type == json_gen_obj_set_string(json_gen_obj_set_int(json_gen_start_object(j), "iid", s.iid),
                                      "type", s.type)
      hidden == If(s.hidden, json_gen_obj_set_bool(type, "hidden", 1), type)
      primary == If(s.primary, json_gen_obj_set_bool(hidden, "primary", 1), hidden)
      linked == If(s.linked # <<>>,
                   json_gen_pop_array(InTurn(json_gen_arr_set_int,
                                        json_gen_push_array(primary, "linked"), s.linked)), primary)
      chars == json_gen_push_array(linked, "characteristics")
      readable == \E n \in DOMAIN s.chars : "PR" \in s.chars[n].char.perms
  IN IF readable /\ ~mem THEN chars
     ELSE json_gen_end_object(json_gen_pop_array(InTurn(CharDb, chars, s.chars)))

AccDb(j, a, mem) ==
  LET aid == json_gen_obj_set_int(json_gen_start_object(j), "aid", a.aid)
  IN json_gen_end_object(json_gen_pop_array(
       InTurn(LAMBDA k, s : ServDb(k, s, mem), json_gen_push_array(aid, "services"), a.servs)))

JsonDatabase(mem) ==
  LET open == json_gen_push_array(json_gen_start_object(json_gen_str_start(AccBuf)), "accessories")
      accs == InTurn(LAMBDA j, a : AccDb(j, a, mem), open, Db)
  IN json_gen_str_end(json_gen_end_object(json_gen_pop_array(accs)))

Readable == {CharAt(p).iid : p \in {q \in Places : "PR" \in CharAt(q).char.perms}}

\* No service has a read routine, so no value is updated on the way and every
\* owner is forgotten again.
GetAccessories(mem) ==
  /\ last' = [Nothing EXCEPT !.op = "get", !.short = ~mem, !.was = <<on, ev>>,
                !.answer = Answer("200", Append(JsonDatabase(mem).sent, <<>>))]
  /\ owner' = {i \in owner : ~mem /\ i \in Readable}

---------------------------------------------------------------------------
(* The connection.                                                         *)

Init ==
  /\ now = 1 /\ events = 0
  /\ session = NoSession /\ prepared = NoSession
  /\ on = [i \in Switches |-> FALSE]
  /\ ev = {} /\ owner = {}
  /\ last = Nothing

\* The controller has the answer.
Done == last.op # "none" /\ last' = Nothing
        /\ UNCHANGED <<now, session, on, ev, owner, events, prepared>>

Tick ==
  /\ Event
  /\ now' = now + 1
  /\ UNCHANGED <<session, on, ev, owner, last, prepared>>

\* A module says that its switch has changed.
Report(i) ==
  /\ Event /\ ~on[i]
  /\ on' = [on EXCEPT ![i] = TRUE]
  /\ UNCHANGED <<now, session, ev, owner, last, prepared>>

Put(d) == Event /\ \E heap, memory \in BOOLEAN : PutCharacteristics(d, heap, memory)

Prepare(d) ==
  /\ Event /\ \E heap \in BOOLEAN : PutPrepare(d, heap)
  /\ UNCHANGED <<now, on, ev, owner>>

Get == Event /\ (\E mem \in BOOLEAN : GetAccessories(mem))
       /\ UNCHANGED <<now, session, on, ev, prepared>>

Mqtthost(d) == Event /\ (\E heap \in BOOLEAN : PutMqtthost(d, heap))
               /\ UNCHANGED <<now, session, on, ev, owner, prepared>>

Identify == Event /\ PostIdentify /\ UNCHANGED <<now, session, on, ev, owner, prepared>>

Next ==
  \/ Done \/ Tick \/ (\E i \in Switches : Report(i))
  \/ (\E d \in Documents : Put(d))
  \/ (\E d \in Preparations : Prepare(d))
  \/ Get \/ (\E d \in Preparations : Mqtthost(d)) \/ Identify

Spec == Init /\ [][Next]_vars

---------------------------------------------------------------------------
(* What the answers should say, from the document and not from its text.   *)

RECURSIVE Rendered(_)

Joined(parts) ==
  InTurn(LAMBDA s, n : s \o (IF n = 1 THEN <<>> ELSE <<",">>) \o parts[n], <<>>,
           [n \in DOMAIN parts |-> n])

\* A value is [kind, atoms, items]; an item has a name and a value.
Rendered(v) ==
  CASE v.kind = "atom" -> v.atoms
    [] v.kind = "list" -> <<"[">> \o Joined([n \in DOMAIN v.items |-> Rendered(v.items[n].value)]) \o <<"]">>
    [] v.kind = "object" ->
         <<"{">> \o Joined([n \in DOMAIN v.items |->
                     <<"\"", v.items[n].name, "\"", ":">> \o Rendered(v.items[n].value)]) \o <<"}">>

Atom(t) == [kind |-> "atom", atoms |-> t, items |-> <<>>]
Digits(n) == Atom(<<ToString(n)>>)
Text(t) == Atom(<<"\"", t, "\"">>)
Bool(b) == Atom(<<IF b THEN "true" ELSE "false">>)
Null == Atom(<<"null">>)
Item(name, v) == <<[name |-> name, value |-> v]>>
When(b, items) == IF b THEN items ELSE <<>>
Object(items) == [kind |-> "object", atoms |-> <<>>, items |-> items]
ListOf(vs) == [kind |-> "list", atoms |-> <<>>, items |-> [n \in DOMAIN vs |-> [name |-> "", value |-> vs[n]]]]

Whole(chunks) == InTurn(LAMBDA s, c : s \o c, <<>>, chunks)

\* Only the chunk that ends the answer is empty, and none exceeds its buffer.
WellChunked(chunks, room) ==
  \A n \in DOMAIN chunks : (chunks[n] = <<>>) = (n = Len(chunks)) /\ Len(chunks[n]) <= room

With(e, name) == {n \in DOMAIN e.with : e.with[n].name = name}
Has(e, name) == With(e, name) # {}
Lexeme(e, name) == e.with[CHOOSE n \in With(e, name) : TRUE].lexeme

AsBool(l) == IF l.t \in {"true", "1"} /\ l.k # "string" THEN 1 ELSE 0
IsBool(l) == l.t \in {"true", "false", "0", "1"} /\ l.k # "string"

Allowed(char, l) ==
  CASE char.format = "bool" -> IsBool(l)
    [] char.format = "string" -> l.k = "string"
    [] char.format = "uint8" /\ l.k = "word" -> IsBool(l)
    [] char.format = "float" -> l.k = "number" /\ l.n * One \in char.min..char.max
    [] OTHER -> /\ l.k = "number"
                /\ char.flags # {} => /\ l.n \in char.min..char.max
                                      /\ char.step # 0 => (l.n - char.min) % char.step = 0

\* What an element deserves: a status to refuse it with, or 0.
OfChar(e, char, timed, valid) ==
  IF (timed \/ "TW" \in char.perms) /\ ~valid THEN HAP_STATUS_VAL_INVALID
  ELSE IF Has(e, "ev") THEN IF "EV" \in char.perms THEN 0 ELSE HAP_STATUS_NO_NOTIF
  ELSE IF "PW" \notin char.perms THEN HAP_STATUS_WR_ON_RDONLY
  ELSE IF "AA" \in char.perms /\ ~Has(e, "authData") THEN HAP_STATUS_INSUFFICIENT_AUTH
  ELSE IF Has(e, "value") /\ Allowed(char, Lexeme(e, "value")) THEN 0
  ELSE HAP_STATUS_VAL_INVALID

Verdict(e, timed, valid) ==
  LET Among(found) == IF found = {} THEN HAP_STATUS_RES_ABSENT
                      ELSE OfChar(e, CharAt(CHOOSE q \in found : TRUE).char, timed, valid)
  IN Among(Found(e.aid, e.iid))

StatusReport(aid, iid, status) ==
  Object(Item("aid", Digits(aid)) \o Item("iid", Digits(iid)) \o Item("status", Digits(status)))

Doc == last.doc[1]
Timed == Doc.pid # 0 \/ last.was[1] # NoSession
Judged(e) == Verdict(e, Timed, last.valid)
Refused == SelectSeq(Doc.elems, LAMBDA e : Judged(e) # 0)
Granted == SelectSeq(Doc.elems, LAMBDA e : Judged(e) = 0 /\ ~Has(e, "ev"))
NameOf(e) == CharAt(CHOOSE q \in Found(e.aid, e.iid) : TRUE).char.name
IsSwitch(e) == NameOf(e) = "on"

HandledPut == last.op = "put" /\ last.answer.status # "500" /\ ~last.short

\* PUT /characteristics: a document that ends too early changes nothing and is
\* answered 500.  Of any other, the answer names every element that was refused,
\* with its own ids and its own status, and, when there is one, every switch that
\* was written; it is well-formed however often the buffer was flushed.  204 is
\* only said when nothing was refused.
Reported ==
  /\ last.op = "put" /\ ~last.short => (last.answer.status = "500") = (Doc.cut # 0)
  /\ HandledPut =>
       LET Of207(reports) ==
             /\ last.answer.status = "207" /\ WellChunked(last.answer.chunks, OutBuf)
             /\ Whole(last.answer.chunks) = Rendered(Object(Item("characteristics", ListOf(reports))))
           Answered(refused, granted) ==
             IF refused # <<>>
             THEN Of207([n \in DOMAIN refused |-> StatusReport(refused[n].aid, refused[n].iid, Judged(refused[n]))]
                        \o [n \in DOMAIN granted |-> StatusReport(granted[n].aid, granted[n].iid,
                              IF IsSwitch(granted[n]) THEN 0 ELSE HAP_STATUS_RES_ABSENT)])
             ELSE \/ last.answer = Answer("204", <<>>)
                  \/ granted = <<>> /\ last.answer = Answer("207", <<<<>>>>)
       IN Answered(Refused, Granted)

\* PUT /characteristics: when the writes that are accepted are all of switches,
\* the one message to the modules has them all, once each and in the order of the
\* document, for the module of the switch and with its value; else it begins so.
\* A connection is then subscribed to what the elements with "ev" asked.
WriteExact ==
  HandledPut =>
    LET Wanted(ons) == [n \in DOMAIN ons |->
                          [addr |-> Address[ons[n].iid],
                           act |-> IF AsBool(Lexeme(ons[n], "value")) = 1 THEN DO_TURN_ON ELSE DO_TURN_OFF]]
    IN /\ IsPrefix(Wanted(SelectSeq(Granted, IsSwitch)), last.cmds)
       /\ Len(last.cmds) = Len(Granted)
       /\ \A n \in DOMAIN Doc.elems :
            LET e == Doc.elems[n] IN
            (/\ Has(e, "ev") /\ Judged(e) = 0
             /\ \A m \in (n + 1)..Len(Doc.elems) : Doc.elems[m].iid # e.iid)
              => (e.iid \in last.events) = (AsBool(Lexeme(e, "ev")) = 1)

\* Timed writes: after a preparation only the very next write is carried out, only
\* with its pid and only in its time; a write with a pid nobody prepared, or whose
\* preparation an earlier write has used up, changes nothing.
TimedOnly ==
  LET was == last.was[1]
      due == was # NoSession /\ Doc.pid = was.pid /\ now <= was.prepare_time + was.ttl
  IN last.op = "put" /\ (Doc.pid # 0 \/ was # NoSession) /\ ~due => last.cmds = <<>> /\ last.writes = 0

ServiceTree(s, vals, evs) ==
  LET V(c) == IF c.iid \in Switches THEN Bool(vals[c.iid])
              ELSE IF c.val.text = <<>>
                THEN IF c.char.format \in {"string", "tlv8", "data"} THEN Null
                     ELSE IF c.char.format = "bool" THEN Bool(c.val.n # 0) ELSE Digits(c.val.n)
              ELSE Atom(<<"\"">> \o c.val.text \o <<"\"">>)
      C(c) == Object(
        Item("iid", Digits(c.iid))
        \o When("PR" \in c.char.perms, Item("value", IF "SPECIAL_READ" \in c.char.perms THEN Null ELSE V(c)))
        \o Item("type", Text(c.char.name))
        \o Item("perms", ListOf([n \in 1..Cardinality(c.char.perms \cap Range(PermNames)) |->
             Text(SelectSeq(PermNames, LAMBDA p : p \in c.char.perms)[n])]))
        \o Item("ev", Bool(c.iid \in evs))
        \o Item("format", Text(c.char.format))
        \o When(MIN \in c.char.flags, Item("minValue", Digits(c.char.min)))
        \o When(MAX \in c.char.flags, Item("maxValue", Digits(c.char.max)))
        \o When(STEP \in c.char.flags, Item("minStep", Digits(c.char.step)))
        \o When(c.valid # <<>>, Item("valid-values", ListOf([n \in DOMAIN c.valid |-> Digits(c.valid[n])]))))
  IN Object(Item("iid", Digits(s.iid)) \o Item("type", Text(s.type))
            \o When(s.hidden, Item("hidden", Bool(TRUE))) \o When(s.primary, Item("primary", Bool(TRUE)))
            \o When(s.linked # <<>>, Item("linked", ListOf([n \in DOMAIN s.linked |-> Digits(s.linked[n])])))
            \o Item("characteristics", ListOf([n \in DOMAIN s.chars |-> C(s.chars[n])])))

Tree(vals, evs) ==
  Object(Item("accessories", ListOf([a \in DOMAIN Db |->
    Object(Item("aid", Digits(Db[a].aid))
           \o Item("services", ListOf([n \in DOMAIN Db[a].servs |->
                                         ServiceTree(Db[a].servs[n], vals, evs)])))])))

\* GET /accessories: however the text falls into buffers, the answer is the whole
\* database in well-formed JSON, with the values and subscriptions of the moment
\* and no value of a characteristic that may not be read.
Served ==
  last.op = "get" /\ ~last.short =>
    /\ WellChunked(last.answer.chunks, AccBuf)
    /\ Whole(last.answer.chunks) = Rendered(Tree(last.was[1], last.was[2]))
=============================================================================
