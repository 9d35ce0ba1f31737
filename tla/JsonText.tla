------------------------------- MODULE JsonText -------------------------------
(***************************************************************************)
(* The JSON library of the HomeKit core: the parser (jsmn in strict mode   *)
(* with parent links, and json_parser.c over its tokens) and the generator *)
(* (json_generator.c), which writes into a buffer and flushes it.          *)
(*                                                                         *)
(* A text that is read is a sequence of lexemes; white space, escapes and  *)
(* the digits of a number are left out.  A text that is written is a       *)
(* sequence of characters where a name or a value counts as one.  An index *)
(* of a token is one more than in the code, and 0 for -1.                  *)
(***************************************************************************)
EXTENDS Integers, Sequences, SequencesExt, TLC

CONSTANT IntBits  \* width of int and of unsigned long

Mark(t) == [k |-> "mark", t |-> t, n |-> 0]
Quoted(t) == [k |-> "string", t |-> t, n |-> 0]
Number(n) == [k |-> "number", t |-> ToString(n), n |-> n]
Word(t) == [k |-> "word", t |-> t, n |-> 0]
Unclosed(t) == [k |-> "unclosed", t |-> t, n |-> 0]  \* a string the text ends in

\* FoldLeft, with each result computed before the next one is asked for.
RECURSIVE FoldFrom(_, _, _, _)
FoldFrom(Op(_, _), base, seq, i) ==
  IF i > Len(seq) THEN base
  ELSE CHOOSE r \in {FoldFrom(Op, b, seq, i + 1) : b \in {Op(base, seq[i])}} : TRUE
InTurn(Op(_, _), base, seq) == FoldFrom(Op, base, seq, 1)

Fail == [ok |-> FALSE, val |-> 0]
Got(v) == [ok |-> TRUE, val |-> v]

---------------------------------------------------------------------------
(* jsmn.h.  max is num_tokens; fill says that tokens is not NULL.          *)

Token(type, start, end, parent) ==
  [type |-> type, start |-> start, end |-> end, size |-> 0, parent |-> parent]

jsmn_init(fill, max) ==
  [fill |-> fill, max |-> max, tokens |-> <<>>, super |-> 0, count |-> 0, err |-> "none"]

Err(p, e) == [p EXCEPT !.err = e]

\* The token above gets one more member.
Grown(p) == IF p.super = 0 THEN p ELSE [p EXCEPT !.tokens[p.super].size = @ + 1]

AllocToken(p, token) ==
  IF Len(p.tokens) >= p.max THEN Err(p, "NOMEM") ELSE [p EXCEPT !.tokens = Append(@, token)]

ParseOpen(p, i, type) ==
  LET q == Grown(AllocToken(p, Token(type, i, 0, p.super))) IN
  IF ~p.fill THEN [p EXCEPT !.count = @ + 1]
  ELSE IF p.super # 0 /\ p.tokens[p.super].type = "OBJECT" THEN Err(p, "INVAL")
  ELSE [q EXCEPT !.count = @ + 1, !.super = Len(p.tokens) + 1]

\* The innermost container still open among the token j and those above it.
OpenAt(tokens) ==
  LET up[j \in 0..Len(tokens)] ==
        IF j = 0 \/ tokens[j].end = 0 THEN j ELSE up[tokens[j].parent]
  IN up

\* Nothing is open any more: an error, but for a text with a colon after its
\* end, which is left out.
ParseClose(p, i, type) ==
  LET j == OpenAt(p.tokens)[Len(p.tokens)] IN
  IF ~p.fill THEN p
  ELSE IF j = 0 THEN Err(p, "INVAL")
  ELSE IF p.tokens[j].type # type THEN Err(p, "INVAL")
  ELSE [p EXCEPT !.tokens[j].end = i + 1, !.super = p.tokens[j].parent]

Leaf(p, token) ==
  IF ~p.fill THEN [p EXCEPT !.count = @ + 1]
  ELSE [Grown(AllocToken(p, token)) EXCEPT !.count = @ + 1]

ParseString(p, i, c) ==
  IF c.k = "unclosed" THEN Err(p, "PART") ELSE Leaf(p, Token("STRING", i, i + 1, p.super))

\* A primitive may not be a key, and in strict mode something must follow it.
ParsePrimitive(p, i, text) ==
  LET above == p.tokens[p.super] IN
  IF /\ p.fill /\ p.super # 0
     /\ above.type = "OBJECT" \/ (above.type = "STRING" /\ above.size # 0)
    THEN Err(p, "INVAL")
  ELSE IF i = Len(text) THEN Err(p, "PART")
  ELSE Leaf(p, Token("PRIMITIVE", i, i + 1, p.super))

ParseComma(p) ==
  IF p.fill /\ p.super # 0 /\ p.tokens[p.super].type \notin {"ARRAY", "OBJECT"}
  THEN [p EXCEPT !.super = p.tokens[p.super].parent] ELSE p

ParseLexeme(p, i, text) ==
  LET c == text[i] IN
  IF p.err # "none" THEN p
  ELSE IF c.k \in {"string", "unclosed"} THEN ParseString(p, i, c)
  ELSE IF c.k \in {"number", "word"} THEN ParsePrimitive(p, i, text)
  ELSE CASE c.t = "{" -> ParseOpen(p, i, "OBJECT")
         [] c.t = "[" -> ParseOpen(p, i, "ARRAY")
         [] c.t = "}" -> ParseClose(p, i, "OBJECT")
         [] c.t = "]" -> ParseClose(p, i, "ARRAY")
         [] c.t = ":" -> [p EXCEPT !.super = Len(p.tokens)]
         [] c.t = "," -> ParseComma(p)

\* The parser after the text; count is what jsmn_parse() returns when err is none.
jsmn_parse(p, text) ==
  LET q == InTurn(LAMBDA a, i : ParseLexeme(a, i, text), p, [i \in DOMAIN text |-> i])
  IN IF q.err = "none" /\ \E t \in DOMAIN q.tokens : q.tokens[t].end = 0
     THEN Err(q, "PART") ELSE q

---------------------------------------------------------------------------
(* json_parser.c.  A context is the text, its tokens and the current one.  *)

NoContext == [ok |-> FALSE, js |-> <<>>, tokens |-> <<>>, cur |-> 0]

\* room says that the array of tokens could be allocated.
json_parse_start(text, room) ==
  LET Parsed(p) ==
        IF p.err # "none" THEN NoContext
        ELSE [ok |-> TRUE, js |-> text, tokens |-> p.tokens, cur |-> 1]
      Counted(p) ==
        IF p.err # "none" \/ p.count <= 0 \/ ~room THEN NoContext
        ELSE Parsed(jsmn_parse(jsmn_init(TRUE, p.count), text))
  IN Counted(jsmn_parse(jsmn_init(FALSE, 0), text))

Matches(c, t, str) ==
  LET tok == c.tokens[t] IN tok.end = tok.start + 1 /\ c.js[tok.start].t = str

RECURSIVE json_skip_elem(_, _)
json_skip_elem(tokens, t) ==
  InTurn(LAMBDA cur, n : json_skip_elem(tokens, cur + 1), t, [n \in 1..tokens[t].size |-> n])

\* Slip: the next token is taken for the next key, whatever the value holds.
Members_Slip(c) == [n \in 1..c.tokens[c.cur].size |-> c.cur + 2 * n - 1]

\* The members of the current container: keys of an object, elements of an array.
Members(c) ==
  LET at[n \in 1..c.tokens[c.cur].size] ==
        1 + IF n = 1 THEN c.cur ELSE json_skip_elem(c.tokens, at[n - 1])
  IN at

json_obj_search(c, key) ==
  LET tok == c.tokens[c.cur]
      hits == SelectSeq(Members(c), LAMBDA t : Matches(c, t, key))
  IN IF tok.size <= 0 \/ tok.type # "OBJECT" \/ hits = <<>> THEN 0 ELSE hits[1]

json_obj_get_val_tok(c, name, type) ==
  LET After(t) == IF t = 0 \/ c.tokens[t + 1].type # type THEN 0 ELSE t + 1
  IN After(json_obj_search(c, name))

\* strtoul() into an int: what does not fit is cut to the width or, beyond the
\* width of unsigned long, taken for its greatest value.
AsInt(n) ==
  LET max == 2^IntBits - 1
      u == IF n > max \/ n < -max THEN max ELSE n % 2^IntBits
  IN IF u >= 2^(IntBits - 1) THEN u - 2^IntBits ELSE u

IsNumber(c, t) == c.js[c.tokens[t].start].k = "number"
NumberAt(c, t) == c.js[c.tokens[t].start].n

json_tok_to_bool(c, t) ==
  IF Matches(c, t, "true") \/ Matches(c, t, "1") THEN Got(1)
  ELSE IF Matches(c, t, "false") \/ Matches(c, t, "0") THEN Got(0) ELSE Fail

json_tok_to_int(c, t) == IF IsNumber(c, t) THEN Got(AsInt(NumberAt(c, t))) ELSE Fail
json_tok_to_int64(c, t) == IF IsNumber(c, t) THEN Got(NumberAt(c, t)) ELSE Fail
json_tok_to_float(c, t) == IF IsNumber(c, t) THEN Got(NumberAt(c, t)) ELSE Fail

Of(c, name, type, Read(_, _)) ==
  LET At(t) == IF t = 0 THEN Fail ELSE Read(c, t)
  IN At(json_obj_get_val_tok(c, name, type))

json_obj_get_bool(c, name) == Of(c, name, "PRIMITIVE", json_tok_to_bool)
json_obj_get_int(c, name) == Of(c, name, "PRIMITIVE", json_tok_to_int)
json_obj_get_int64(c, name) == Of(c, name, "PRIMITIVE", json_tok_to_int64)
json_obj_get_float(c, name) == Of(c, name, "PRIMITIVE", json_tok_to_float)
json_obj_get_strlen(c, name) == Of(c, name, "STRING", LAMBDA d, t : Got(1))

json_obj_get_array(c, name) ==
  LET At(t) == IF t = 0 THEN [ctx |-> c, size |-> 0]
               ELSE [ctx |-> [c EXCEPT !.cur = t], size |-> c.tokens[t].size]
  IN At(json_obj_get_val_tok(c, name, "ARRAY"))

json_arr_search(c, index) ==
  LET tok == c.tokens[c.cur]
  IN IF tok.type # "ARRAY" \/ index >= tok.size THEN 0 ELSE Members(c)[index + 1]

json_arr_get_object(c, index) ==
  LET At(t) == IF t # 0 /\ c.tokens[t].type = "OBJECT" THEN [c EXCEPT !.cur = t] ELSE c
  IN At(json_arr_search(c, index))

json_arr_leave_object(c) ==
  LET parent == c.tokens[c.cur].parent IN IF parent = 0 THEN c ELSE [c EXCEPT !.cur = parent]

---------------------------------------------------------------------------
(* json_generator.c.  room is buf_size less the terminating 0; sent are    *)
(* the buffers flushed.  The callback is always there.                     *)

json_gen_str_start(room) == [room |-> room, buf |-> <<>>, comma |-> FALSE, sent |-> <<>>]

Flush(j) == [j EXCEPT !.sent = Append(@, j.buf), !.buf = <<>>]

\* A full buffer is flushed when there is more to write, not before.
RECURSIVE json_gen_add_to_str(_, _)
json_gen_add_to_str(j, str) ==
  LET free == j.room - Len(j.buf) IN
  IF Len(str) <= free THEN [j EXCEPT !.buf = @ \o str]
  ELSE json_gen_add_to_str(Flush([j EXCEPT !.buf = @ \o SubSeq(str, 1, free)]),
                           SubSeq(str, free + 1, Len(str)))

json_gen_str_end(j) == Flush(j)

Comma(j) == IF j.comma THEN json_gen_add_to_str(j, <<",">>) ELSE j
Name(j, name) == json_gen_add_to_str(j, <<"\"", name, "\"", ":">>)
Opening(j, c) == json_gen_add_to_str([j EXCEPT !.comma = FALSE], <<c>>)
Closing(j, c) == json_gen_add_to_str([j EXCEPT !.comma = TRUE], <<c>>)
Value(j, str) == json_gen_add_to_str([j EXCEPT !.comma = TRUE], str)

json_gen_start_object(j) == Opening(Comma(j), "{")
json_gen_end_object(j) == Closing(j, "}")
json_gen_push_array(j, name) == Opening(Name(Comma(j), name), "[")

\* Slip: no comma is asked for after an array.
json_gen_pop_array_Slip(j) == Opening(j, "]")
json_gen_pop_array(j) == Closing(j, "]")

BoolText(b) == IF b = 0 THEN "false" ELSE "true"
json_gen_obj_set_bool(j, name, b) == Value(Name(Comma(j), name), <<BoolText(b)>>)
json_gen_obj_set_int(j, name, n) == Value(Name(Comma(j), name), <<ToString(n)>>)
json_gen_obj_set_float(j, name, v) == Value(Name(Comma(j), name), <<ToString(v)>>)
json_gen_obj_set_null(j, name) == Value(Name(Comma(j), name), <<"null">>)
json_gen_obj_set_string(j, name, s) == Value(Name(Comma(j), name), <<"\"", s, "\"">>)
json_gen_arr_set_int(j, n) == Value(Comma(j), <<ToString(n)>>)
json_gen_arr_set_string(j, s) == Value(Comma(j), <<"\"", s, "\"">>)
json_gen_obj_start_long_string(j, name) == Value(Name(Comma(j), name), <<"\"">>)
json_gen_add_to_long_string(j, s) == json_gen_add_to_str(j, <<s>>)
json_gen_end_long_string(j) == json_gen_add_to_str(j, <<"\"">>)
=============================================================================
