------------------------------ MODULE HkdfSha ------------------------------
(***************************************************************************)
(* The hash library of the HomeKit core (hkdf-sha): the five SHA           *)
(* functions, HMAC and HKDF, as a caller meets them.  Every key of the     *)
(* protocol is the result of one hkdf() call.  What can go wrong is not    *)
(* the arithmetic of the rounds but the stream around it: an octet string  *)
(* arrives in pieces, fills a block of 64 or 128 octets, is closed with    *)
(* bits, a mark, zeros and a length that may or may not fit the block that *)
(* is open, and three contexts inside each other each remember whether     *)
(* they are finished or spoilt.                                            *)
(*                                                                         *)
(* The rounds themselves are a parameter: Compress is any function of a    *)
(* chaining value and a block.  Octets are numbers; the sizes of blocks,   *)
(* digests and the length are parameters too (64 or 128, 20 to 64 and 8 or *)
(* 16 octets in the code), and so is the width of the two length words.    *)
(***************************************************************************)
EXTENDS Integers, Sequences, SequencesExt, Bitwise

CONSTANTS
  Versions,           \* the values of enum SHAversion a caller uses
  Compress(_, _, _),  \* rounds of a function on a chaining value and a block
  H0(_),              \* the initial chaining value of a function
  DigestOctet(_, _),  \* octet k of a chaining value
  USHABlockSize(_),   \* octets of a block of a function
  USHAHashSize(_),    \* octets of its digest
  LengthSize(_),      \* octets of the length at the end of its last block
  WordBits,           \* width of Length_High and Length_Low
  Chunks,             \* lengths of the pieces a caller feeds
  Secrets,            \* lengths of keys and salts
  Outputs,            \* lengths of the key material asked for
  NullSalt,           \* the salt a caller leaves out
  MaxText             \* bound: octets fed to one context

ASSUME HkdfShaAssumption ==
  /\ Versions \subseteq {"SHA1", "SHA224", "SHA256", "SHA384", "SHA512"}
  /\ \A v \in Versions:
       /\ LengthSize(v) \in 2 .. USHABlockSize(v) - 1
       /\ LengthSize(v) % 2 = 0
       /\ USHAHashSize(v) \in 1 .. USHABlockSize(v)
  /\ WordBits \in 4 .. 15
  /\ Chunks \subseteq Nat /\ Secrets \subseteq Nat /\ Outputs \subseteq Nat
  /\ MaxText \in Nat

shaSuccess == 0
shaNull == 1
shaInputTooLong == 2
shaStateError == 3
shaBadParam == 4

Zeros(n) == [i \in 1 .. n |-> 0]
ShiftRight(w, n) == IF n >= 31 THEN 0 ELSE w \div 2 ^ n

(***************************************************************************)
(* One SHA context.  Block is the filled part of Message_Block, so that    *)
(* Message_Block_Index is its length.  A call returns the context and the  *)
(* error code it answers with.                                             *)
(***************************************************************************)
Context(v) ==
  [which |-> v, High |-> 0, Low |-> 0, Block |-> <<>>, H |-> H0(v),
   Computed |-> FALSE, Corrupted |-> shaSuccess]

Answer(c, code) == [ctx |-> c, ret |-> code, out |-> <<>>]
Cumulative(c) == Answer(c, c.Corrupted)
Spoil(c, code) == Cumulative([c EXCEPT !.Corrupted = code])

\* SHA1AddLength and its two siblings: one macro under three names.
AddLength(c, n) ==
  LET low == (c.Low + n) % 2 ^ WordBits
      carry == low < c.Low
      high == IF carry THEN (c.High + 1) % 2 ^ WordBits ELSE c.High
  IN [c EXCEPT !.Low = low, !.High = high,
               !.Corrupted = IF carry /\ high = 0 THEN shaInputTooLong ELSE @]

Process(c) ==
  [c EXCEPT !.H = Compress(c.which, @, c.Block), !.Block = <<>>]
SHA1ProcessMessageBlock(c) == Process(c)
SHA224_256ProcessMessageBlock(c) == Process(c)
SHA384_512ProcessMessageBlock(c) == Process(c)

ProcessMessageBlock(c) ==
  CASE c.which = "SHA1" -> SHA1ProcessMessageBlock(c)
    [] c.which \in {"SHA224", "SHA256"} -> SHA224_256ProcessMessageBlock(c)
    [] OTHER -> SHA384_512ProcessMessageBlock(c)

\* One turn of the loop of SHAxInput().
InputOctet(c, octet) ==
  LET d == AddLength([c EXCEPT !.Block = Append(@, octet)], 8)
  IN IF d.Corrupted = shaSuccess /\ Len(d.Block) = USHABlockSize(d.which)
       THEN ProcessMessageBlock(d) ELSE d

Input(c, octets) ==
  IF octets = <<>> THEN Answer(c, shaSuccess)
  ELSE IF c.Computed THEN Spoil(c, shaStateError)
  ELSE IF c.Corrupted # shaSuccess THEN Cumulative(c)
  ELSE Cumulative(FoldLeft(InputOctet, c, octets))

\* The length as size octets, most significant first.
LengthOctets(c, size) ==
  LET half == size \div 2
      Word(w) == [k \in 1 .. half |-> ShiftRight(w, 8 * (half - k)) % 256]
  IN Word(c.High) \o Word(c.Low)

\* Slip: a block with just room for the mark is taken to have room for the length.
PadMessage_Slip(c, pad, size) ==
  LET room == USHABlockSize(c.which) - size
      open == [c EXCEPT !.Block = Append(@, pad)]
      Fill(d, n) == [d EXCEPT !.Block = @ \o Zeros(n - Len(@))]
      first == IF Len(c.Block) > room
                 THEN ProcessMessageBlock(Fill(open, USHABlockSize(c.which)))
                 ELSE open
  IN ProcessMessageBlock([Fill(first, room) EXCEPT
                            !.Block = @ \o LengthOctets(c, size)])

PadMessage(c, pad, size) ==
  LET room == USHABlockSize(c.which) - size
      open == [c EXCEPT !.Block = Append(@, pad)]
      Fill(d, n) == [d EXCEPT !.Block = @ \o Zeros(n - Len(@))]
      first == IF Len(c.Block) >= room
                 THEN ProcessMessageBlock(Fill(open, USHABlockSize(c.which)))
                 ELSE open
  IN ProcessMessageBlock([Fill(first, room) EXCEPT
                            !.Block = @ \o LengthOctets(c, size)])

SHA1PadMessage(c, pad) == PadMessage(c, pad, LengthSize(c.which))
SHA224_256PadMessage(c, pad) == PadMessage(c, pad, LengthSize(c.which))
SHA384_512PadMessage(c, pad) == PadMessage(c, pad, LengthSize(c.which))

\* Slip: the context is not marked as computed.
Closed_Slip(c) == [c EXCEPT !.High = 0, !.Low = 0]
Closed(c) == [c EXCEPT !.High = 0, !.Low = 0, !.Computed = TRUE]
SHA1Finalize(c, pad) == Closed(SHA1PadMessage(c, pad))
SHA224_256Finalize(c, pad) == Closed(SHA224_256PadMessage(c, pad))
SHA384_512Finalize(c, pad) == Closed(SHA384_512PadMessage(c, pad))

Finalize(c, pad) ==
  CASE c.which = "SHA1" -> SHA1Finalize(c, pad)
    [] c.which \in {"SHA224", "SHA256"} -> SHA224_256Finalize(c, pad)
    [] OTHER -> SHA384_512Finalize(c, pad)

\* The last n bits of the message, followed by the mark: masks[] and markbit[].
MarkedBits(bits, n) == (bits \div 2 ^ (8 - n)) * 2 ^ (8 - n) + 2 ^ (7 - n)

FinalBits(c, bits, n) ==
  IF n = 0 THEN Answer(c, shaSuccess)
  ELSE IF c.Corrupted # shaSuccess THEN Cumulative(c)
  ELSE IF c.Computed THEN Spoil(c, shaStateError)
  ELSE IF n >= 8 THEN Spoil(c, shaBadParam)
  ELSE Cumulative(Finalize(AddLength(c, n), MarkedBits(bits, n)))

Result(c, size) ==
  IF c.Corrupted # shaSuccess THEN Cumulative(c)
  ELSE LET d == IF c.Computed THEN c ELSE Finalize(c, 128)
       IN [ctx |-> d, ret |-> shaSuccess,
           out |-> [k \in 1 .. size |-> DigestOctet(d.H, k)]]

(***************************************************************************)
(* The five functions by the names of their files.  SHA-224 and SHA-384    *)
(* are SHA-256 and SHA-512 with another initial value and a shorter digest.*)
(***************************************************************************)
SHA1Reset(v) == Answer(Context(v), shaSuccess)
SHA224_256Reset(v) == Answer(Context(v), shaSuccess)
SHA224Reset(v) == SHA224_256Reset(v)
SHA256Reset(v) == SHA224_256Reset(v)
SHA384_512Reset(v) == Answer(Context(v), shaSuccess)
SHA384Reset(v) == SHA384_512Reset(v)
SHA512Reset(v) == SHA384_512Reset(v)

SHA1Input(c, octets) == Input(c, octets)
SHA256Input(c, octets) == Input(c, octets)
SHA224Input(c, octets) == SHA256Input(c, octets)
SHA512Input(c, octets) == Input(c, octets)
SHA384Input(c, octets) == SHA512Input(c, octets)

SHA1FinalBits(c, bits, n) == FinalBits(c, bits, n)
SHA256FinalBits(c, bits, n) == FinalBits(c, bits, n)
SHA224FinalBits(c, bits, n) == SHA256FinalBits(c, bits, n)
SHA512FinalBits(c, bits, n) == FinalBits(c, bits, n)
SHA384FinalBits(c, bits, n) == SHA512FinalBits(c, bits, n)

SHA1Result(c) == Result(c, USHAHashSize("SHA1"))
SHA224_256ResultN(c, size) == Result(c, size)
SHA224Result(c) == SHA224_256ResultN(c, USHAHashSize("SHA224"))
SHA256Result(c) == SHA224_256ResultN(c, USHAHashSize("SHA256"))
SHA384_512ResultN(c, size) == Result(c, size)
SHA384Result(c) == SHA384_512ResultN(c, USHAHashSize("SHA384"))
SHA512Result(c) == SHA384_512ResultN(c, USHAHashSize("SHA512"))

USHAReset(v) ==
  CASE v = "SHA1" -> SHA1Reset(v) [] v = "SHA224" -> SHA224Reset(v)
    [] v = "SHA256" -> SHA256Reset(v) [] v = "SHA384" -> SHA384Reset(v)
    [] v = "SHA512" -> SHA512Reset(v)

USHAInput(c, octets) ==
  CASE c.which = "SHA1" -> SHA1Input(c, octets)
    [] c.which = "SHA224" -> SHA224Input(c, octets)
    [] c.which = "SHA256" -> SHA256Input(c, octets)
    [] c.which = "SHA384" -> SHA384Input(c, octets)
    [] c.which = "SHA512" -> SHA512Input(c, octets)

USHAFinalBits(c, bits, n) ==
  CASE c.which = "SHA1" -> SHA1FinalBits(c, bits, n)
    [] c.which = "SHA224" -> SHA224FinalBits(c, bits, n)
    [] c.which = "SHA256" -> SHA256FinalBits(c, bits, n)
    [] c.which = "SHA384" -> SHA384FinalBits(c, bits, n)
    [] c.which = "SHA512" -> SHA512FinalBits(c, bits, n)

USHAResult(c) ==
  CASE c.which = "SHA1" -> SHA1Result(c)
    [] c.which = "SHA224" -> SHA224Result(c)
    [] c.which = "SHA256" -> SHA256Result(c)
    [] c.which = "SHA384" -> SHA384Result(c)
    [] c.which = "SHA512" -> SHA512Result(c)

(***************************************************************************)
(* HMAC: a context around a SHA context and the key XORed with the outer   *)
(* pad.  A chain of calls joined by || stops at the first error and        *)
(* answers 1 for it, whatever its code was: shaNull.                       *)
(***************************************************************************)
Either(failed) == IF failed THEN shaNull ELSE shaSuccess
Xored(key, size, pad) ==
  [i \in 1 .. size |-> (IF i <= Len(key) THEN key[i] ELSE 0) ^^ pad]

\* Digest of a string in one go, as hmacReset() takes it of a long key.
HashOf(v, octets) == USHAResult(USHAInput(USHAReset(v).ctx, octets).ctx).out

\* The context around the inner one, which has been given the inner pad.
Around(v, inner, k_opad) ==
  LET code == Either(inner.ret # shaSuccess)
  IN Answer([which |-> v, sha |-> inner.ctx, k_opad |-> k_opad,
             Computed |-> FALSE, Corrupted |-> code], code)

\* With a key that is no longer than a block.
Keyed(v, key, size) ==
  Around(v, USHAInput(USHAReset(v).ctx, Xored(key, size, 54)), Xored(key, size, 92))

hmacReset(v, key) ==
  LET size == USHABlockSize(v)
  IN Keyed(v, IF Len(key) > size THEN HashOf(v, key) ELSE key, size)

\* A context is finished, and gives out nothing if a step of that has failed.
Finished(c, code, out) ==
  [ctx |-> [c EXCEPT !.Computed = TRUE, !.Corrupted = code],
   ret |-> code, out |-> IF code = shaSuccess THEN out ELSE <<>>]

\* What the inner context answers is the answer, and the state.
Inner(m, answer) == Spoil([m EXCEPT !.sha = answer.ctx], answer.ret)

hmacInput(m, text) ==
  IF m.Corrupted # shaSuccess THEN Cumulative(m)
  ELSE IF m.Computed THEN Spoil(m, shaStateError)
  ELSE Inner(m, USHAInput(m.sha, text))

hmacFinalBits(m, bits, n) ==
  IF m.Corrupted # shaSuccess THEN Cumulative(m)
  ELSE IF m.Computed THEN Spoil(m, shaStateError)
  ELSE Inner(m, USHAFinalBits(m.sha, bits, n))

Outer(m, inner) ==
  LET opad == USHAInput(USHAReset(m.which).ctx, m.k_opad)
      Ended(last) == Finished([m EXCEPT !.sha = last.ctx],
                              Either(inner.ret # shaSuccess \/ last.ret # shaSuccess),
                              last.out)
  IN Ended(USHAResult(USHAInput(opad.ctx, inner.out).ctx))

hmacResult(m) ==
  IF m.Corrupted # shaSuccess THEN Cumulative(m)
  ELSE IF m.Computed THEN Spoil(m, shaStateError)
  ELSE Outer(m, USHAResult(m.sha))

hmac(v, text, key) == hmacResult(hmacInput(hmacReset(v, key).ctx, text).ctx)

(***************************************************************************)
(* HKDF.  A salt the caller leaves out is NULL; hkdfReset() initialises    *)
(* the HMAC context inside but neither Computed nor Corrupted of its own.  *)
(***************************************************************************)
SaltOf(v, salt) == IF salt = NullSalt THEN Zeros(USHAHashSize(v)) ELSE salt

hkdfExtract(v, salt, ikm) == hmac(v, ikm, SaltOf(v, salt))

\* Slip: the previous block is not part of the next one.
Blocks_Slip(v, prk, info, n) ==
  FoldLeft(LAMBDA T, i: Append(T, hmac(v, info \o <<i % 256>>, prk).out),
           <<>>, [i \in 1 .. n |-> i])

\* The loop of hkdfExpand(): T(i), fed in three pieces.
Blocks(v, prk, info, n) ==
  LET Next_T(T, i) ==
        LET a == hmacInput(hmacReset(v, prk).ctx,
                           IF T = <<>> THEN <<>> ELSE T[Len(T)])
            b == hmacInput(a.ctx, info)
            c == hmacInput(b.ctx, <<i % 256>>)
        IN Append(T, hmacResult(c.ctx).out)
  IN FoldLeft(Next_T, <<>>, [i \in 1 .. n |-> i])

hkdfExpand(v, prk, info, okm_len) ==
  LET size == USHAHashSize(v)
      N == okm_len \div size + (IF okm_len % size # 0 THEN 1 ELSE 0)
  IN IF okm_len <= 0 \/ Len(prk) < size \/ N > 255
       THEN [ret |-> shaBadParam, out |-> <<>>]
       ELSE [ret |-> shaSuccess,
             out |-> SubSeq(FlattenSeq(Blocks(v, prk, info, N)), 1, okm_len)]

hkdf(v, salt, ikm, info, okm_len) ==
  LET All(x) == [ret |-> Either(x.ret # shaSuccess), out |-> x.out]
  IN All(hkdfExpand(v, hkdfExtract(v, salt, ikm).out, info, okm_len))

\* computed and corrupted are whatever the memory of the context held.
hkdfReset(v, salt, computed, corrupted) ==
  LET With(m) == Answer([which |-> v, hmac |-> m.ctx, Computed |-> computed,
                         Corrupted |-> corrupted], m.ret)
  IN With(hmacReset(v, SaltOf(v, salt)))

\* An error of the HMAC inside is answered but not remembered here.
Passed(k, answer) == Answer([k EXCEPT !.hmac = answer.ctx], answer.ret)

hkdfInput(k, ikm) ==
  IF k.Corrupted # shaSuccess THEN Cumulative(k)
  ELSE IF k.Computed THEN Spoil(k, shaStateError)
  ELSE Passed(k, hmacInput(k.hmac, ikm))

hkdfFinalBits(k, bits, n) ==
  IF k.Corrupted # shaSuccess THEN Cumulative(k)
  ELSE IF k.Computed THEN Spoil(k, shaStateError)
  ELSE Passed(k, hmacFinalBits(k.hmac, bits, n))

hkdfResult(k, info, okm_len) ==
  IF k.Corrupted # shaSuccess THEN Cumulative(k)
  ELSE IF k.Computed THEN Spoil(k, shaStateError)
  ELSE LET Both(p, x) == Finished([k EXCEPT !.hmac = p.ctx],
                                  Either(p.ret # shaSuccess \/ x.ret # shaSuccess), x.out)
           Expanded(p) == Both(p, hkdfExpand(k.which, p.out, info, okm_len))
       IN Expanded(hmacResult(k.hmac))

(***************************************************************************)
(* A caller and its context: which layer it uses, how many octets and      *)
(* which last bits were accepted, the length of its secret (a key of HMAC, *)
(* a salt of HKDF) and what the context has given out.                     *)
(***************************************************************************)
VARIABLES
  layer,              \* "none", "sha", "hmac", "hkdf" or "derived"
  ctx,                \* the SHA or HMAC context; of HKDF, the HMAC context inside
  own,                \* of HKDF, its own Computed and Corrupted
  secret, text, tail, \* what the context was given
  given               \* what it gave out
vars == <<layer, ctx, own, secret, text, tail, given>>

TextOctets(from, n) == [i \in 1 .. n |-> ((from + i) * 37 + 11) % 256]
SecretOctets(n) ==
  IF n = NullSalt THEN NullSalt ELSE [i \in 1 .. n |-> (i * 53 + 5) % 256]
Info == <<105, 110, 102, 111>>
LastBits == 181
NoTail == 0

Init ==
  /\ layer = "none" /\ ctx = <<>> /\ own = <<>> /\ secret = 0
  /\ text = 0 /\ tail = NoTail /\ given = {}

HkdfContext ==
  [which |-> ctx.which, hmac |-> ctx, Computed |-> own.Computed,
   Corrupted |-> own.Corrupted]

\* The context after a call, in the two variables.
Becomes(c) ==
  IF layer' = "hkdf"
    THEN ctx' = c.hmac /\ own' = [Computed |-> c.Computed, Corrupted |-> c.Corrupted]
    ELSE ctx' = c /\ own' = <<>>

Begin(l, s, answer) ==
  /\ answer.ret = shaSuccess
  /\ layer' = l /\ secret' = s /\ Becomes(answer.ctx)
  /\ text' = 0 /\ tail' = NoTail /\ given' = {}

Idle == layer = "none"
BeginSha == Idle /\ \E v \in Versions: Begin("sha", 0, USHAReset(v))
BeginHmac ==
  Idle /\ \E v \in Versions, s \in Secrets: Begin("hmac", s, hmacReset(v, SecretOctets(s)))
BeginHkdf ==
  Idle /\ \E v \in Versions, s \in Secrets \cup {NullSalt}, computed \in BOOLEAN,
             corrupted \in {shaSuccess, shaStateError}:
    Begin("hkdf", s, hkdfReset(v, SecretOctets(s), computed, corrupted))

Fed(n, answer) ==
  /\ text + n <= MaxText
  /\ UNCHANGED <<layer, secret, tail, given>>
  /\ Becomes(answer.ctx)
  /\ text' = IF answer.ret = shaSuccess THEN text + n ELSE text

Feed ==
  \E n \in Chunks:
    LET octets == TextOctets(text, n)
    IN \/ layer = "sha" /\ Fed(n, USHAInput(ctx, octets))
       \/ layer = "hmac" /\ Fed(n, hmacInput(ctx, octets))
       \/ layer = "hkdf" /\ Fed(n, hkdfInput(HkdfContext, octets))

FedBits(n, answer) ==
  /\ UNCHANGED <<layer, secret, text, given>>
  /\ Becomes(answer.ctx)
  /\ tail' = IF answer.ret = shaSuccess /\ n # 0 THEN n ELSE tail

FeedBits ==
  \E n \in {0, 3, 8}:
    \/ layer = "sha" /\ FedBits(n, USHAFinalBits(ctx, LastBits, n))
    \/ layer = "hmac" /\ FedBits(n, hmacFinalBits(ctx, LastBits, n))
    \/ layer = "hkdf" /\ FedBits(n, hkdfFinalBits(HkdfContext, LastBits, n))

Take(answer) ==
  /\ UNCHANGED <<layer, secret, text, tail>>
  /\ Becomes(answer.ctx)
  /\ given' = IF answer.ret = shaSuccess THEN given \cup {answer.out} ELSE given

TakeDigest == layer = "sha" /\ Take(USHAResult(ctx))
TakeMac == layer = "hmac" /\ Take(hmacResult(ctx))
TakeKeys ==
  layer = "hkdf" /\ \E n \in Outputs: Take(hkdfResult(HkdfContext, Info, n))

\* The calls of pair setup and pair verify: everything in one go.
Derive ==
  Idle /\ \E v \in Versions, s \in Secrets \cup {NullSalt}, n \in Chunks,
             okm_len \in Outputs:
    LET Out(x) == IF x.ret = shaSuccess THEN {x.out} ELSE {}
    IN /\ layer' = "derived" /\ ctx' = [which |-> v] /\ own' = <<>> /\ secret' = s
       /\ text' = n /\ tail' = NoTail
       /\ given' = Out(hkdf(v, SecretOctets(s), TextOctets(0, n), Info, okm_len))

Next == \/ BeginSha \/ BeginHmac \/ BeginHkdf \/ Feed \/ FeedBits
        \/ TakeDigest \/ TakeMac \/ TakeKeys \/ Derive

Spec == Init /\ [][Next]_vars

(***************************************************************************)
(* The definitions the library promises: FIPS 180-3, RFC 2104 and RFC 5869 *)
(* on the whole octet string at once.                                      *)
(***************************************************************************)
Padded(v, octets, n) ==
  LET b == USHABlockSize(v)
      size == LengthSize(v)
      bits == 8 * Len(octets) + n
      mark == IF n = NoTail THEN 128
                ELSE (LastBits - (LastBits % 2 ^ (8 - n))) + 2 ^ (7 - n)
      zeros == CHOOSE z \in 0 .. b - 1: (Len(octets) + 1 + z + size) % b = 0
      Word(w) == [k \in 1 .. size \div 2 |->
                    ShiftRight(w, 8 * (size \div 2 - k)) % 256]
  IN octets \o <<mark>> \o Zeros(zeros)
       \o Word(bits \div 2 ^ WordBits) \o Word(bits % 2 ^ WordBits)

Sha(v, octets, n) ==
  LET b == USHABlockSize(v)
      all == Padded(v, octets, n)
      h == FoldLeft(LAMBDA x, i: Compress(v, x, SubSeq(all, (i - 1) * b + 1, i * b)),
                    H0(v), [i \in 1 .. Len(all) \div b |-> i])
  IN [k \in 1 .. USHAHashSize(v) |-> DigestOctet(h, k)]

Mac(v, key, octets, n) ==
  LET k == IF Len(key) > USHABlockSize(v) THEN Sha(v, key, NoTail) ELSE key
  IN Sha(v, Xored(k, USHABlockSize(v), 92)
              \o Sha(v, Xored(k, USHABlockSize(v), 54) \o octets, n), NoTail)

Expansion(v, salt, octets, n) ==
  LET prk == Mac(v, IF salt = NullSalt THEN Zeros(USHAHashSize(v)) ELSE salt, octets, n)
      T[i \in Nat] == IF i = 0 THEN <<>>
                      ELSE Mac(v, prk, T[i - 1] \o Info \o <<i % 256>>, NoTail)
  IN T

\* Streamed: however its text is cut into calls and however often its result
\* is taken, a SHA or HMAC context only gives out the digest of exactly the
\* octets and bits it accepted, and one whose text it refused gives out none.
\* The code: SHAxInput, SHAxFinalBits, SHAxPadMessage, SHAxResult, hmacReset to
\* hmacResult.
Streamed ==
  /\ layer = "sha" => given \subseteq {Sha(ctx.which, TextOctets(0, text), tail)}
  /\ layer = "hmac" =>
       given \subseteq {Mac(ctx.which, SecretOctets(secret), TextOctets(0, text), tail)}

\* Derived: key material is T(1) T(2) ... of RFC 5869, cut at the length asked
\* for, both from one hkdf() call and from a context fed in pieces, whatever
\* that context's memory held before hkdfReset().
\* The code: hkdfExtract, hkdfExpand, hkdfReset to hkdfResult.
Derived ==
  layer \in {"hkdf", "derived"} =>
    LET T == Expansion(ctx.which, SecretOctets(secret), TextOctets(0, text), tail)
        size == USHAHashSize(ctx.which)
    IN \A okm \in given: \A k \in 1 .. Len(okm):
         okm[k] = T[((k - 1) \div size) + 1][((k - 1) % size) + 1]
=============================================================================
