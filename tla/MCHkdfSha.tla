----------------------------- MODULE MCHkdfSha -----------------------------
(* HkdfSha with an eighth of the code's sizes (the length keeps two        *)
(* octets) and small rounds: a mixing of the block into a number below     *)
(* 2^23, different for every octet and every place of it.                  *)
EXTENDS HkdfSha

MCPrime == 8388593
MCCompress(v, h, block) ==
  FoldLeft(LAMBDA x, o: (x * 251 + o + 1) % MCPrime, h, block)
MCH0(v) ==
  CASE v = "SHA1" -> 1 [] v = "SHA224" -> 224 [] v = "SHA256" -> 256
    [] v = "SHA384" -> 384 [] v = "SHA512" -> 512
MCDigestOctet(h, k) == ((h % 65536) * (2 * k + 1) + h \div 251) % 256
MCUSHABlockSize(v) == IF v \in {"SHA384", "SHA512"} THEN 16 ELSE 8
MCUSHAHashSize(v) ==
  CASE v = "SHA1" -> 3 [] v = "SHA224" -> 3 [] v = "SHA256" -> 4
    [] v = "SHA384" -> 6 [] v = "SHA512" -> 8
MCLengthSize(v) == IF v \in {"SHA384", "SHA512"} THEN 4 ELSE 2
MCAllVersions == {"SHA1", "SHA224", "SHA256", "SHA384", "SHA512"}
=============================================================================
