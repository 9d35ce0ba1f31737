SPECIFICATION Spec
CONSTANTS
  Versions <- MCAllVersions
  Compress <- MCCompress
  H0 <- MCH0
  DigestOctet <- MCDigestOctet
  USHABlockSize <- MCUSHABlockSize
  USHAHashSize <- MCUSHAHashSize
  LengthSize <- MCLengthSize
  WordBits = 7
  Chunks = {0, 1, 2, 5, 8}
  Secrets = {3, 8, 9, 17}
  Outputs = {0, 4, 9}
  NullSalt = NullSalt
  MaxText = 25
INVARIANT Streamed
INVARIANT Derived
CHECK_DEADLOCK FALSE
