-------------------------------- MODULE Frames --------------------------------
(* Framing on the sockets: readFrame and buildFrame of io_iso8583, the split   *)
(* functions and frameOutbound of io_tcp, and the heuristic check of a frame.  *)
(* A byte is a digit to the base B, so that two and four digits of a length    *)
(* meet the same limits as two and four bytes do.                              *)
EXTENDS Integers, Sequences, SequencesExt, FiniteSets

CONSTANTS B,      \* values of a byte
          Limit,  \* longest message the 4-byte splitter takes
          Bits    \* bits of a bitmap byte group: a bitmap has 8 bytes

MaxUint16 == B * B - 1
Err == [err |-> TRUE]
Ok(v) == [err |-> FALSE, v |-> v]

--------------------------------------------------------------------------------
(* Lengths on the wire.  A frame configuration is [size, little, includes].    *)
PutUint(n, size) == [i \in 1..size |-> (n \div B^(size - i)) % B]
Uint(d) == FoldLeft(LAMBDA n, x : n * B + x, 0, d)
ByteOrdered(c, d) == IF c.little THEN Reverse(d) ELSE d

\* Variant of TotalLen: the length prefix does not count itself.
TotalLenBody(c, p) == Len(p)

TotalLen(c, p) == Len(p) + (IF c.includes THEN c.size ELSE 0)

buildFrame(c, p) ==
  IF c.size = 2 /\ TotalLen(c, p) > MaxUint16 THEN Err
  ELSE Ok(ByteOrdered(c, PutUint(TotalLen(c, p), c.size)) \o p)

(* readFrame: what it takes from a stream of bytes, or why it closes it.       *)
readFrame(c, s) ==
  IF Len(s) < c.size THEN Err
  ELSE LET n == Uint(ByteOrdered(c, SubSeq(s, 1, c.size))) - (IF c.includes THEN c.size ELSE 0)
       IN IF n <= 0 \/ n > MaxUint16 \/ Len(s) < c.size + n THEN Err
          ELSE Ok(SubSeq(s, c.size + 1, c.size + n))

--------------------------------------------------------------------------------
(* bufio split functions: [adv, tok], tok = <<>> when there is no token, an    *)
(* error ends the connection.                                                  *)
More == [err |-> FALSE, adv |-> 0, tok |-> <<>>]
Skip(n) == [err |-> FALSE, adv |-> n, tok |-> <<>>]
Token(n, t) == [err |-> FALSE, adv |-> n, tok |-> <<t>>]

Index(data, delim) ==
  LET at == {i \in 0..(Len(data) - Len(delim)) : SubSeq(data, i + 1, i + Len(delim)) = delim}
  IN IF at = {} THEN -1 ELSE CHOOSE i \in at : \A j \in at : i <= j

returnToken(chunk, c, prefix) ==
  IF c.include THEN chunk
  ELSE IF prefix THEN SubSeq(chunk, Len(c.delim) + 1, Len(chunk))
  ELSE SubSeq(chunk, 1, Len(chunk) - Len(c.delim))

\* Variant of NoDelimiter: what has no delimiter yet is junk, not only at the end.
NoDelimiterJunk(data, eof) == Skip(Len(data))

NoDelimiter(data, eof) == IF eof THEN Skip(Len(data)) ELSE More

splitPrefix(c, data, eof) ==
  LET at == Index(data, c.delim)
      n == Len(c.delim)
      next == Index(SubSeq(data, n + 1, Len(data)), c.delim)
  IN IF at = -1 THEN NoDelimiter(data, eof)
     ELSE IF at > 0 THEN Skip(at)
     ELSE IF next = -1
     THEN IF eof THEN Token(Len(data), returnToken(data, c, TRUE)) ELSE More
     ELSE Token(n + next, returnToken(SubSeq(data, 1, n + next), c, TRUE))

splitSuffix(c, data, eof) ==
  LET at == Index(data, c.delim)
      total == at + Len(c.delim)
  IN IF at >= 0 THEN Token(total, returnToken(SubSeq(data, 1, total), c, FALSE))
     ELSE IF eof THEN Token(Len(data), data) ELSE More

splitLength(c, data, eof) ==
  LET n == Uint(SubSeq(data, 1, c.size))
      short == IF eof THEN Err ELSE More
  IN IF Len(data) < c.size THEN short
     ELSE IF n > Limit THEN Err
     ELSE IF Len(data) < c.size + n THEN short
     ELSE Token(c.size + n, SubSeq(data, c.size + 1, c.size + n))

MakeSplitter(c, data, eof) ==
  IF eof /\ data = <<>> THEN More
  ELSE CASE c.framing = "length" -> splitLength(c, data, eof)
         [] c.framing = "prefix" -> splitPrefix(c, data, eof)
         [] c.framing = "suffix" -> splitSuffix(c, data, eof)

frameOutbound(c, p) ==
  IF c.framing # "length" THEN Ok(p)
  ELSE IF c.size = 2 /\ Len(p) > MaxUint16 THEN Err
  ELSE Ok(PutUint(Len(p), c.size) \o p)

(* The scanner: the tokens of the chunks that arrive, then of the end.         *)
RECURSIVE Scan(_, _, _, _)
Scan(c, data, chunks, toks) ==
  LET eof == chunks = <<>>
      r == MakeSplitter(c, data, eof)
  IN IF r.err THEN Append(toks, "error")
     ELSE IF r.adv > 0 \/ r.tok # <<>>
     THEN Scan(c, SubSeq(data, r.adv + 1, Len(data)), chunks, toks \o r.tok)
     ELSE IF eof THEN toks ELSE Scan(c, data \o Head(chunks), Tail(chunks), toks)

--------------------------------------------------------------------------------
(* inspect, layer 1.5.  A frame is its length, the bytes of its header and of  *)
(* its MTI, the bytes of a bitmap, and the bits set in each of three bitmaps.  *)
extractBitmaps(f, rest) ==
  LET two == 1 \in f.bits[1] /\ rest >= 2 * f.unit
      three == two /\ 1 \in f.bits[2] /\ rest >= 3 * f.unit
      n == IF three THEN 3 ELSE IF two THEN 2 ELSE 1
  IN [bytes |-> n * f.unit,
      fields |-> UNION {{(i - 1) * Bits + b : b \in f.bits[i]} : i \in 1..n}]

GetHeaderOffset(f) == IF f.len > f.header THEN f.header ELSE 0

\* Variant of minSize: the header in front of the message is counted too.
minSizeHeader(f, x) == f.header + f.mti + x.bytes + Cardinality(x.fields)

minSize(f, x) == f.mti + x.bytes + Cardinality(x.fields)

inspect(f) ==
  LET at == GetHeaderOffset(f) + f.mti
  IN f.len > at + f.unit /\ f.len >= minSize(f, extractBitmaps(f, f.len - at))

(* A message: its bitmaps, and a byte or more for each field that is not the   *)
(* sign of a further bitmap.                                                   *)
BitmapsOf(bits) == IF 1 \notin bits[1] THEN 1 ELSE IF 1 \notin bits[2] THEN 2 ELSE 3
WellFormed(f) ==
  LET n == BitmapsOf(f.bits)
      fields == {<<i, b>> \in (1..n) \X (2..Bits) : b \in f.bits[i]} \cup {<<3, 1>> : b \in {x \in {1} : n = 3 /\ 1 \in f.bits[3]}}
  IN fields # {} /\ f.len >= f.header + f.mti + n * f.unit + Cardinality(fields)

--------------------------------------------------------------------------------
(* What one end frames the other reads back, whatever follows on the wire.     *)
FrameReadBack(c, p, rest) ==
  ~buildFrame(c, p).err /\ Len(p) \in 1..MaxUint16
    => readFrame(c, buildFrame(c, p).v \o rest) = Ok(p)

(* The messages of a socket do not depend on how their bytes arrive.           *)
ChunksDoNotMatter(c, data, k) ==
  Scan(c, <<>>, <<SubSeq(data, 1, k), SubSeq(data, k + 1, Len(data))>>, <<>>)
    = Scan(c, <<>>, <<data>>, <<>>)

(* The check does not disconnect a peer for a message that is well formed: one *)
(* with a single bitmap, or behind a header of two bytes or more.              *)
WellFormedPasses(f) == WellFormed(f) /\ (f.header >= 2 \/ BitmapsOf(f.bits) = 1) => inspect(f)

(* Refuted.  "min size = MTI + bitmaps + field_count": the sign of a further   *)
(* bitmap is no field, and a message can be shorter than that.                 *)
AnyWellFormedPasses(f) == WellFormed(f) => inspect(f)

(* Refuted.  "validated above": a frame that buildFrame returns is one that    *)
(* readFrame takes.                                                            *)
WrittenIsReadable(c, p) == ~buildFrame(c, p).err => readFrame(c, buildFrame(c, p).v) = Ok(p)
================================================================================
