------------------------------ MODULE RowFormat ------------------------------
(****************************************************************************)
(* How rows are stored: row keys whose byte order is the order of the       *)
(* primary keys (internal/bridge/encoding) and self-describing row values   *)
(* (internal/bridge/codec).  A byte is a digit below Base; the four and     *)
(* eight bytes of the Go types are IntLen and BigLen digits.                *)
(****************************************************************************)
EXTENDS SqlValues

CONSTANTS
  Base,       \* 256
  IntLen,     \* bytes of an int32 or a float32
  BigLen,     \* bytes of an int64 or a float64
  DecDigits   \* decimalPrecision: digits before and after the point

Full(w) == Base ^ w
Half(w) == Full(w) \div 2

ASSUME FormatAssumption ==
  /\ Base \in Nat /\ Base % 2 = 0 /\ Base > 9
  /\ IntLen \in Nat /\ BigLen \in Nat /\ DecDigits \in Nat
  /\ IntMax = Half(IntLen) - 1 /\ BigMax = Half(BigLen) - 1

\* Big-endian bytes of an unsigned number
Digits(u, w) == [i \in 1..w |-> (u \div (Base ^ (w - i))) % Base]
FromDigits(d) == FoldLeft(LAMBDA n, x : n * Base + x, 0, d)

Unsigned(n, w) == n % Full(w)
Signed(u, w) == IF u < Half(w) THEN u ELSE u - Full(w)

\* IEEE 754: a sign bit over a number that grows with the magnitude.  The floats
\* here are multiples of one half, numbered in order.
FloatBits(q, w) ==
  LET m == Trunc(Mul(<<Magnitude(q[1]), q[2]>>, Whole(2)))
  IN  IF q[1] < 0 THEN Half(w) + m ELSE m
BitsFloat(u, w) == IF u < Half(w) THEN Fraction(u, 2) ELSE Fraction(Half(w) - u, 2)

-----------------------------------------------------------------------------
(* Sortable keys *)

\* Mutant: the sign bit is left as it is.
MutFlipSign(u, w) == u
\* XOR with the sign bit
FlipSign(u, w) == (u + Half(w)) % Full(w)

EncodeInt(n, w) == Digits(FlipSign(Unsigned(n, w), w), w)
DecodeInt(d) == Signed(FlipSign(FromDigits(d), Len(d)), Len(d))

\* Zero has no sign: -0 is normalised before.
EncodeFloat(q, w) ==
  LET u == FloatBits(q, w)
  IN  Digits(IF u >= Half(w) THEN Full(w) - 1 - u ELSE u + Half(w), w)
DecodeFloat(d) ==
  LET u == FromDigits(d)
      w == Len(d)
  IN  BitsFloat(IF u >= Half(w) THEN u - Half(w) ELSE Full(w) - 1 - u, w)

EncodeString(s) == Append(s, 0)
EncodeBool(v) == v

\* Ten digits and the byte of each, here two: a sign, the digits before the
\* point with leading zeros and those after it with trailing zeros, all
\* complemented when the number is negative.
BinaryDigits(n, w) == [i \in 1..w |-> (n \div (2 ^ (w - i))) % 2]
DecimalScaled(q) == Mul(<<Magnitude(q[1]), q[2]>>, Whole(2 ^ DecDigits))
DecimalTooLarge(q) == DecimalScaled(q)[2] # 1 \/ DecimalScaled(q)[1] >= 2 ^ (2 * DecDigits)
EncodeDecimal(q) ==
  LET d == BinaryDigits(DecimalScaled(q)[1], 2 * DecDigits)
  IN  IF q[1] < 0 THEN <<0>> \o [i \in DOMAIN d |-> 1 - d[i]] ELSE <<1>> \o d
DecodeDecimal(b) ==
  LET neg == Head(b) = 0
      d == [i \in DOMAIN Tail(b) |-> IF neg THEN 1 - Tail(b)[i] ELSE Tail(b)[i]]
      q == Fraction(FoldLeft(LAMBDA n, x : n * 2 + x, 0, d), 2 ^ DecDigits)
  IN  IF neg THEN Neg(q) ELSE q

EncodePart(type, v) ==
  CASE type = "INT" -> EncodeInt(v.v[1], IntLen)
    [] type = "BIGINT" -> EncodeInt(v.v[1], BigLen)
    [] type = "FLOAT" -> EncodeFloat(v.v, IntLen)
    [] type = "DOUBLE" -> EncodeFloat(v.v, BigLen)
    [] type = "DECIMAL" -> EncodeDecimal(v.v)
    [] type \in {"VARCHAR", "TEXT"} -> EncodeString(v.v)
    [] type = "BOOLEAN" -> EncodeBool(v.v)

\* ErrNulInString, ErrDecimalTooLarge
PartRefused(type, v) ==
  \/ IsStringType(type) /\ 0 \in ToSet(v.v)
  \/ type = "DECIMAL" /\ DecimalTooLarge(v.v)

EncodePK(types, vals) == FlattenSeq([i \in DOMAIN types |-> EncodePart(types[i], vals[i])])
PKRefused(types, vals) == \E i \in DOMAIN types : PartRefused(types[i], vals[i])

\* The length of the part that starts a key: fixed, or up to the terminator.
PartLen(type, key) ==
  CASE type \in {"INT", "FLOAT"} -> IntLen
    [] type \in {"BIGINT", "DOUBLE", "TIMESTAMP"} -> BigLen
    [] type = "BOOLEAN" -> 1
    [] type = "DECIMAL" -> 1 + 2 * DecDigits
    [] type \in {"VARCHAR", "TEXT"} -> Min({i \in DOMAIN key : key[i] = 0} \cup {Len(key) + 1})
DecodePart(type, d) ==
  CASE type = "INT" -> Value("int32", Whole(DecodeInt(d)))
    [] type = "BIGINT" -> Value("int64", Whole(DecodeInt(d)))
    [] type = "FLOAT" -> Value("float32", DecodeFloat(d))
    [] type = "DOUBLE" -> Value("float64", DecodeFloat(d))
    [] type = "DECIMAL" -> Value("decimal", DecodeDecimal(d))
    [] type \in {"VARCHAR", "TEXT"} -> Value("string", Front(d))
    [] type = "BOOLEAN" -> Bool(d = <<1>>)

Unreadable == Value("unreadable", <<>>)  \* ErrKeyTooShort, ErrInvalidPK

RECURSIVE DecodePK(_, _)
DecodePK(types, key) ==
  LET n == PartLen(Head(types), key)
  IN  IF types = <<>> THEN IF key = <<>> THEN <<>> ELSE <<Unreadable>>
      ELSE IF n > Len(key) THEN <<Unreadable>>
      ELSE <<DecodePart(Head(types), SubSeq(key, 1, n))>> \o DecodePK(Tail(types), SubSeq(key, n + 1, Len(key)))

NamespaceSystem == 0
NamespaceUser == 1

\* Mutant: the names follow each other without their lengths.
MutNamePart(name) == name
\* A name has its length, in two bytes, before it.
NamePart(name) == Digits(Len(name), 2) \o name
EncodeScanPrefix(db, table) == <<NamespaceUser>> \o NamePart(db) \o NamePart(table)
EncodeRowKey(db, table, pk) == EncodeScanPrefix(db, table) \o pk
EncodeCatalogKey(tag, names) == <<NamespaceSystem>> \o tag \o FlattenSeq([i \in DOMAIN names |-> NamePart(names[i])])

\* The inverse of EncodeRowKey; its checks against truncated keys are left out.
DecodeParts(key) ==
  LET dbLen == FromDigits(SubSeq(key, 2, 3))
      tableLen == FromDigits(SubSeq(key, 4 + dbLen, 5 + dbLen))
  IN  [db |-> SubSeq(key, 4, 3 + dbLen), table |-> SubSeq(key, 6 + dbLen, 5 + dbLen + tableLen),
       pk |-> SubSeq(key, 6 + dbLen + tableLen, Len(key))]

-----------------------------------------------------------------------------
(* Row values: version, column count, and for each column a NULL flag, a type *)
(* tag and its bytes                                                          *)

TypeTags == <<"INT", "BIGINT", "VARCHAR", "BOOLEAN", "TEXT", "TIMESTAMP", "FLOAT", "DOUBLE", "DECIMAL">>
TypeTag(type) == CHOOSE t \in DOMAIN TypeTags : TypeTags[t] = type
PrefixLen(type) == CASE type \in {"VARCHAR", "DECIMAL"} -> 2 [] type = "TEXT" -> 4 [] OTHER -> 0

\* The text of a DECIMAL stands here as sign, numerator and denominator.
DecimalText(q) == <<IF q[1] < 0 THEN 1 ELSE 0, Magnitude(q[1]), q[2]>>
TextDecimal(s) == IF s[1] = 1 THEN <<-s[2], s[3]>> ELSE <<s[2], s[3]>>

Raw(type, v) ==
  CASE type = "INT" -> Digits(Unsigned(v.v[1], IntLen), IntLen)
    [] type = "BIGINT" -> Digits(Unsigned(v.v[1], BigLen), BigLen)
    [] type = "FLOAT" -> Digits(FloatBits(v.v, IntLen), IntLen)
    [] type = "DOUBLE" -> Digits(FloatBits(v.v, BigLen), BigLen)
    [] type = "BOOLEAN" -> v.v
    [] type = "DECIMAL" -> Digits(3, 2) \o DecimalText(v.v)
    [] type \in {"VARCHAR", "TEXT"} -> Digits(Len(v.v), PrefixLen(type)) \o v.v
FromRaw(type, raw) ==
  CASE type = "INT" -> Value("int32", Whole(Signed(FromDigits(raw), IntLen)))
    [] type = "BIGINT" -> Value("int64", Whole(Signed(FromDigits(raw), BigLen)))
    [] type = "FLOAT" -> Value("float32", BitsFloat(FromDigits(raw), IntLen))
    [] type = "DOUBLE" -> Value("float64", BitsFloat(FromDigits(raw), BigLen))
    [] type = "BOOLEAN" -> Value("bool", raw)
    [] type = "DECIMAL" -> Value("decimal", TextDecimal(SubSeq(raw, 3, Len(raw))))
    [] type \in {"VARCHAR", "TEXT"} -> Value("string", SubSeq(raw, PrefixLen(type) + 1, Len(raw)))

EncodeColumn(type, v) ==
  IF v = Null THEN <<1, TypeTag(type)>> ELSE <<0, TypeTag(type)>> \o Raw(type, v)
Encode(types, vals) ==
  <<1>> \o Digits(Len(vals), 2) \o FlattenSeq([i \in DOMAIN vals |-> EncodeColumn(types[i], vals[i])])

\* How many bytes a value takes; -1: the length itself is cut off.
ValueBytesLen(type, rest) ==
  LET p == PrefixLen(type)
  IN  CASE type \in {"INT", "FLOAT"} -> IntLen
        [] type \in {"BIGINT", "DOUBLE", "TIMESTAMP"} -> BigLen
        [] type = "BOOLEAN" -> 1
        [] OTHER -> IF Len(rest) < p THEN -1 ELSE p + FromDigits(SubSeq(rest, 1, p))

CutOff(nbytes, rest) == nbytes < 0 \/ nbytes > Len(rest)

\* Mutant: the loop runs to the end of the data.
MutDone(n, data) == data = <<>>
\* The loop runs once per column of the header.
Done(n, data) == n = 0

\* ErrTruncatedValue, ErrUnknownCodecVersion, ErrCorruptedRow, ErrUnknownTypeTag
Corrupted == <<Unreadable>>

RECURSIVE DecodeColumns(_, _)
DecodeColumns(n, data) ==
  LET type == TypeTags[data[2]]
      rest == SubSeq(data, 3, Len(data))
      nbytes == ValueBytesLen(type, rest)
  IN  IF Done(n, data) THEN <<>>
      ELSE IF Len(data) < 2 \/ data[1] \notin {0, 1} \/ data[2] \notin DOMAIN TypeTags THEN Corrupted
      ELSE IF data[1] = 1 THEN <<Null>> \o DecodeColumns(n - 1, rest)
      ELSE IF CutOff(nbytes, rest) THEN Corrupted
      ELSE <<FromRaw(type, SubSeq(rest, 1, nbytes))>> \o DecodeColumns(n - 1, SubSeq(rest, nbytes + 1, Len(rest)))

Decode(data) ==
  IF Len(data) < 3 \/ data[1] # 1 THEN Corrupted
  ELSE DecodeColumns(FromDigits(SubSeq(data, 2, 3)), SubSeq(data, 4, Len(data)))
IsCorrupted(vals) == \E i \in DOMAIN vals : vals[i] = Unreadable
=============================================================================
