----------------------------- MODULE Conversions -----------------------------
(***************************************************************************)
(* Pure functions of the library, each against what it is meant to compute: *)
(* the size class of a block (chunk_pool.cc), the concurrency configured    *)
(* for QAT (qat_util.cc), the quota list of the DSA dispatcher              *)
(* (dsa_dispatcher.cc), the frame headers (dc_format.h, dc_format.cc), the  *)
(* checksum of a compressed frame (checksum_impl.cc, qat_codec_engine.cc),  *)
(* the copy of part of a source (qat_codec_engine.h),                       *)
(* the sequences of a zstd block (zstd_helper_impl.cc) and the pieces of a  *)
(* C call (c_api_cypher.cc).                                                *)
(*                                                                          *)
(* Sizes are scaled down: a CRC of W bits over messages of bits instead of  *)
(* 32 bits over bytes, tables with 2^Row columns instead of 2^6, nibbles    *)
(* of Mask and length bytes of Full instead of 15 and 255.  The table of    *)
(* powers itself and the hash of the header have their 32 bits.             *)
(***************************************************************************)
EXTENDS Integers, Sequences, FiniteSets, FiniteSetsExt, SequencesExt, ChecksumTable

CONSTANTS
    Unit, Blocks,            \* 1024 and kBlockNum
    Lines, MaxLines,         \* lines of a configuration file, and how many
    MinConcurrency, DefaultConcurrency, MaxConcurrency,
    MaxChars,                \* length of a quota list
    W, Row, Poly, InitCrc,   \* width, bits of a table index, x^W modulo the polynomial
                             \* and kCrc32cInitialValue, as sets of exponents
    Mask, Full,              \* RUN_MASK, and a length byte that continues
    SgLimit                  \* VESAL_MAX_SGL_NUM

VARIABLE call   \* the last call: [fn, arg, ret]
vars == call

Calls(fn, args, ret(_)) == \E a \in args : call' = [fn |-> fn, arg |-> a, ret |-> ret(a)]

-----------------------------------------------------------------------------
(* Size classes *)

Bits(x) == {i \in 0 .. 30 : (x \div 2^i) % 2 = 1}
popcount(x) == Cardinality(Bits(x))
clz(x) == 31 - Max(Bits(x))

\* Mutant: the size is rounded down to units.
GetBlockIndexFloor(size) ==
    LET x == size \div Unit
        p == IF Bits(x) \cap Bits(x - 1) # {} THEN 2^(31 - (clz(x) - 1)) ELSE x
    IN  popcount(p - 1)

GetBlockIndex(size) ==
    LET x == (size + Unit - 1) \div Unit
        p == IF Bits(x) \cap Bits(x - 1) # {} THEN 2^(31 - (clz(x) - 1)) ELSE x
    IN  popcount(p - 1)

\* The smallest class that holds the size
SmallestClass(size) == Min({i \in 0 .. Blocks - 1 : Unit * 2^i >= size})

BlockIndexCall == Calls("block", 1 .. Unit * 2^(Blocks - 1), GetBlockIndex)

-----------------------------------------------------------------------------
(* Configured concurrency.  A line is [kind, value]: "ours" or "other" for a  *)
(* section, "key" for the key with a number, "nonum" for the key without      *)
(* one, "comment" for the rest that is skipped.                               *)

ReadConcurrencyFromFile(file) ==
    LET keys == SelectSeq(file, LAMBDA l : l.kind = "key")
        found == (\E i \in DOMAIN file : file[i].kind = "ours") /\ keys # <<>>
    IN  [found |-> found,
         concurrency |-> IF keys = <<>> THEN DefaultConcurrency ELSE Last(keys).value]

\* Mutant: without the lower limit
GetQatMaxConcurrencyRaw(files) ==
    LET r == {ReadConcurrencyFromFile(files[i]) : i \in DOMAIN files}
        found == {x.concurrency : x \in {y \in r : y.found}}
    IN  IF found = {} THEN DefaultConcurrency ELSE Min(found \cup {MaxConcurrency})

GetQatMaxConcurrency(files) ==
    LET r == {ReadConcurrencyFromFile(files[i]) : i \in DOMAIN files}
        found == {x.concurrency : x \in {y \in r : y.found}}
        ret == IF found = {} THEN DefaultConcurrency ELSE Min(found \cup {MaxConcurrency})
    IN  Max({ret, MinConcurrency})

Files == UNION {[1 .. n -> Lines] : n \in 0 .. MaxLines}

\* Two of the files; a missing one is empty.
ConcurrencyCall == Calls("concurrency", Files \X Files, GetQatMaxConcurrency)
FileCall == Calls("file", Files, ReadConcurrencyFromFile)

\* The lines of the section, the values of the key there, and a file with the key nowhere else
InSection(file) ==
    {j \in DOMAIN file :
        \E k \in 1 .. j : file[k].kind = "ours" /\ \A m \in k .. j : file[m].kind # "other"}
KeyLines(file) == {j \in DOMAIN file : file[j].kind = "key"}
ValuesInSection(file) == {file[j].value : j \in KeyLines(file) \cap InSection(file)}
OwnKeysOnly(file) == KeyLines(file) \subseteq InSection(file)

\* What such files configure: the least of their last values, within the limits
Configured(files) ==
    LET with == {i \in DOMAIN files : KeyLines(files[i]) # {}}
        values == {files[i][Max(KeyLines(files[i]))].value : i \in with}
    IN  IF values = {} THEN DefaultConcurrency
        ELSE Max({MinConcurrency, Min(values \cup {MaxConcurrency})})

-----------------------------------------------------------------------------
(* Quota lists: characters "d" (a digit), "," and "x" *)

\* Mutant: two commas in a row pass.
IsValidNumberListEmpty(s) ==
    /\ s # <<>> /\ s[1] = "d" /\ Last(s) = "d"
    /\ \A i \in DOMAIN s : s[i] \in {"d", ","}

IsValidNumberList(s) ==
    /\ s # <<>> /\ s[1] = "d" /\ Last(s) = "d"
    /\ \A i \in DOMAIN s : s[i] \in {"d", ","}
    /\ \A i \in DOMAIN s \ {1} : ~(s[i] = "," /\ s[i - 1] = ",")

\* Parse: how many numbers, the empty tokens skipped
Parse(s) ==
    Cardinality({i \in DOMAIN s : s[i] # "," /\ (i = 1 \/ s[i - 1] = ",")})

Quota(s) == IF IsValidNumberList(s) THEN Parse(s) ELSE -1

\* Numbers with a comma between each two, and nothing else
Commas(s) == Cardinality({i \in DOMAIN s : s[i] = ","})
IsList(s) ==
    /\ \A i \in 0 .. Len(s) : (i = 0 \/ s[i] = ",") => i < Len(s) /\ s[i + 1] = "d"
    /\ \A i \in DOMAIN s : s[i] # "x"

QuotaCall == Calls("quota", UNION {[1 .. n -> {"d", ",", "x"}] : n \in 0 .. MaxChars}, Quota)

-----------------------------------------------------------------------------
(* Headers *)

\* GetZlibHeaderFlag: the four flags of dc_format.h
GetZlibHeaderFlag(level) ==
    CASE level \in 1 .. 2 -> 1
      [] level \in 3 .. 5 -> 94
      [] level \in 6 .. 8 -> 156
      [] OTHER -> 218

ZlibHeaderGen(level) == <<120, GetZlibHeaderFlag(level)>>

HeaderCall == Calls("header", 1 .. 12, ZlibHeaderGen)

\* What vesal's LZ4 frames are: the kLz4FrameHeader constants
Frame == [version |-> 1, blockMode |-> 1, blockChecksum |-> 0, contentSize |-> 0,
          contentChecksum |-> 0, dictID |-> 0, blockSizeID |-> 4]
Magic == <<4, 34, 77, 24>>

\* Words of 32 bits, as their four bytes from the lowest
Word32(hi, lo) == <<lo % 256, lo \div 256, hi % 256, hi \div 256>>
Carried(d) ==
    LET c2 == d[2] + d[1] \div 256
        c3 == d[3] + c2 \div 256
        c4 == d[4] + c3 \div 256
    IN  <<d[1] % 256, c2 % 256, c3 % 256, c4 % 256>>
Plus(a, b) == Carried([i \in 1 .. 4 |-> a[i] + b[i]])
Times(a, b) ==
    Carried([i \in 1 .. 4 |-> MapThenSumSet(LAMBDA j : a[j] * b[i + 1 - j], 1 .. i)])
BitsOf(a) == UNION {{8 * (i - 1) + j : j \in Bits(a[i])} : i \in 1 .. 4}
FromBits(s) ==
    [i \in 1 .. 4 |-> MapThenSumSet(LAMBDA j : IF 8 * (i - 1) + j \in s THEN 2^j ELSE 0, 0 .. 7)]
XX_ROT32(a, r) == FromBits({(j + r) % 32 : j \in BitsOf(a)})
XorShifted(a, r) ==
    LET s == {j - r : j \in {k \in BitsOf(a) : k >= r}}
    IN  FromBits((BitsOf(a) \cup s) \ (BitsOf(a) \cap s))

\* A char is signed
FromChar(c) == IF c < 128 THEN <<c, 0, 0, 0>> ELSE <<c, 255, 255, 255>>

\* XxHash of less than four bytes, which is what its one caller has
XxHash(bytes) ==
    LET k1 == Word32(\h9e37, \h79b1)
        k2 == Word32(\h85eb, \hca77)
        k3 == Word32(\hc2b2, \hae3d)
        k5 == Word32(\h1656, \h67b1)
        step(h, c) == Times(XX_ROT32(Plus(h, Times(FromChar(c), k5)), 11), k1)
        h == FoldLeft(step, Plus(k5, <<Len(bytes), 0, 0, 0>>), bytes)
    IN  XorShifted(Times(XorShifted(Times(XorShifted(h, 15), k2), 13), k3), 16)

\* Mutant: the flag of independent blocks is taken for the blocks' checksum as well.
FlagDescTwice(f) ==
    (f.version % 4) * 64 + (f.blockMode % 2) * 32 + (f.blockMode % 2) * 16 + (f.dictID % 2)

FlagDesc(f) ==
    (f.version % 4) * 64 + (f.blockMode % 2) * 32 + (f.blockChecksum % 2) * 16
    + (f.contentSize % 2) * 8 + (f.contentChecksum % 2) * 4 + (f.dictID % 2)

Lz4FrameHeaderGen ==
    LET flag_desc == FlagDesc(Frame)
        block_desc == (Frame.blockSizeID % 8) * 16
    IN  Magic \o <<flag_desc, block_desc, XxHash(<<flag_desc, block_desc>>)[2]>>

Lz4FrameFooterGen == <<0, 0, 0, 0>>

\* FrameHeaderGen, FrameFooterGen: zstd and deflate have none, zlib has functions of its own
FrameHeaderGen(algorithm) ==
    CASE algorithm = "kLz4" -> [status |-> "kOk", bytes |-> Lz4FrameHeaderGen]
      [] algorithm \in {"kZstd", "kDeflate"} -> [status |-> "kOk", bytes |-> <<>>]
      [] OTHER -> [status |-> "kNotSupported", bytes |-> <<>>]

FrameFooterGen(algorithm) ==
    CASE algorithm = "kLz4" -> [status |-> "kOk", bytes |-> Lz4FrameFooterGen]
      [] algorithm \in {"kZstd", "kDeflate"} -> [status |-> "kOk", bytes |-> <<>>]
      [] OTHER -> [status |-> "kNotSupported", bytes |-> <<>>]

\* InitSoftwarePreferences: what the software is told to write (frameType is not written)
InitSoftwarePreferences ==
    [blockChecksum |-> 0, contentChecksum |-> 0, blockMode |-> 1, blockSizeID |-> 4,
     contentSize |-> Frame.contentSize, dictID |-> Frame.dictID]

\* The levels of the software: ChannelLevelToLZ4FLevel, and ChannelLvlToZlibLvl with zlib's
\* default as 6
ChannelLevelToLZ4FLevel(level) == <<-10, -8, -6, -4, -2, 0, 2, 4, 6, 8, 10, 12>>[level]
ChannelLvlToZlibLvl(level) == IF level \in 1 .. 2 THEN 1 ELSE IF level \in 3 .. 8 THEN 6 ELSE 9

FrameCall ==
    Calls("frame", {"kLz4", "kZstd", "kDeflate", "kZlib", "kNum"},
          LAMBDA a : [header |-> FrameHeaderGen(a), footer |-> FrameFooterGen(a)])
LevelCall ==
    Calls("level", 2 .. 12, LAMBDA level : <<ChannelLevelToLZ4FLevel(level),
                                             ChannelLvlToZlibLvl(level), GetZlibHeaderFlag(level) \div 64>>)

\* How a reader of the LZ4 frame format takes a header apart (external); it computes the
\* hash of the descriptor 60 40 as 82.
Read(h) ==
    LET bit(i) == (h[5] \div 2^i) % 2
    IN  [version |-> h[5] \div 64, blockMode |-> bit(5), blockChecksum |-> bit(4),
         contentSize |-> bit(3), contentChecksum |-> bit(2), dictID |-> bit(0),
         blockSizeID |-> (h[6] \div 16) % 8]

-----------------------------------------------------------------------------
(* Checksums.  A register of W bits is the set of the exponents of a          *)
(* polynomial; the highest bit is the exponent 0, as the bits are reflected.  *)

Xor(a, b) == (a \cup b) \ (a \cap b)
ShiftRight(a, width, poly) ==
    LET shifted == {i + 1 : i \in a}
    IN  IF width \in shifted THEN Xor(shifted \ {width}, poly) ELSE shifted
MulX(a) == ShiftRight(a, W, Poly)

\* crc32Mult: one bit of a after the other, from the highest
crc32Mult(a, b) ==
    LET step(acc, i) == [p |-> IF i \in a THEN Xor(acc.p, acc.b) ELSE acc.p, b |-> MulX(acc.b)]
    IN  FoldLeft(step, [p |-> {}, b |-> b], [i \in 1 .. W |-> i - 1]).p

\* _mm_clmulepi64_si128: the product of two polynomials, not reduced
Clmul(a, b) ==
    {n \in {i + j : i \in a, j \in b} : Cardinality({i \in a : n - i \in b}) % 2 = 1}

\* A word of 32 bits as a register
Register(hi, lo) == {15 - j : j \in Bits(hi)} \cup {31 - j : j \in Bits(lo)}
kCrc32cPolyReflect == Register(\h82f6, \h3b78)

\* Mutant: the rows are taken to be one shorter.
TableShort(i, k) == LET n == 63 * i + k IN Register(Halves[2 * n + 1], Halves[2 * n + 2])

kCRC32X64NTable(i, k) == LET n == 64 * i + k IN Register(Halves[2 * n + 1], Halves[2 * n + 2])

TableCall ==
    Calls("table", ((0 .. 4) \X (0 .. 63)) \cup ({5} \X (0 .. 3)),
          LAMBDA a : kCRC32X64NTable(a[1], a[2]))

\* A sum of powers of x, modulo the polynomial
Sum(s, width, poly) ==
    LET x[n \in 0 .. 2 * width] == IF n < width THEN {n} ELSE ShiftRight(x[n - 1], width, poly)
        power == [n \in s |-> x[n]]
    IN  {j \in 0 .. width - 1 : Cardinality({n \in s : j \in power[n]}) % 2 = 1}

\* What row i, column k is to be: x to the power 8 * k * 64^i, by the entries before it
Entry(i, k) ==
    LET T(m, n) == kCRC32X64NTable(m, n)
        times(a, b) == Sum(Clmul(a, b), 32, kCrc32cPolyReflect)
    IN  CASE k = 0 -> {0}
          [] k = 1 /\ i = 0 -> {8}
          [] k = 1 /\ i # 0 -> times(T(i - 1, 63), T(i - 1, 1))
          [] OTHER -> times(T(i, k - 1), T(i, 1))

\* x to the power n.  (The union of one set is that set: TLC has its value before it goes on.)
XPower[n \in Nat] ==
    IF n = 0 THEN {0}
    ELSE IF n % 2 = 1 THEN UNION {MulX(p) : p \in {XPower[n - 1]}}
    ELSE UNION {crc32Mult(root, root) : root \in {XPower[n \div 2]}}

\* The table for W bits, whose lengths are in bits
Table(i, k) == XPower[k * 2^(Row * i)]

\* Mutant: the length is folded once only.
FoldedOnce(len) == LET m == 2^(W - 1) IN IF m <= len THEN len % m ELSE len

\* The length modulo 2^31 - 1, the order of x
Folded(len) ==
    LET m == 2^(W - 1)
        once(n) == IF m <= n THEN (n % m) + (n \div m) ELSE n
    IN  once(once(len))

Columns(len) == {i \in 0 .. W \div Row : (Folded(len) \div 2^(Row * i)) % 2^Row # 0}
Column(len, i) == (Folded(len) \div 2^(Row * i)) % 2^Row

\* ComputeCRC32: the register after a message of bits (the CPU's crc32 instruction)
ComputeCRC32(init, msg) ==
    LET crc[i \in 0 .. Len(msg)] ==
            IF i = 0 THEN init
            ELSE MulX(Xor(crc[i - 1], IF msg[i] = 1 THEN {W - 1} ELSE {}))
    IN  crc[Len(msg)]

Zeros(n) == [i \in 1 .. n |-> 0]

CRC32CombineGen(len) ==
    FoldSet(LAMBDA i, p : crc32Mult(Table(i, Column(len, i)), p), {0}, Columns(len))

CRC32CombineOp(crc1, crc2, op) == Xor(crc32Mult(op, crc1), crc2)

Low(v, n) == {i \in v : i < n}
High(v, n) == {i - n : i \in {j \in v : j >= n}}

\* One column: two products fit into the register; from then on its part above 2 * W is
\* multiplied by x to that power as well.
FoldColumn(acc, c0) ==
    LET c1 == ComputeCRC32(c0, Zeros(2 * W))
        lo == Clmul(Low(acc.v, 2 * W), c0)
        hi == Clmul(High(acc.v, 2 * W), c1)
    IN  IF acc.d < 2 THEN [v |-> Clmul(acc.v, c0), d |-> acc.d + 1]
        ELSE [v |-> Xor(lo, hi), d |-> acc.d]

\* Mutant: the register is reduced as if one product were in it.
ReducedShort(r) == Xor(Low(r.v, W), ComputeCRC32(Low(High(r.v, W), W), Zeros(W)))

\* Reduce to W bits, from 2 * W or from 3 * W
Reduced(r) ==
    IF r.d < 2 THEN Xor(Low(r.v, W), ComputeCRC32(High(r.v, W), Zeros(W)))
    ELSE Xor(Low(r.v, W),
             ComputeCRC32({}, [k \in 1 .. 2 * W |-> IF 3 * W - k \in r.v THEN 1 ELSE 0]))

crc32ff_pclmul(crc, len) ==
    Reduced(FoldLeft(LAMBDA acc, i : FoldColumn(acc, Table(i, Column(len, i))),
                     [v |-> crc, d |-> 0], SetToSortSeq(Columns(len), <)))

\* By what the CPU supports
CRC32Combine(pclmul, crc1, crc2, len2) ==
    IF pclmul THEN Xor(crc32ff_pclmul(crc1, len2), crc2)
    ELSE CRC32CombineOp(crc1, crc2, CRC32CombineGen(len2))

\* Mutant: the initial value is not taken out again.
CombineThreeCRC32Plain(p, c1, c2, c3, len2, len3) ==
    CRC32Combine(p, CRC32Combine(p, c1, c2, len2), c3, len3)

CombineThreeCRC32(p, c1, c2, c3, len2, len3) ==
    CRC32Combine(p, Xor(InitCrc, CRC32Combine(p, Xor(InitCrc, c1), c2, len2)), c3, len3)

\* The header and the footer of an LZ4 frame have checksums computed once (Lz4StaticData);
\* the hardware gives the one of the body, of n bits.
Header == <<1, 0, 1>>
Footer == <<1, 1, 0, 0>>
CompressedCRC32(f) ==
    CombineThreeCRC32(f.pclmul, ComputeCRC32(InitCrc, Header), f.body,
                      ComputeCRC32(InitCrc, Footer), f.n, Len(Footer))

\* The body grows by one bit after the other; all is the checksum of header and body
\* together.
ChecksumCall ==
    Calls("checksum",
          [n : {0}, k : 1 .. 2, pclmul : BOOLEAN, body : {InitCrc},
           all : {ComputeCRC32(InitCrc, Header)}],
          CompressedCRC32)

BodyGrows ==
    LET f == call.arg
        bit == <<((f.n * f.k) % 3) % 2>>
    IN  /\ f.n < 2^W + 2
        /\ Calls("checksum",
                 {[f EXCEPT !.n = @ + 1, !.body = ComputeCRC32(@, bit), !.all = ComputeCRC32(@, bit)]},
                 CompressedCRC32)

\* CopySrcData: the loop copies a part of block i to the start of buf, then goes on with
\* the next block
RECURSIVE CopyFrom(_, _, _, _, _)
CopyFrom(blocks, i, left, len, buf) ==
    LET n == Min({len, Len(blocks[i]) - left})
    IN  IF len = 0 THEN buf
        ELSE CopyFrom(blocks, i + 1, 0, len - n,
                      [k \in DOMAIN buf |-> IF k <= n THEN blocks[i][left + k] ELSE buf[k]])

\* Mutant: the offset is taken from the first block only.
CopySrcDataFirst(blocks, len, offset) ==
    CopyFrom(blocks, 1, Min({offset, Len(blocks[1]) - 1}), len, [k \in 1 .. len |-> 0])

CopySrcData(blocks, len, offset) ==
    LET before(i) == FoldSeq(LAMBDA b, n : Len(b) + n, 0, SubSeq(blocks, 1, i - 1))
        i == Max({i \in DOMAIN blocks : before(i) <= offset})
    IN  CopyFrom(blocks, i, offset - before(i), len, [k \in 1 .. len |-> 0])

Total(lens) == FoldSeq(LAMBDA x, y : x + y, 0, lens)

\* The source 1, 2 .. of a request in blocks of these lengths
Source(lens) ==
    [i \in DOMAIN lens |-> [k \in 1 .. lens[i] |-> Total(SubSeq(lens, 1, i - 1)) + k]]

CopyCall ==
    \E lens \in UNION {[1 .. n -> 1 .. 3] : n \in 1 .. 3} :
        Calls("copy", {a \in {Source(lens)} \X (1 .. 3) \X (0 .. 8) : a[2] + a[3] <= Total(lens)},
              LAMBDA a : CopySrcData(a[1], a[2], a[3]))

-----------------------------------------------------------------------------
(* zstd sequences out of a block of LZ4s: a token (literals and match), more  *)
(* length bytes, the literals, the offset, more length bytes.                 *)

\* GetLength: from place i on, [len, next]
RECURSIVE GetLength(_, _, _)
GetLength(s, i, len) ==
    IF s[i] = Full THEN GetLength(s, i + 1, len + s[i]) ELSE [len |-> len + s[i], next |-> i + 1]

Length(s, i, nibble) == IF nibble = Mask THEN GetLength(s, i, nibble) ELSE [len |-> nibble, next |-> i]

\* Mutant: the literals before an empty match are forgotten.
KeepLiteralsNone(hist, literal_len) == 0

\* hist_literal_len when a sequence has no match
KeepLiterals(hist, literal_len) == hist + literal_len

\* DecodeLz4sToZstdSequence, with LZ4MINMATCH 2 and a 16-bit offset as one element
RECURSIVE Decode(_, _, _, _, _)
Decode(s, i, hist, out, capacity) ==
    LET lit == Length(s, i + 1, s[i] \div (Mask + 1))
        ip == lit.next + lit.len
        match == Length(s, ip + 1, s[i] % (Mask + 1))
    IN  IF ip = Len(s) + 1
        THEN Append(out, [lit |-> lit.len + hist, match |-> 0, offset |-> 0])
        ELSE IF match.len = 0
        THEN Decode(s, match.next, KeepLiterals(hist, lit.len), out, capacity)
        ELSE IF Len(out) + 1 >= capacity THEN <<>>
        ELSE Decode(s, match.next, 0,
                    Append(out, [lit |-> lit.len + hist, match |-> match.len + 2, offset |-> s[ip]]),
                    capacity)

\* What the hardware writes for a list of [lit, match] (external)
RECURSIVE LengthBytes(_)
LengthBytes(n) == IF n >= Full THEN <<Full>> \o LengthBytes(n - Full) ELSE <<n>>
More(n) == IF n >= Mask THEN LengthBytes(n - Mask) ELSE <<>>
Token(q, last) ==
    <<Min({q.lit, Mask}) * (Mask + 1) + (IF last THEN 0 ELSE Min({q.match, Mask}))>>
    \o More(q.lit) \o [i \in 1 .. q.lit |-> 0]
    \o (IF last THEN <<>> ELSE <<q.match + 1>> \o More(q.match))
Lz4s(qs) == FlattenSeq([i \in DOMAIN qs |-> Token(qs[i], i = Len(qs))])

\* The same list for zstd: every match with all literals since the last one
Matches(qs) == {0} \cup {i \in 1 .. Len(qs) - 1 : qs[i].match # 0} \cup {Len(qs)}
Expected(qs) ==
    LET m == SetToSortSeq(Matches(qs), <)
    IN  [k \in 1 .. Len(m) - 1 |->
            [lit |-> MapThenSumSet(LAMBDA i : qs[i].lit, m[k] + 1 .. m[k + 1]),
             match |-> IF m[k + 1] = Len(qs) THEN 0 ELSE qs[m[k + 1]].match + 2,
             offset |-> IF m[k + 1] = Len(qs) THEN 0 ELSE qs[m[k + 1]].match + 1]]

Blocks4s == UNION {[1 .. n -> [lit : {0, 1, 3, 6}, match : {0, 1, 4}]] : n \in 1 .. 3}

SequenceCall == Calls("sequences", Blocks4s, LAMBDA qs : Decode(Lz4s(qs), 1, 0, <<>>, 4))

-----------------------------------------------------------------------------
(* vesal_cypher_submit_sgl: more pieces than a request may have are copied    *)
(* into one.                                                                  *)

Pieces(src) == IF Len(src) > SgLimit THEN <<FlattenSeq(src)>> ELSE src

PiecesCall ==
    Calls("pieces", UNION {[1 .. n -> {<<1>>, <<2, 3>>}] : n \in 1 .. SgLimit + 2}, Pieces)

-----------------------------------------------------------------------------

Init == call = [fn |-> "none", arg |-> 0, ret |-> 0]

Next ==
    \/ /\ call.fn = "none"
       /\ \/ BlockIndexCall \/ ConcurrencyCall \/ FileCall \/ QuotaCall \/ HeaderCall
          \/ FrameCall \/ LevelCall \/ TableCall
          \/ ChecksumCall \/ CopyCall \/ SequenceCall \/ PiecesCall
    \/ call.fn = "checksum" /\ BodyGrows

Spec == Init /\ [][Next]_vars

\* What CopySrcData was asked for, and whether one block has it
Wanted(a) == [k \in 1 .. a[2] |-> a[3] + k]
InOneBlock(a) == \E i \in DOMAIN a[1] : Range(Wanted(a)) \subseteq Range(a[1][i])

\* Every function computes what it is meant to: the smallest class that holds a block; a
\* concurrency within the limits, and exactly the configured one when the key stands in its
\* section only (SectionOnly is about the others); lists of numbers and no others; zlib
\* headers that pass zlib's test; an LZ4 header that says what the software's preferences
\* say, with the hash a reader expects; levels in order; literals of the CRC table that are
\* the powers they are used as; the checksum of a frame as if it were computed over the
\* whole of it, whatever the length of its body; the bytes of a source at an offset, when
\* one block has them all (CopiesAll is about several); every match of a zstd block with
\* the literals before it; pieces with the caller's bytes, no more than allowed
\* (GetBlockIndex, GetQatMaxConcurrency, IsValidNumberList, GetZlibHeaderFlag,
\* FrameHeaderGen, kCRC32X64NTable, CompressedCRC32, CopySrcData,
\* DecodeLz4sToZstdSequence, vesal_cypher_submit_sgl).
ConversionsExact ==
    LET a == call.arg
        r == call.ret
    IN  CASE call.fn = "block" -> r = SmallestClass(a)
          [] call.fn = "concurrency" ->
                /\ r \in MinConcurrency .. MaxConcurrency
                /\ (\A i \in DOMAIN a : OwnKeysOnly(a[i])) => r = Configured(a)
          [] call.fn = "quota" -> r = IF IsList(a) THEN Commas(a) + 1 ELSE -1
          [] call.fn = "header" -> (r[1] * 256 + r[2]) % 31 = 0
          [] call.fn = "frame" ->
                a = "kLz4" => LET f == Read(r.header.bytes)
                              IN  /\ f.version = 1 /\ SubSeq(r.header.bytes, 1, 4) = Magic
                                  /\ \A x \in DOMAIN InitSoftwarePreferences :
                                        f[x] = InitSoftwarePreferences[x]
                                  /\ SubSeq(r.header.bytes, 5, 7) = <<\h60, \h40, \h82>>
                                  /\ Len(r.footer.bytes) = 4 * (1 + f.contentChecksum)
          [] call.fn = "level" ->
                /\ r[1] >= ChannelLevelToLZ4FLevel(a - 1) /\ r[2] >= ChannelLvlToZlibLvl(a - 1)
                /\ r[3] >= GetZlibHeaderFlag(a - 1) \div 64
          [] call.fn = "table" -> r = Entry(a[1], a[2])
          [] call.fn = "checksum" -> r = ComputeCRC32(a.all, Footer)
          [] call.fn = "copy" -> InOneBlock(a) => r = Wanted(a)
          [] call.fn = "sequences" -> r = Expected(a)
          [] call.fn = "pieces" -> FlattenSeq(r) = FlattenSeq(a) /\ Len(r) <= SgLimit
          [] OTHER -> TRUE

\* qat_codec_engine.h:444, "Copy len bytes of data into buf, from offset of src_data":
\* also when they lie in several blocks.
CopiesAll == call.fn = "copy" => call.ret = Wanted(call.arg)

\* The concurrency is taken from the section whose name matches, and nothing else
\* (src/src/common/qat/qat_util.cc: "Accept the value only if the section name matches").
SectionOnly ==
    call.fn = "file" /\ call.ret.found => call.ret.concurrency \in ValuesInSection(call.arg)
=============================================================================
