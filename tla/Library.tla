------------------------------- MODULE Library -------------------------------
(***************************************************************************)
(* The C library of the kernel: the containers of lib/kernel, and calls of *)
(* its pure functions on every argument of a small range.  What a pure     *)
(* function returns depends on its arguments alone, so its calls are made  *)
(* in one state of the containers, the initial one.                        *)
(***************************************************************************)
EXTENDS Containers, Bitmap, Stdlib, Strings, Arithmetic, ArgStack, Loader

CONSTANTS MaxArray,   \* bound of the elements of an array, and of their values
          MaxBits,    \* bound of the bits of a bitmap
          MaxLine,    \* bound of the characters of a command line
          FileLength, \* bytes of an executable
          MemSize,    \* bytes of memory that the string functions are tried on
          Byte        \* the values of such a byte

ASSUME LibraryAssumption ==
  /\ {MaxArray, MaxBits, MaxLine, FileLength, MemSize} \subseteq Nat
  /\ NUL \in Byte /\ Byte \subseteq Nat

VARIABLE pure   \* the last call of a pure function: its arguments and result

NoPure == [fn |-> "none", arg |-> <<>>, res |-> <<>>]

Pure(f, a, r) == pure' = [fn |-> f, arg |-> a, res |-> r]

Upto(S, n) == UNION {[1 .. k -> S] : k \in 0 .. n}

-----------------------------------------------------------------------------
\* qsort of an array, and bsearch for each key in the sorted array.
SortsAndSearches ==
  \E a \in Upto(1 .. MaxArray, MaxArray) :
    Pure("sort", a, [sorted |-> sort(a),
                     found  |-> [k \in 0 .. MaxArray + 1 |-> binary_search(k, sort(a))]])

\* The decimal digits of n.
Decimal[n \in Nat] ==
  IF n < 10 THEN <<Digit[n + 1]>> ELSE Append(Decimal[n \div 10], Digit[(n % 10) + 1])

\* atoi of an int as it may be written: spaces, a sign, and what follows it.
Parses ==
  \E n \in -INT_MAX - 1 .. INT_MAX, spaces \in 0 .. 2, plus \in BOOLEAN, more \in BOOLEAN :
    LET sign == IF n < 0 THEN <<"-">> ELSE IF plus THEN <<"+">> ELSE <<>>
        text == [i \in 1 .. spaces |-> " "] \o sign
                \o Decimal[IF n < 0 THEN -n ELSE n] \o (IF more THEN <<"x">> ELSE <<>>)
    IN  Pure("atoi", n, atoi(text))

\* The four functions that the compiler calls for 64-bit division: n divided by
\* every d.
Divides ==
  \E n \in 0 .. 2 ^ (2 * W) - 1 :
    Pure("divide", n, [d \in 1 .. 2 ^ (2 * W) - 1 |->
                         [q  |-> udiv64(n, d), r |-> umod64(n, d),
                          sq |-> sdiv64(S64(n), S64(d)),
                          sr |-> smod64(S64(n), S64(d))]])

-----------------------------------------------------------------------------
Address0 == 0 .. MemSize - 1

\* The memory: MemSize bytes, a NUL that ends every string in them, and the
\* string of one delimiter.
Delimiter == Max(Byte)

Delimiters == MemSize + 1

Memory ==
  {[a \in 0 .. MemSize + 2 |->
      IF a < MemSize THEN b[a] ELSE IF a = Delimiters THEN Delimiter ELSE NUL]
     : b \in [Address0 -> Byte]}

\* The places <<dst, src, size>> of a block with room for both copies.
Blocks ==
  {x \in Address0 \X Address0 \X (0 .. MemSize) : x[1] + x[3] <= MemSize /\ x[2] + x[3] <= MemSize}

\* Those of a string with room for SIZE bytes outside it.
Targets(m) ==
  {x \in Address0 \X Address0 \X (0 .. MemSize) :
     x[1] + x[3] <= MemSize /\ (x[1] + x[3] <= x[2] \/ x[2] + strlen(m, x[2]) < x[1])}

\* In each memory, the calls are made at all places.
Moves ==
  \E m \in Memory :
    Pure("move", m, [x \in Blocks |-> [move |-> memmove(m, x[1], x[2], x[3]),
                                       copy |-> memcpy(m, x[1], x[2], x[3])]])

Fills ==
  \E m \in Memory, value \in Byte :
    Pure("fill", <<m, value>>, [x \in Blocks |-> memset(m, x[1], value, x[3])])

Copies ==
  \E m \in Memory :
    Pure("copy", m, [x \in Targets(m) |-> [copy |-> strlcpy(m, x[1], x[2], x[3]),
                                           cat  |-> strlcat(m, x[1], x[2], x[3])]])

Compares ==
  \E m \in Memory :
    Pure("compare", m,
         [x \in Address0 \X Address0 |->
            LET a == x[1]
                b == x[2]
                n == MemSize - Max({a, b})
            IN  [str  |-> strcmp(m, a, b), mem |-> memcmp(m, a, b, n),
                 chr  |-> strchr(m, a, m[b]), rchr |-> strrchr(m, a, m[b]),
                 mchr |-> memchr(m, a, m[b], n), len |-> strlen(m, a),
                 nlen |-> strnlen(m, a, b),
                 in   |-> strstr(m, a, b), spn |-> strspn(m, a, b),
                 cspn |-> strcspn(m, a, b), pbrk |-> strpbrk(m, a, b)]])

Tokenizes ==
  \E m \in Memory : Pure("tokens", m, Tokenize(m, 0, Delimiters))

-----------------------------------------------------------------------------
\* start_process has loaded the file that the first word names.
LoadsStack ==
  \E line \in Upto({Space, "a", "b"}, MaxLine) :
    /\ line # <<>> /\ line[1] # Space
    /\ Pure("stack", line, load_stack(line))

\* Each valid program header, and the pages into which load_segment puts it.
LoadsSegment ==
  LET word == 0 .. 2 ^ AddressBits - 1
  IN  \E offset, vaddr, filesz, memsz \in word :
        LET ph == [offset |-> offset, vaddr |-> vaddr, filesz |-> filesz, memsz |-> memsz]
        IN  /\ validate_segment(ph, FileLength)
            /\ Pure("segment", ph, load_segment(ph))

\* A bitmap whose bits in S were marked, and what its calls return for all runs
\* <<start, cnt>> of bits.
MarksBits ==
  \E bit_cnt \in 1 .. MaxBits, garbage \in {0, 2 ^ ELEM_BITS - 1} :
  \E S \in SUBSET (0 .. bit_cnt - 1), v \in BOOLEAN :
    LET b == FoldLeft(bitmap_mark, bitmap_create(bit_cnt, garbage), SetToSeq(S))
        runs == {x \in (0 .. bit_cnt - 1) \X (0 .. bit_cnt) : x[1] + x[2] <= bit_cnt}
    IN  Pure("bits", [n |-> bit_cnt, S |-> S, v |-> v],
             [x \in runs |->
                LET f == bitmap_flip(b, x[1])
                IN  [bits   |-> b, flipped |-> f,
                     set    |-> bitmap_set_multiple(b, x[1], x[2], v),
                     count  |-> bitmap_count(b, x[1], x[2], v),
                     has    |-> bitmap_contains(b, x[1], x[2], v),
                     scan   |-> bitmap_scan(b, x[1], x[2], v),
                     taken  |-> bitmap_scan_and_flip(b, x[1], x[2], v),
                     reread |-> bitmap_read(f, bitmap_write(b))]])

-----------------------------------------------------------------------------
LibraryInit == Init /\ pure = NoPure

PureCall ==
  \/ SortsAndSearches \/ Parses \/ Divides
  \/ Moves \/ Fills \/ Copies \/ Compares \/ Tokenizes
  \/ LoadsStack \/ LoadsSegment \/ MarksBits

Started == s = Arrangement /\ call = NoCall

LibraryNext ==
  \/ pure = NoPure /\ Next /\ UNCHANGED pure
  \/ pure = NoPure /\ Started /\ PureCall /\ UNCHANGED vars
  \/ pure # NoPure /\ pure' = NoPure /\ UNCHANGED vars

LibrarySpec == LibraryInit /\ [][LibraryNext]_<<vars, pure>>

-----------------------------------------------------------------------------
Magnitude(x) == IF x < 0 THEN -x ELSE x

\* Division that rounds towards zero.
Quotient(n, d) ==
  LET q == Magnitude(n) \div Magnitude(d) IN IF (n < 0) = (d < 0) THEN q ELSE -q

Remainder(n, d) == n - d * Quotient(n, d)

\* qsort returns the array's elements in order, bsearch finds a key exactly if
\* it is there, and atoi reads every int.  No 64-bit division traps, and its
\* quotient has the 64 low bits of the exact one; umod64 and smod64 return the 32
\* low bits of the remainder, which is less than their comments say.
NumbersAreRight ==
  LET a == pure.arg
      r == pure.res
      Count(x, q) == Cardinality({i \in 1 .. Len(q) : q[i] = x})
  IN  CASE pure.fn = "sort" ->
             /\ \A i, j \in 1 .. Len(a) : i < j => r.sorted[i] <= r.sorted[j]
             /\ \A x \in ToSet(a) : Count(x, r.sorted) = Count(x, a)
             /\ \A k \in DOMAIN r.found :
                  IF k \in ToSet(a) THEN r.sorted[r.found[k]] = k ELSE r.found[k] = 0
        [] pure.fn = "atoi" -> r = a
        [] pure.fn = "divide" ->
             \A x \in DOMAIN r :
               LET n == S64(a)
                   d == S64(x)
               IN  /\ r[x].q = a \div x /\ r[x].r = U32(a % x)
                   /\ r[x].sq = S64(Quotient(n, d)) /\ r[x].sr = S32(Remainder(n, d))
        [] OTHER -> TRUE

-----------------------------------------------------------------------------
First(S) == IF S = {} THEN NoPtr ELSE Min(S)

\* The bytes of the string at a.
StringAt(m, a) ==
  LET n == Min({k \in 0 .. MemSize + 2 - a : m[a + k] = NUL})
  IN  [i \in 1 .. n |-> m[a + i - 1]]

SameOutside(m, n, dst, size) == \A x \in Address0 \ (dst .. dst + size - 1) : m[x] = n[x]

Prefix(q, n) == SubSeq(q, 1, Min({n, Len(q)}))

MovedRight(m, dst, src, size, r) ==
  /\ \A k \in 0 .. size - 1 : r.move.m[dst + k] = m[src + k]
  /\ SameOutside(m, r.move.m, dst, size)
  /\ r.move.result = IF dst < src THEN dst + size ELSE dst
  /\ dst + size <= src \/ src + size <= dst => r.copy = r.move.m

CopiedRight(m, dst, src, size, r) ==
  LET x == StringAt(m, src)
      y == StringAt(m, dst)
  IN  /\ SameOutside(m, r.copy.m, dst, size)
      /\ SameOutside(m, r.cat.m, dst, size)
      /\ size > 0 => StringAt(r.copy.m, dst) = Prefix(x, size - 1)
      /\ IF Len(y) < size THEN StringAt(r.cat.m, dst) = Prefix(y \o x, size - 1)
         ELSE r.cat.m = m
      /\ r.copy.result = Len(x) /\ r.cat.result = Len(y \o x)

ComparedRight(m, a, b, r) ==
  LET x    == StringAt(m, a)
      y    == StringAt(m, b)
      here == a .. a + Len(x) - 1
      n    == MemSize - Max({a, b})
      Order(k) ==   \* of the bytes at a and at b up to the first difference
        LET D == {i \in 0 .. k - 1 : m[a + i] # m[b + i]}
        IN  IF D = {} THEN 0 ELSE Sign(m[a + Min(D)] - m[b + Min(D)])
  IN  /\ r.str = Order(Min({Len(x), Len(y)}) + 1)
      /\ r.mem = Order(n)
      /\ r.chr = First({i \in here \cup {a + Len(x)} : m[i] = m[b]})
      /\ r.mchr = First({i \in a .. a + n - 1 : m[i] = m[b]})
      /\ r.rchr = Max({NoPtr} \cup {i \in here : m[i] = m[b]})
      /\ r.len = Len(x) /\ r.nlen = Min({Len(x), b})
      /\ r.in = First({i \in a .. a + Len(x) - Len(y) :
                         SubSeq(x, i - a + 1, i - a + Len(y)) = y})
      /\ r.pbrk = First({i \in here : m[i] \in ToSet(y)})
      /\ r.spn = Max({k \in 0 .. Len(x) : ToSet(Prefix(x, k)) \subseteq ToSet(y)})
      /\ r.cspn = Max({k \in 0 .. Len(x) : ToSet(Prefix(x, k)) \cap ToSet(y) = {}})

\* The tokens are the longest runs of bytes that are not delimiters.
TokenizedRight(m, r) ==
  LET x      == StringAt(m, 0)
      starts == {i \in 1 .. Len(x) : x[i] # Delimiter /\ (i = 1 \/ x[i - 1] = Delimiter)}
      End(i) == Max({j \in i .. Len(x) : Delimiter \notin ToSet(SubSeq(x, i, j))})
  IN  [k \in 1 .. Len(r.tokens) |-> StringAt(r.m, r.tokens[k])]
      = [k \in 1 .. Cardinality(starts) |->
           LET i == SetToSortSeq(starts, <)[k] IN SubSeq(x, i, End(i))]

\* memmove moves overlapping blocks, and returns DST, or the end of the block if
\* it copies upwards.  strlcpy and strlcat write nothing outside their SIZE bytes
\* and return the length of the string they were asked for; strlcpy leaves as
\* much of it as fits, and so does strlcat if the string at DST ends within SIZE
\* bytes; else it writes nothing.  The searches find the first (or the last)
\* place there is, and strtok_r returns each word of the string once.
StringsAreRight ==
  LET a == pure.arg
      r == pure.res
  IN  CASE pure.fn = "move" ->
             \A x \in DOMAIN r : MovedRight(a, x[1], x[2], x[3], r[x])
        [] pure.fn = "fill" ->
             \A x \in DOMAIN r : /\ \A k \in 0 .. x[3] - 1 : r[x][x[1] + k] = a[2]
                                 /\ SameOutside(a[1], r[x], x[1], x[3])
        [] pure.fn = "copy" ->
             \A x \in DOMAIN r : CopiedRight(a, x[1], x[2], x[3], r[x])
        [] pure.fn = "compare" ->
             \A x \in DOMAIN r : ComparedRight(a, x[1], x[2], r[x])
        [] pure.fn = "tokens" -> TokenizedRight(a, r)
        [] OTHER -> TRUE

-----------------------------------------------------------------------------
Words(line) ==
  LET starts == {i \in 1 .. Len(line) :
                   line[i] # Space /\ (i = 1 \/ line[i - 1] = Space)}
      End(i) == Max({j \in i .. Len(line) : Space \notin ToSet(SubSeq(line, i, j))})
  IN  [k \in 1 .. Cardinality(starts) |->
         LET i == SetToSortSeq(starts, <)[k] IN SubSeq(line, i, End(i))]

\* The frame that load_stack leaves is the one a user's main() reads: argc and
\* argv above the slot of a return address, argv[i] the terminated i-th word
\* of the command line, argv[argc] null, argc at a multiple of 16, and no int
\* written over a byte or another int.
ArgumentsOnStack ==
  pure.fn = "stack" =>
    LET f    == pure.res
        w    == Words(pure.arg)
        argc == f.ptr + 4
        argv == f.int[argc + 4]
    IN  /\ argc % 16 = 0
        /\ f.int[argc] = Len(w)
        /\ f.int[argv + 4 * Len(w)] = 0
        /\ \A k \in 1 .. Len(w) :
             LET p == f.int[argv + 4 * (k - 1)]
             IN  [i \in 1 .. Len(w[k]) + 1 |-> f.byte[p + i - 1]] = Append(w[k], EndOfString)
        /\ \A x, y \in DOMAIN f.int : x = y \/ x + 4 <= y \/ y + 4 <= x
        /\ \A x \in DOMAIN f.int : (x .. x + 3) \cap DOMAIN f.byte = {}

\* The pages of a valid segment are user pages other than page 0, each once;
\* byte k of the segment comes from byte k of its part of the file while that
\* part lasts, and is zero behind it.
SegmentsAreLoaded ==
  pure.fn = "segment" =>
    LET ph    == pure.arg
        pages == pure.res
        Byte0(a) ==   \* the offset in the file of the byte at address a, or NoPtr
          LET p == pages[pg_no(a) - pg_no(ph.vaddr) + 1]
          IN  IF pg_ofs(a) < p.read THEN p.ofs + pg_ofs(a) ELSE NoPtr
    IN  /\ \A i, j \in DOMAIN pages : i < j => pages[i].upage < pages[j].upage
        /\ {pages[i].upage : i \in DOMAIN pages}
             = pg_no(ph.vaddr) .. pg_no(ph.vaddr + ph.memsz - 1)
        /\ \A i \in DOMAIN pages :
             pages[i].upage > 0 /\ is_user_vaddr(pages[i].upage * PGSIZE)
        /\ \A k \in 0 .. ph.memsz - 1 :
             Byte0(ph.vaddr + k) = IF k < ph.filesz THEN ph.offset + k ELSE NoPtr

BitsOf(b) ==
  {i \in 0 .. b.bit_cnt - 1 : (b.bits[i \div ELEM_BITS] \div 2 ^ (i % ELEM_BITS)) % 2 = 1}

\* The words of a bitmap are a set of bits: the calls on a range of bits count,
\* find, set and flip exactly those, whatever malloc left in the words; a scan
\* returns the first group, which is START for a group of no bits; and a bitmap
\* read back from a file has the bits that were written and no others in its
\* last word.
BitmapIsASet ==
  pure.fn = "bits" => \A x \in DOMAIN pure.res :
    LET a     == pure.arg
        r     == pure.res[x]
        start == x[1]
        cnt   == x[2]
        run   == start .. start + cnt - 1
        Like(R) == {i \in R : (i \in a.S) = a.v}
        fit == {i \in start .. a.n - cnt : Like(i .. i + cnt - 1) = i .. i + cnt - 1}
        got == First(fit) .. First(fit) + cnt - 1
    IN  /\ BitsOf(r.bits) = a.S
        /\ BitsOf(r.flipped) = SymDiff(a.S, {start})
        /\ BitsOf(r.set) = IF a.v THEN a.S \cup run ELSE a.S \ run
        /\ r.count = Cardinality(Like(run)) /\ r.has = (Like(run) # {})
        /\ r.scan = First(fit)
        /\ BitsOf(r.taken.b) = IF fit = {} THEN a.S ELSE SymDiff(a.S, got)
        /\ r.taken.result = First(fit)
        /\ BitsOf(r.reread) = a.S
        /\ a.n % ELEM_BITS # 0 =>
             r.reread.bits[(a.n - 1) \div ELEM_BITS] < 2 ^ (a.n % ELEM_BITS)


\* A user program finds its segments in memory and its arguments on the stack.
ProgramIsLoaded == ArgumentsOnStack /\ SegmentsAreLoaded

-----------------------------------------------------------------------------
\* What the comment of memmove says: "Returns DST".
MoveReturnsDst ==
  pure.fn = "move" => \A x \in DOMAIN pure.res : pure.res[x].move.result = x[1]

\* What the comment of strlcat says: "A null terminator is always written to DST,
\* unless SIZE is 0".
StrlcatTerminates ==
  pure.fn = "copy" => \A x \in DOMAIN pure.res :
    x[3] > 0 => \E k \in 0 .. x[3] - 1 : pure.res[x].cat.m[x[1] + k] = NUL

\* What the comments of umod64 and smod64 say: each "returns the remainder".
RemainderIsExact ==
  pure.fn = "divide" => \A x \in DOMAIN pure.res :
    /\ pure.res[x].r = pure.arg % x
    /\ pure.res[x].sr = Remainder(S64(pure.arg), S64(x))

\* What the comment of bitmap_scan_and_flip says: "If CNT is zero, returns 0".
ScanOfNothingIsZero ==
  pure.fn = "bits" => \A x \in DOMAIN pure.res : x[2] = 0 => pure.res[x].taken.result = 0
=============================================================================
