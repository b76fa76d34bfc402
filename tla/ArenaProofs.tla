----------------------------- MODULE ArenaProofs -----------------------------
(***************************************************************************)
(* Theorems about Arena: for every page size, alignment, reservation and   *)
(* sequence of requests, what arena_alloc has given out stays usable,      *)
(* disjoint and unchanged.                                                 *)
(***************************************************************************)
EXTENDS Arena, TLAPS

-----------------------------------------------------------------------------
\* Arithmetic.

\* A product is a multiple of its factors.
LEMMA Multiple ==
  ASSUME NEW a \in Nat \ {0}, NEW k \in Nat
  PROVE  (a * k) % a = 0
  OBVIOUS

\* A longer prefix holds a shorter one.
LEMMA BytesMonotone ==
  ASSUME NEW j \in Nat, NEW k \in Nat, j <= k
  PROVE  Bytes(0, j) \subseteq Bytes(0, k)
  BY DEF Bytes

\* x & ~(a - 1).
LEMMA RoundDown ==
  ASSUME NEW x \in Nat, NEW a \in Nat \ {0}
  PROVE  /\ x - (x % a) \in 0 .. x /\ x < x - (x % a) + a
         /\ (x - (x % a)) % a = 0
<1>1. x % a \in 0 .. a - 1 /\ x % a <= x
  OBVIOUS
<1>2. x - (x % a) = a * (x \div a) /\ x \div a \in Nat
  OBVIOUS
<1>3. (a * (x \div a)) % a = 0
  BY <1>2, Multiple
<1>4. QED
  BY <1>1, <1>2, <1>3

\* align_up in general: a multiple of a that is a size_t.
LEMMA AlignUpType ==
  ASSUME NEW n \in Nat, NEW a \in Nat \ {0}
  PROVE  AlignUp(n, a) \in 0 .. Word - 1 /\ AlignUp(n, a) % a = 0
<1>1. (n + a - 1) % Word \in 0 .. Word - 1
  BY SizeAssumption
<1> DEFINE x == (n + a - 1) % Word
<1>2. x \in Nat /\ x <= Word - 1 /\ AlignUp(n, a) = x - (x % a)
  BY <1>1 DEF AlignUp
<1> HIDE DEF x
<1>3. x - (x % a) \in 0 .. x /\ (x - (x % a)) % a = 0
  BY <1>2, RoundDown
<1>4. Word \in Nat
  BY SizeAssumption
<1>5. QED
  BY <1>2, <1>3, <1>4

\* align_up without wrap-around: the next multiple of a.
LEMMA AlignUpFacts ==
  ASSUME NEW n \in Nat, NEW a \in Nat \ {0}, n + a - 1 < Word
  PROVE  n <= AlignUp(n, a) /\ AlignUp(n, a) <= n + a - 1
<1>1. (n + a - 1) % Word = n + a - 1
  BY SizeAssumption
<1> DEFINE x == n + a - 1
<1>2. x \in Nat /\ AlignUp(n, a) = x - (x % a)
  BY <1>1 DEF AlignUp
<1>3. x - (x % a) \in 0 .. x /\ x < x - (x % a) + a
  BY <1>2, RoundDown
<1>4. QED
  BY <1>2, <1>3

\* A sum of multiples is a multiple.
LEMMA MultipleOfSum ==
  ASSUME NEW a \in Nat \ {0}, NEW x \in Nat, NEW y \in Nat, x % a = 0, y % a = 0
  PROVE  (x + y) % a = 0
<1>1. x = a * (x \div a) /\ y = a * (y \div a) /\ x \div a \in Nat /\ y \div a \in Nat
  OBVIOUS
<1>2. PICK j \in Nat, k \in Nat : x = a * j /\ y = a * k
  BY <1>1
<1>3. x + y = a * (j + k)
  BY <1>2
<1>4. j + k \in Nat
  OBVIOUS
<1>5. (a * (j + k)) % a = 0
  BY <1>4, Multiple
<1>6. QED
  BY <1>3, <1>5

-----------------------------------------------------------------------------
\* The inductive invariant.

\* What is committed, ptr and every mark are whole pages and whole alignment units of
\* one reservation; where nothing is mapped the caller has nothing.
Region ==
  /\ ptr % Alignment = 0
  /\ CommittedExactly
  /\ mapped => /\ reserved % PageSize = 0
               /\ Base + reserved <= UserEnd
               /\ base # "null"
  /\ ~mapped => blocks = {} /\ marks = {}
  /\ \A m \in marks : m <= ptr /\ m % Alignment = 0

\* No mark falls inside a block: arena_restore gives up whole blocks.
Placed ==
  /\ \A b \in blocks : b.at % Alignment = 0 /\ b.at + b.len <= ptr
  /\ \A b \in blocks : \A m \in marks : b.at < m => b.at + b.len <= m
  /\ \A b, c \in blocks : b # c => b.at + b.len <= c.at \/ c.at + c.len <= b.at

IndInv == TypeOK /\ Region /\ Placed /\ ContentsKept

\* What a request moves ptr by: at least its size, and not far enough to wrap around.
LEMMA AdvanceFacts ==
  ASSUME NEW n \in RequestSize
  PROVE  /\ Advance(n) \in Nat \ {0} /\ n <= Advance(n)
         /\ Advance(n) <= n + Alignment
         /\ Advance(n) % Alignment = 0
<1> DEFINE k == IF n = 0 THEN 1 ELSE n
<1>1. /\ k \in Nat \ {0} /\ n <= k /\ k <= n + 1 /\ k + Alignment - 1 < Word
      /\ k + Alignment - 1 <= n + Alignment
  BY SizeAssumption, RequestAssumption
<1>2. Alignment \in Nat \ {0}
  BY SizeAssumption
<1>3. Advance(n) = AlignUp(k, Alignment)
  BY DEF Advance
<1> HIDE DEF k
<1>4. k <= AlignUp(k, Alignment) /\ AlignUp(k, Alignment) <= k + Alignment - 1
  BY <1>1, <1>2, AlignUpFacts
<1>5. AlignUp(k, Alignment) \in 0 .. Word - 1 /\ AlignUp(k, Alignment) % Alignment = 0
  BY <1>1, <1>2, AlignUpType
<1>6. AlignUp(k, Alignment) \in Nat
  BY <1>5, SizeAssumption
<1>7. QED
  BY <1>1, <1>2, <1>3, <1>4, <1>5, <1>6, SizeAssumption

\* In a valid arena the test in arena_alloc and the end that arena_grow computes are
\* those of unbounded integers.
LEMMA EndFacts ==
  ASSUME IndInv, Valid, NEW n \in RequestSize
  PROVE  LET d == Advance(n) IN
         /\ End(d) = ptr + d
         /\ Fits(d) <=> ptr + d <= committed
         /\ ptr \in Nat /\ committed \in Nat /\ reserved \in Nat
<1> DEFINE d == Advance(n)
<1>1. d \in Nat \ {0} /\ d <= n + Alignment
  BY AdvanceFacts
<1>2. /\ ptr \in Nat /\ committed \in Nat /\ reserved \in Nat
      /\ ptr <= committed /\ committed <= reserved /\ Base + reserved <= UserEnd
  BY SizeAssumption DEF IndInv, TypeOK, Region, CommittedExactly, Valid
<1>3. Base + ptr + d < Word /\ ptr + d < Word
  BY <1>1, <1>2, SizeAssumption, RequestAssumption
<1> HIDE DEF d
<1>4. (Base + ptr + d) % Word = Base + ptr + d /\ (ptr + d) % Word = ptr + d
  BY <1>1, <1>2, <1>3, SizeAssumption
<1>5. End(d) = ptr + d /\ (Fits(d) <=> ptr + d <= committed)
  BY <1>1, <1>2, <1>4, SizeAssumption DEF End, Fits
<1>6. QED
  BY <1>2, <1>5 DEF d

\* arena_grow commits whole pages, inside the reservation, that n bytes fit in.
LEMMA GrowFacts ==
  ASSUME IndInv, Valid, NEW n \in RequestSize, Grow(Advance(n))
  PROVE  LET d == Advance(n) IN
         /\ committed' = NewCommitted(d)
         /\ committed' \in Nat /\ committed < committed'
         /\ ptr + d <= committed' /\ committed' <= reserved
         /\ committed' % PageSize = 0
         /\ rw' = Bytes(0, committed')
<1> DEFINE d == Advance(n)
           c == AlignUp(ptr + d, PageSize)
<1>1. d \in Nat \ {0} /\ d <= n + Alignment
  BY AdvanceFacts
<1>2. /\ ptr \in Nat /\ committed \in Nat /\ reserved \in Nat
      /\ ptr <= committed /\ committed <= reserved /\ Base + reserved <= UserEnd
      /\ reserved % PageSize = 0 /\ rw = Bytes(0, committed)
  BY SizeAssumption DEF IndInv, TypeOK, Region, CommittedExactly, Valid
<1>3. End(d) = ptr + d
  BY EndFacts
<1>4. /\ ptr + d <= reserved /\ NewCommitted(d) > committed
      /\ committed' = NewCommitted(d)
      /\ rw' = rw \cup Bytes(committed, committed')
  BY <1>3 DEF Grow
<1>5. NewCommitted(d) = IF c > reserved THEN reserved ELSE c
  BY <1>3 DEF NewCommitted
<1> HIDE DEF d
<1>6. ptr + d \in Nat /\ PageSize \in Nat \ {0} /\ ptr + d + PageSize - 1 < Word
  BY <1>1, <1>2, <1>4, SizeAssumption, RequestAssumption
<1>7. c \in 0 .. Word - 1 /\ c % PageSize = 0
  BY <1>6, AlignUpType
<1>8. ptr + d <= c
  BY <1>6, AlignUpFacts
<1>9. c \in Nat
  BY <1>7, SizeAssumption
<1> HIDE DEF c
<1>10. /\ committed' \in Nat /\ committed < committed' /\ committed' % PageSize = 0
       /\ ptr + d <= committed' /\ committed' <= reserved
  BY <1>1, <1>2, <1>4, <1>5, <1>7, <1>8, <1>9
<1>11. rw' = Bytes(0, committed')
  BY <1>2, <1>4, <1>10 DEF Bytes
<1>12. QED
  BY <1>4, <1>10, <1>11 DEF d

\* What arena_alloc does whichever way it takes: the block starts at the old ptr and
\* ends inside what is now committed, and no byte below ptr changes.
LEMMA AllocFacts ==
  ASSUME IndInv, NEW n \in RequestSize, NEW f \in Fill \cup {0, Any}, Alloc(n, f)
  PROVE  /\ ptr \in Nat /\ ptr' \in Nat /\ committed' \in Nat
         /\ ptr + n <= ptr' /\ ptr < ptr' /\ ptr' <= committed' /\ committed' <= reserved
         /\ ptr' % Alignment = 0
         /\ committed' % PageSize = 0
         /\ rw' = Bytes(0, committed')
         /\ mem' \in [Bytes(0, reserved) -> Fill \cup {0}]
         /\ \A i \in Bytes(0, ptr) : mem'[i] = mem[i]
         /\ f # Any => \A i \in Bytes(ptr, ptr + n) : mem'[i] = f
<1> DEFINE d == Advance(n)
<1>1. /\ d \in Nat \ {0} /\ n <= d /\ d % Alignment = 0 /\ n \in Nat
      /\ Alignment \in Nat \ {0}
  BY AdvanceFacts, SizeAssumption
<1>2. Valid /\ ptr' = End(d)
  BY DEF Alloc
<1>3. /\ ptr \in Nat /\ committed \in Nat /\ reserved \in Nat
      /\ ptr % Alignment = 0
      /\ ptr <= committed /\ committed <= reserved
      /\ rw = Bytes(0, committed) /\ committed % PageSize = 0
      /\ mem \in [Bytes(0, reserved) -> Fill \cup {0}]
  BY <1>2, SizeAssumption DEF IndInv, TypeOK, Region, CommittedExactly, Valid
<1>4. ptr' = ptr + d /\ (Fits(d) <=> ptr + d <= committed)
  BY <1>2, EndFacts
<1>5. ptr' % Alignment = 0
  BY <1>1, <1>3, <1>4, MultipleOfSum
<1>6. ASSUME NEW contents \in [Bytes(0, reserved) -> Fill \cup {0}],
             \A i \in Bytes(0, ptr) : contents[i] = mem[i],
             mem' = Written(contents, Bytes(ptr, ptr + n), f),
             ptr + d <= reserved
      PROVE  /\ mem' \in [Bytes(0, reserved) -> Fill \cup {0}]
             /\ \A i \in Bytes(0, ptr) : mem'[i] = mem[i]
             /\ f # Any => \A i \in Bytes(ptr, ptr + n) : mem'[i] = f
  <2>1. Bytes(0, ptr) \subseteq Bytes(0, reserved) \ Bytes(ptr, ptr + n)
    BY <1>1, <1>3, <1>6 DEF Bytes
  <2>2. Bytes(ptr, ptr + n) \subseteq Bytes(0, reserved)
    BY <1>1, <1>3, <1>6 DEF Bytes
  <2>3. CASE f = Any
    BY <1>6, <2>3 DEF Written
  <2>4. CASE f # Any
    <3>1. mem' = [i \in Bytes(0, reserved) |->
                    IF i \in Bytes(ptr, ptr + n) THEN f ELSE contents[i]]
      BY <1>6, <2>4 DEF Written
    <3>2. f \in Fill \cup {0}
      BY <2>4
    <3>3. QED
      BY <1>6, <2>1, <2>2, <3>1, <3>2
  <2>5. QED
    BY <2>3, <2>4
<1>7. CASE Fits(d) /\ mem' = Written(mem, Bytes(ptr, ptr + n), f)
           /\ UNCHANGED <<committed, rw>>
  <2>1. ptr + d <= reserved
    BY <1>1, <1>3, <1>4, <1>7
  <2>2. /\ mem' \in [Bytes(0, reserved) -> Fill \cup {0}]
        /\ \A i \in Bytes(0, ptr) : mem'[i] = mem[i]
        /\ f # Any => \A i \in Bytes(ptr, ptr + n) : mem'[i] = f
    BY <1>3, <1>6, <1>7, <2>1
  <2>3. QED
    BY <1>1, <1>3, <1>4, <1>5, <1>7, <2>2
<1>8. CASE Grow(d) /\ mem' = Written(Grown(d), Bytes(ptr, ptr + n), f)
  <2>1. /\ committed' = NewCommitted(d) /\ committed' \in Nat /\ committed < committed'
        /\ ptr + d <= committed' /\ committed' <= reserved
        /\ committed' % PageSize = 0 /\ rw' = Bytes(0, committed')
    BY <1>2, <1>8, GrowFacts
  <2>2. ptr + d <= reserved
    BY <1>1, <1>3, <2>1
  <2>3. Grown(d) = [i \in Bytes(0, reserved) |->
                      IF i \in Bytes(committed, committed') THEN 0 ELSE mem[i]]
    BY <1>3, <2>1 DEF Grown
  <2>4. Bytes(0, ptr) \subseteq Bytes(0, reserved) \ Bytes(committed, committed')
    BY <1>3, <2>1 DEF Bytes
  <2>5. Grown(d) \in [Bytes(0, reserved) -> Fill \cup {0}]
    BY <1>3, <2>3
  <2>6. \A i \in Bytes(0, ptr) : Grown(d)[i] = mem[i]
    BY <2>3, <2>4
  <2>7. /\ mem' \in [Bytes(0, reserved) -> Fill \cup {0}]
        /\ \A i \in Bytes(0, ptr) : mem'[i] = mem[i]
        /\ f # Any => \A i \in Bytes(ptr, ptr + n) : mem'[i] = f
    BY <1>6, <1>8, <2>2, <2>5, <2>6
  <2>8. QED
    BY <1>1, <1>3, <1>4, <1>5, <2>1, <2>7
<1>9. QED
  BY <1>7, <1>8 DEF Alloc

\* arena_alloc, arena_alloc_zero and arena_strdup: the new block is above every block and mark.
LEMMA AllocPreserves ==
  ASSUME IndInv, NEW n \in RequestSize, NEW f \in Fill \cup {0, Any}, Alloc(n, f)
  PROVE  IndInv'
<1> DEFINE b0 == [at |-> ptr, len |-> n, fill |-> f]
<1>1. /\ Valid
      /\ blocks' = blocks \cup {b0}
      /\ UNCHANGED <<base, reserved, owned, mapped, marks>>
  BY DEF Alloc
<1>2. /\ ptr \in Nat /\ ptr' \in Nat /\ committed' \in Nat
      /\ ptr + n <= ptr' /\ ptr < ptr' /\ ptr' <= committed' /\ committed' <= reserved
      /\ ptr' % Alignment = 0
      /\ committed' % PageSize = 0
      /\ rw' = Bytes(0, committed')
      /\ mem' \in [Bytes(0, reserved) -> Fill \cup {0}]
      /\ \A i \in Bytes(0, ptr) : mem'[i] = mem[i]
      /\ f # Any => \A i \in Bytes(ptr, ptr + n) : mem'[i] = f
  BY AllocFacts
<1>3. /\ mapped /\ TypeOK /\ Region /\ Placed /\ ContentsKept
      /\ reserved \in 0 .. Word - 1 /\ n \in Nat /\ ptr % Alignment = 0
      /\ blocks \subseteq [at : Nat, len : RequestSize, fill : Fill \cup {0, Any}]
      /\ marks \subseteq Nat /\ \A m \in marks : m <= ptr
      /\ RequestSize \subseteq Nat
  BY <1>1, SizeAssumption DEF IndInv, Valid, TypeOK, Region
<1>4. b0 \in [at : Nat, len : RequestSize, fill : Fill \cup {0, Any}]
  BY <1>2
<1>5. TypeOK'
  <2>1. ptr' \in 0 .. Word - 1 /\ committed' \in 0 .. Word - 1
    BY <1>2, <1>3, SizeAssumption
  <2>2. rw' \subseteq Bytes(0, reserved)
    <3>1. reserved \in Nat
      BY <1>3, SizeAssumption
    <3>2. committed' \in Nat /\ committed' <= reserved /\ rw' = Bytes(0, committed')
      BY <1>2
    <3>3. Bytes(0, committed') \subseteq Bytes(0, reserved)
      BY <3>1, <3>2, BytesMonotone
    <3>4. QED
      BY <3>2, <3>3
  <2>3. blocks' \subseteq [at : Nat, len : RequestSize, fill : Fill \cup {0, Any}]
    BY <1>1, <1>3, <1>4
  <2>4. DOMAIN mem' = Bytes(0, reserved)
    BY <1>2
  <2>5. QED
    BY <1>1, <1>2, <1>3, <2>1, <2>2, <2>3, <2>4 DEF TypeOK
<1>6. Region'
  BY <1>1, <1>2, <1>3 DEF Region, CommittedExactly
<1>7. Placed'
  <2>1. \A b \in blocks : /\ b.at \in Nat /\ b.len \in Nat /\ b.at % Alignment = 0
                          /\ b.at + b.len <= ptr
    BY <1>3 DEF Placed
  <2>2. \A b \in blocks' : b.at % Alignment = 0 /\ b.at + b.len <= ptr'
    BY <1>1, <1>2, <1>3, <2>1
  <2>3. \A b \in blocks' : \A m \in marks' : b.at < m => b.at + b.len <= m
    <3>1. \A m \in marks : ~(b0.at < m)
      BY <1>2, <1>3
    <3>2. QED
      BY <1>1, <1>3, <3>1 DEF Placed
  <2>4. \A b, c \in blocks' : b # c => b.at + b.len <= c.at \/ c.at + c.len <= b.at
    BY <1>1, <1>2, <1>3, <2>1 DEF Placed
  <2>5. QED
    BY <2>2, <2>3, <2>4 DEF Placed
<1>8. ContentsKept'
  <2>1. ASSUME NEW b \in blocks', b.fill # Any, NEW i \in Span(b)
        PROVE  mem'[i] = b.fill
    <3>1. CASE b \in blocks
      <4>1. b.at \in Nat /\ b.len \in Nat /\ b.at + b.len <= ptr
        BY <1>3, <3>1 DEF Placed
      <4>2. i \in Bytes(0, ptr)
        BY <1>2, <2>1, <4>1 DEF Span, Bytes
      <4>3. mem[i] = b.fill
        BY <1>3, <2>1, <3>1 DEF ContentsKept
      <4>4. QED
        BY <1>2, <4>2, <4>3
    <3>2. CASE b = b0
      BY <1>2, <2>1, <3>2 DEF Span
    <3>3. QED
      BY <1>1, <3>1, <3>2
  <2>2. QED
    BY <2>1 DEF ContentsKept, Span
<1>9. QED
  BY <1>5, <1>6, <1>7, <1>8 DEF IndInv

\* A caller writes its own block, which shares no byte with another.
LEMMA WritePreserves ==
  ASSUME IndInv, NEW b \in blocks, NEW f \in Fill, Write(b, f)
  PROVE  IndInv'
<1> DEFINE w == [b EXCEPT !.fill = f]
<1>1. /\ mem' = Written(mem, Bytes(b.at, b.at + b.len), f)
      /\ blocks' = (blocks \ {b}) \cup {w}
      /\ mapped
      /\ UNCHANGED <<arena, rw, mapped, marks>>
  BY DEF Write, Valid
<1>2. /\ TypeOK /\ Region /\ Placed /\ ContentsKept
      /\ blocks \subseteq [at : Nat, len : RequestSize, fill : Fill \cup {0, Any}]
      /\ mem \in [Bytes(0, reserved) -> Fill \cup {0}]
      /\ RequestSize \subseteq Nat
  BY <1>1, SizeAssumption DEF IndInv, TypeOK
<1>3. /\ w \in [at : Nat, len : RequestSize, fill : Fill \cup {0, Any}]
      /\ w.at = b.at /\ w.len = b.len /\ w.fill = f
  BY <1>2
<1>4. f # Any
  BY SizeAssumption
<1>5. mem' = [i \in Bytes(0, reserved) |->
                IF i \in Bytes(b.at, b.at + b.len) THEN f ELSE mem[i]]
  BY <1>1, <1>2, <1>4 DEF Written
<1>6. mem' \in [Bytes(0, reserved) -> Fill \cup {0}]
  BY <1>2, <1>5
<1>7. TypeOK'
  <2>1. DOMAIN mem' = DOMAIN mem
    BY <1>2, <1>6
  <2>2. blocks' \subseteq [at : Nat, len : RequestSize, fill : Fill \cup {0, Any}]
    BY <1>1, <1>2, <1>3
  <2>3. QED
    BY <1>1, <1>2, <1>6, <2>1, <2>2 DEF TypeOK, arena
<1>8. Region'
  BY <1>1, <1>2 DEF Region, CommittedExactly, arena
<1>9. Placed'
  BY <1>1, <1>2, <1>3 DEF Placed, arena
<1>10. ContentsKept'
  <2>1. ASSUME NEW c \in blocks', c.fill # Any, NEW i \in Span(c)
        PROVE  mem'[i] = c.fill
    <3>1. CASE c = w
      <4>1. i \in Bytes(b.at, b.at + b.len)
        BY <1>3, <2>1, <3>1 DEF Span
      <4>2. b.at \in Nat /\ b.len \in Nat /\ b.at + b.len <= reserved
        BY <1>1, <1>2, SizeAssumption DEF Placed, Region, CommittedExactly, TypeOK
      <4>3. i \in Bytes(0, reserved)
        BY <1>2, <4>1, <4>2, SizeAssumption DEF Bytes, TypeOK
      <4>4. QED
        BY <1>3, <1>5, <3>1, <4>1, <4>3
    <3>2. CASE c \in blocks \ {b}
      <4>1. /\ b.at \in Nat /\ b.len \in Nat /\ c.at \in Nat /\ c.len \in Nat
            /\ b.at + b.len <= c.at \/ c.at + c.len <= b.at
        BY <1>2, <3>2 DEF Placed
      <4>2. i \notin Bytes(b.at, b.at + b.len)
        BY <2>1, <4>1 DEF Span, Bytes
      <4>3. c.at + c.len <= reserved /\ reserved \in Nat
        BY <1>1, <1>2, <3>2, <4>1, SizeAssumption
        DEF Placed, Region, CommittedExactly, TypeOK
      <4>4. i \in Bytes(0, reserved)
        BY <2>1, <4>1, <4>3 DEF Span, Bytes
      <4>5. mem[i] = c.fill
        BY <1>2, <2>1, <3>2 DEF ContentsKept
      <4>6. QED
        BY <1>5, <4>2, <4>4, <4>5
    <3>3. QED
      BY <1>1, <3>1, <3>2
  <2>2. QED
    BY <2>1 DEF ContentsKept, Span
<1>11. QED
  BY <1>7, <1>8, <1>9, <1>10 DEF IndInv

\* Where the caller has nothing, only types and the region are left to show.
LEMMA NoBlocksPreserves ==
  ASSUME TypeOK', Region', blocks' = {}
  PROVE  IndInv'
  BY DEF IndInv, Placed, ContentsKept

\* arena_destroy and an arena_init_size that fails leave nothing mapped.
LEMMA UnmappedPreserves ==
  ASSUME IndInv, Unmapped, base' \in {"null", "failed", "region"}, ptr' = 0,
         committed' = 0, reserved' \in 0 .. Word - 1, owned' \in BOOLEAN
  PROVE  IndInv'
<1>1. Alignment \in Nat \ {0} /\ Word \in Nat \ {0} /\ RequestSize \subseteq Nat
  BY SizeAssumption
<1>2. ptr' \in 0 .. Word - 1 /\ committed' \in 0 .. Word - 1 /\ ptr' % Alignment = 0
  BY <1>1
<1>3. Bytes(0, 0) = {}
  BY DEF Bytes
<1>4. mem' \in [Bytes(0, 0) -> Fill \cup {0}] /\ rw' = {} /\ mapped' = FALSE
      /\ blocks' = {} /\ marks' = {}
  BY <1>3 DEF Unmapped
<1>5. TypeOK'
  BY <1>1, <1>2, <1>4 DEF TypeOK
<1>6. Region'
  BY <1>2, <1>4 DEF Region, CommittedExactly
<1>7. QED
  BY <1>4, <1>5, <1>6, NoBlocksPreserves

\* arena_init_size: the reservation and what is committed of it are whole pages.
LEMMA InitSizePreserves ==
  ASSUME IndInv, NEW v \in VirtualSize, NEW c \in InitialCommit, InitSize(v, c)
  PROVE  IndInv'
<1> DEFINE sz == AlignUp(v, PageSize)
           commit == AlignUp(c, PageSize)
<1>1. /\ v \in Nat /\ c \in Nat /\ PageSize \in Nat \ {0} /\ Word \in Nat
      /\ Alignment \in Nat \ {0}
  BY SizeAssumption
<1>2. /\ sz \in 0 .. Word - 1 /\ sz % PageSize = 0
      /\ commit \in 0 .. Word - 1 /\ commit % PageSize = 0
  BY <1>1, AlignUpType
<1>3. /\ base' = "region" /\ ptr' = 0 /\ owned' = TRUE /\ reserved' = sz
      /\ committed' = (IF commit > sz THEN sz ELSE commit)
      /\ rw' = Bytes(0, committed') /\ mem' = [i \in Bytes(0, sz) |-> 0]
      /\ mapped' = TRUE /\ blocks' = {} /\ marks' = {}
      /\ Base + sz <= UserEnd
  BY DEF InitSize, InitialCommitted
<1> HIDE DEF sz, commit
<1>4. /\ committed' \in 0 .. Word - 1 /\ committed' <= sz /\ committed' % PageSize = 0
      /\ sz \in Nat /\ committed' \in Nat
  BY <1>1, <1>2, <1>3
<1>5. rw' \subseteq DOMAIN mem'
  BY <1>3, <1>4 DEF Bytes
<1>6. ptr' \in 0 .. Word - 1 /\ ptr' % Alignment = 0
  BY <1>1, <1>2, <1>3
<1>7. TypeOK'
  BY <1>2, <1>3, <1>4, <1>5, <1>6 DEF TypeOK
<1>8. Region'
  BY <1>2, <1>3, <1>4, <1>6 DEF Region, CommittedExactly
<1>9. QED
  BY <1>3, <1>7, <1>8, NoBlocksPreserves

\* Every operation keeps the inductive invariant.
LEMMA StepPreserves ==
  ASSUME IndInv, [Next]_vars
  PROVE  IndInv'
<1> USE SizeAssumption
<1>1. TypeOK /\ Region /\ Placed /\ ContentsKept
  BY DEF IndInv
<1>2. ASSUME NEW v \in VirtualSize, NEW c \in InitialCommit, CommitFails(v, c)
      PROVE  IndInv'
  <2>1. AlignUp(v, PageSize) \in 0 .. Word - 1
    BY AlignUpType
  <2>2. QED
    BY <1>2, <2>1, UnmappedPreserves DEF CommitFails
<1>3. CASE ReserveFails
  BY <1>1, <1>3 DEF ReserveFails, IndInv, TypeOK, Region, Placed, ContentsKept,
                    CommittedExactly, Span, kernel, caller
<1>4. ASSUME NEW n \in RequestSize, AllocFails(n)
      PROVE  IndInv'
  BY <1>1, <1>4 DEF AllocFails, vars, arena, kernel, caller, IndInv, TypeOK, Region,
                    Placed, ContentsKept, CommittedExactly, Span
<1>5. CASE Reset
  <2>1. /\ ptr' = 0 /\ blocks' = {} /\ marks' = {} /\ mapped
        /\ mem' = [i \in DOMAIN mem |->
                     IF i < AlignUp(ptr, PageSize) THEN 0 ELSE mem[i]]
        /\ UNCHANGED <<base, committed, reserved, owned, rw, mapped>>
    BY <1>5 DEF Reset, Valid
  <2>2. mem \in [Bytes(0, reserved) -> Fill \cup {0}] /\ rw \subseteq DOMAIN mem
    BY <1>1, <2>1 DEF TypeOK
  <2>3. mem' \in [Bytes(0, reserved) -> Fill \cup {0}] /\ DOMAIN mem' = DOMAIN mem
    BY <2>1, <2>2
  <2>4. ptr' \in 0 .. Word - 1 /\ ptr' % Alignment = 0
    BY <2>1
  <2>5. TypeOK'
    BY <1>1, <2>1, <2>2, <2>3, <2>4 DEF TypeOK
  <2>6. committed \in Nat
    BY <1>1 DEF TypeOK
  <2>7. Region'
    BY <1>1, <2>1, <2>4, <2>6 DEF Region, CommittedExactly
  <2>8. QED
    BY <2>1, <2>5, <2>7, NoBlocksPreserves
<1>6. CASE Save
  <2>1. /\ marks' = marks \cup {ptr} /\ mapped
        /\ UNCHANGED <<arena, kernel, blocks>>
    BY <1>6 DEF Save, Valid
  <2>2. ptr \in Nat
    BY <1>1 DEF TypeOK
  <2>3. TypeOK'
    BY <1>1, <2>1, <2>2 DEF TypeOK, arena, kernel
  <2>4. Region'
    BY <1>1, <2>1, <2>2 DEF Region, CommittedExactly, arena, kernel
  <2>5. Placed'
    BY <1>1, <2>1 DEF Placed, arena
  <2>6. ContentsKept'
    BY <1>1, <2>1 DEF ContentsKept, Span, kernel
  <2>7. QED
    BY <2>3, <2>4, <2>5, <2>6 DEF IndInv
<1>7. ASSUME NEW m \in marks, Restore(m)
      PROVE  IndInv'
  <2>1. /\ ptr' = m /\ mapped
        /\ blocks' = {b \in blocks : b.at < m}
        /\ marks' = {k \in marks : k <= m}
        /\ UNCHANGED <<base, committed, reserved, owned, kernel>>
    BY <1>7 DEF Restore, Valid
  <2>2. /\ m \in Nat /\ m <= ptr /\ m % Alignment = 0 /\ ptr \in 0 .. Word - 1
        /\ ptr <= committed /\ committed \in Nat
    BY <1>1, <2>1 DEF TypeOK, Region, CommittedExactly
  <2>3. TypeOK'
    <3>1. blocks' \subseteq blocks /\ marks' \subseteq marks
      BY <2>1
    <3>2. ptr' \in 0 .. Word - 1
      BY <2>1, <2>2
    <3>3. QED
      BY <1>1, <2>1, <3>1, <3>2 DEF TypeOK, kernel
  <2>4. Region'
    BY <1>1, <2>1, <2>2 DEF Region, CommittedExactly, kernel
  <2>5. Placed'
    BY <1>1, <2>1 DEF Placed
  <2>6. ContentsKept'
    BY <1>1, <2>1 DEF ContentsKept, Span, kernel
  <2>7. QED
    BY <2>3, <2>4, <2>5, <2>6 DEF IndInv
<1>8. CASE UNCHANGED vars
  BY <1>1, <1>8 DEF vars, arena, kernel, caller, IndInv, TypeOK, Region, Placed,
                    ContentsKept, CommittedExactly, Span
<1>9. CASE Destroy
  <2>1. CASE owned /\ base # "null"
    BY <1>1, <1>9, <2>1, UnmappedPreserves DEF Destroy, TypeOK
  <2>2. CASE ~(owned /\ base # "null")
    BY <1>8, <1>9, <2>2 DEF Destroy
  <2>3. QED
    BY <2>1, <2>2
<1>10. QED
  BY <1>2, <1>3, <1>4, <1>5, <1>6, <1>7, <1>8, <1>9,
     AllocPreserves, WritePreserves, InitSizePreserves DEF Next

\* The zeroed Arena satisfies it.
LEMMA InitHolds == Init => IndInv
<1>1. Bytes(0, 0) = {}
  BY DEF Bytes
<1>2. 0 \in 0 .. Word - 1 /\ 0 % Alignment = 0
  BY SizeAssumption
<1>3. QED
  BY <1>1, <1>2, SizeAssumption
  DEF Init, IndInv, TypeOK, Region, Placed, ContentsKept, CommittedExactly

\* So it holds in every state.
LEMMA Invariance == Spec => []IndInv
  BY InitHolds, StepPreserves, PTL DEF Spec

\* Types and regions: whatever the sizes, arena_alloc's pointer stays inside what is
\* accessible, and "committed" never says more or less than the kernel.
THEOREM CommitExact == Spec => [](TypeOK /\ CommittedExactly)
<1>1. IndInv => TypeOK /\ CommittedExactly
  BY DEF IndInv, Region
<1>2. QED
  BY <1>1, Invariance, PTL

\* Every variable of the arena has its type: no operation leaves the region's bounds.
THEOREM TypeCorrect == Spec => []TypeOK
BY CommitExact, PTL

\* Every block that arena_alloc gave out and nothing gave up is aligned, accessible,
\* below ptr, and apart from every other.
THEOREM BlocksSound == Spec => [](BlocksUsable /\ BlocksDisjoint)
<1>1. ASSUME IndInv, NEW b \in blocks
      PROVE  b.at % Alignment = 0 /\ Span(b) \subseteq rw /\ b.at + b.len <= ptr
  <2>1. /\ b.at \in Nat /\ b.len \in Nat /\ b.at % Alignment = 0
        /\ b.at + b.len <= ptr
    BY <1>1, SizeAssumption DEF IndInv, TypeOK, Placed
  <2>2. mapped
    BY <1>1 DEF IndInv, Region
  <2>3. /\ ptr \in Nat /\ committed \in Nat /\ ptr <= committed
        /\ rw = Bytes(0, committed)
    BY <1>1, <2>2, SizeAssumption DEF IndInv, TypeOK, Region, CommittedExactly
  <2>4. QED
    BY <2>1, <2>3 DEF Span, Bytes
<1>2. ASSUME IndInv, NEW b \in blocks, NEW c \in blocks, b # c
      PROVE  Span(b) \cap Span(c) = {}
  <2>1. /\ b.at \in Nat /\ b.len \in Nat /\ c.at \in Nat /\ c.len \in Nat
        /\ b.at + b.len <= c.at \/ c.at + c.len <= b.at
    BY <1>2, SizeAssumption DEF IndInv, TypeOK, Placed
  <2>2. QED
    BY <2>1 DEF Span, Bytes
<1>3. IndInv => BlocksUsable /\ BlocksDisjoint
  BY <1>1, <1>2 DEF BlocksUsable, BlocksDisjoint
<1>4. QED
  BY <1>3, Invariance, PTL

\* Every block is aligned and accessible as long as the caller may use it.
THEOREM BlocksStayUsable == Spec => []BlocksUsable
BY BlocksSound, PTL

\* No grow, restore, reset or write to another block changes what a block holds.
THEOREM ContentsStay == Spec => []ContentsKept
<1>1. IndInv => ContentsKept
  BY DEF IndInv
<1>2. QED
  BY <1>1, Invariance, PTL
=============================================================================
