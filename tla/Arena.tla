-------------------------------- MODULE Arena --------------------------------
(***************************************************************************)
(* The bump allocator of src/arena.c over the kernel's virtual memory.     *)
(* Positions are offsets from a->base; sizes are size_t and wrap at Word.  *)
(* The kernel (mmap, munmap, madvise) is external.  "blocks" and "marks"   *)
(* are not in the program: what the caller may still use.                  *)
(***************************************************************************)
EXTENDS Integers, FiniteSets

CONSTANTS
  Alignment,     \* ALIGNMENT
  PageSize,      \* page_size()
  Word,          \* SIZE_MAX + 1
  Base,          \* the address that the kernel chose for the reservation
  UserEnd,       \* where the addresses that the kernel gives to a process end
  VirtualSize,   \* sizes asked of arena_init_size: reservations ...
  InitialCommit, \* ... and initial commits
  RequestSize,   \* sizes asked of arena_alloc, arena_alloc_zero and arena_strdup
  Fill,          \* what callers write; 0 is what fresh pages hold
  Any            \* a block that its caller has not written yet

ASSUME SizeAssumption ==
  /\ Alignment \in Nat \ {0} /\ PageSize \in Nat \ {0} /\ Word \in Nat \ {0}
  /\ Base \in Nat /\ UserEnd \in Nat
  /\ VirtualSize \subseteq 0 .. Word - 1 /\ InitialCommit \subseteq 0 .. Word - 1
  /\ RequestSize \subseteq Nat
  /\ 0 \notin Fill /\ Any \notin Fill \cup {0}

\* A precondition of arena_alloc, which does not look for overflow: a request is no
\* larger than the kernel's part of the address space.
ASSUME RequestAssumption ==
  \A n \in RequestSize : UserEnd + n + Alignment + PageSize < Word

VARIABLES
  base,                                \* "null", "failed" (MAP_FAILED) or "region"
  ptr, committed, reserved, owned,     \* the rest of Arena
  rw, mem,      \* kernel: the bytes at base that are accessible, and what they hold
  mapped,       \* kernel: is the reservation at base mapped?
  blocks,       \* [at, len, fill]: allocated and neither reset nor restored away
  marks         \* saved and not passed by a reset or a restore

arena == <<base, ptr, committed, reserved, owned>>
kernel == <<rw, mem, mapped>>
caller == <<blocks, marks>>
vars == <<arena, kernel, caller>>

-----------------------------------------------------------------------------
\* Arithmetic on size_t.

\* align_up for a power of two a.
AlignUp(n, a) == LET x == (n + a - 1) % Word IN x - (x % a)

\* Variant (a plausible bug): rounds down.
AdvanceRoundedDown(size) ==
  LET n == IF size = 0 THEN 1 ELSE size IN n - (n % Alignment)

\* Bytes that arena_alloc(size) moves ptr by, and where that ends.
Advance(size) == AlignUp(IF size = 0 THEN 1 ELSE size, Alignment)

End(n) == (ptr + n) % Word

\* Variant: only the first byte is compared.
FitsAtStart(n) == (Base + ptr) % Word < Base + committed

\* a->ptr + n <= a->base + a->committed, on addresses.
Fits(n) == (Base + ptr + n) % Word <= Base + committed

\* Variant: an initial commit larger than the reservation is not cut.
InitialCommittedUncut(commit, size) == commit

InitialCommitted(commit, size) == IF commit > size THEN size ELSE commit

\* Variant: arena_grow commits what is needed, not a whole number of pages.
NewCommittedUnaligned(n) == IF End(n) > reserved THEN reserved ELSE End(n)

\* What arena_grow commits so that n bytes fit.
NewCommitted(n) ==
  LET c == AlignUp(End(n), PageSize) IN IF c > reserved THEN reserved ELSE c

Bytes(from, to) == from .. to - 1

\* Contents after the caller writes f into bytes; an unwritten block keeps what it has.
Written(contents, bytes, f) ==
  IF f = Any THEN contents
             ELSE [i \in DOMAIN contents |-> IF i \in bytes THEN f ELSE contents[i]]

Valid == base = "region" /\ mapped

\* Nothing is mapped at base, and the caller has nothing there.
Unmapped ==
  /\ rw' = {} /\ mem' = [i \in {} |-> 0] /\ mapped' = FALSE
  /\ blocks' = {} /\ marks' = {}

-----------------------------------------------------------------------------
\* A zeroed Arena, as libwl_create makes it.
Init ==
  /\ base = "null" /\ ptr = 0 /\ committed = 0 /\ reserved = 0 /\ owned = FALSE
  /\ rw = {} /\ mem = [i \in {} |-> 0] /\ mapped = FALSE
  /\ blocks = {} /\ marks = {}

\* arena_init_size that succeeds: mmap gives fresh pages and refuses a length of 0.
\* On an arena in use (libwl.h tells the user to) the old reservation stays mapped
\* and unnamed; the model follows the new one.
InitSize(virtual, initial) ==
  LET size == AlignUp(virtual, PageSize)
      commit == AlignUp(initial, PageSize)
  IN  /\ size # 0 /\ Base + size <= UserEnd
      /\ base' = "region" /\ ptr' = 0 /\ owned' = TRUE
      /\ reserved' = size
      /\ committed' = InitialCommitted(commit, size)
      /\ rw' = Bytes(0, committed')
      /\ mem' = [i \in Bytes(0, size) |-> 0]
      /\ mapped' = TRUE
      /\ blocks' = {} /\ marks' = {}

\* arena_init_size when the reservation is refused: only a->base is assigned.
ReserveFails ==
  /\ base' = "failed"
  /\ UNCHANGED <<ptr, committed, reserved, owned, kernel, caller>>

\* arena_init_size when the initial commit is refused: unmapped, base left as it was.
CommitFails(virtual, initial) ==
  LET size == AlignUp(virtual, PageSize)
  IN  /\ size # 0 /\ AlignUp(initial, PageSize) # 0
      /\ base' = "region" /\ ptr' = 0 /\ owned' = TRUE
      /\ reserved' = size /\ committed' = 0
      /\ Unmapped

\* arena_grow: maps fresh pages after those committed.  A length that wrapped around
\* is more than the kernel has.
Grow(n) ==
  /\ End(n) <= reserved /\ NewCommitted(n) > committed
  /\ committed' = NewCommitted(n)
  /\ rw' = rw \cup Bytes(committed, committed')

\* Variant: arena_grow maps from a->base, over the pages in use.
GrownFromBase(n) == [i \in DOMAIN mem |-> IF i < NewCommitted(n) THEN 0 ELSE mem[i]]

\* Contents that arena_grow leaves.
Grown(n) ==
  [i \in DOMAIN mem |-> IF i \in Bytes(committed, NewCommitted(n)) THEN 0 ELSE mem[i]]

\* arena_alloc for "size" bytes that are then filled with f: by the caller of
\* arena_alloc (Any: later), by arena_alloc_zero (0) or by arena_strdup.
Alloc(size, f) ==
  /\ Valid
  /\ \/ /\ Fits(Advance(size))
        /\ mem' = Written(mem, Bytes(ptr, ptr + size), f)
        /\ UNCHANGED <<committed, rw>>
     \/ /\ ~Fits(Advance(size))
        /\ Grow(Advance(size))
        /\ mem' = Written(Grown(Advance(size)), Bytes(ptr, ptr + size), f)
  /\ ptr' = End(Advance(size))
  /\ blocks' = blocks \cup {[at |-> ptr, len |-> size, fill |-> f]}
  /\ UNCHANGED <<base, reserved, owned, mapped, marks>>

\* arena_alloc returns null: no room, or mmap is refused.  Nothing has changed.
AllocFails(size) ==
  /\ Valid
  /\ ~Fits(Advance(size))
  /\ UNCHANGED vars

\* The caller writes its block.
Write(b, f) ==
  /\ Valid
  /\ b \in blocks
  /\ mem' = Written(mem, Bytes(b.at, b.at + b.len), f)
  /\ blocks' = (blocks \ {b}) \cup {[b EXCEPT !.fill = f]}
  /\ UNCHANGED <<arena, rw, mapped, marks>>

\* arena_reset: MADV_DONTNEED zero-fills the pages up to ptr.
Reset ==
  /\ Valid
  /\ mem' = [i \in DOMAIN mem |-> IF i < AlignUp(ptr, PageSize) THEN 0 ELSE mem[i]]
  /\ ptr' = 0
  /\ blocks' = {} /\ marks' = {}
  /\ UNCHANGED <<base, committed, reserved, owned, rw, mapped>>

Save ==
  /\ Valid
  /\ marks' = marks \cup {ptr}
  /\ UNCHANGED <<arena, kernel, blocks>>

\* arena_restore to a mark that is still good: what was allocated since is given up.
Restore(m) ==
  /\ Valid
  /\ m \in marks
  /\ ptr' = m
  /\ blocks' = {b \in blocks : b.at < m}
  /\ marks' = {k \in marks : k <= m}
  /\ UNCHANGED <<base, committed, reserved, owned, kernel>>

\* arena_destroy; harmless on an arena that was never initialised or is destroyed.
Destroy ==
  /\ base # "failed" /\ (base = "region" => mapped)
  /\ IF owned /\ base # "null"
     THEN /\ base' = "null" /\ ptr' = 0 /\ committed' = 0 /\ reserved' = 0
          /\ Unmapped
          /\ UNCHANGED owned
     ELSE UNCHANGED vars

Next ==
  \/ \E v \in VirtualSize, c \in InitialCommit : InitSize(v, c) \/ CommitFails(v, c)
  \/ ReserveFails
  \/ \E n \in RequestSize, f \in Fill \cup {0, Any} : Alloc(n, f)
  \/ \E n \in RequestSize : AllocFails(n)
  \/ \E b \in blocks, f \in Fill : Write(b, f)
  \/ Reset \/ Save \/ Destroy
  \/ \E m \in marks : Restore(m)

Spec == Init /\ [][Next]_vars

-----------------------------------------------------------------------------
\* Types, and what the kernel keeps: a byte that is accessible is reserved.
TypeOK ==
  /\ base \in {"null", "failed", "region"}
  /\ {ptr, committed, reserved} \subseteq 0 .. Word - 1
  /\ {owned, mapped} \subseteq BOOLEAN
  /\ mem \in [Bytes(0, IF mapped THEN reserved ELSE 0) -> Fill \cup {0}]
  /\ rw \subseteq DOMAIN mem
  /\ blocks \subseteq [at : Nat, len : RequestSize, fill : Fill \cup {0, Any}]
  /\ marks \subseteq Nat

Span(b) == Bytes(b.at, b.at + b.len)

\* What is accessible is exactly what "committed" says, in whole pages, and ptr stays
\* inside it: the test in arena_alloc looks at nothing else.
CommittedExactly ==
  mapped => /\ ptr <= committed /\ committed <= reserved
            /\ rw = Bytes(0, committed)
            /\ committed % PageSize = 0

\* Every block the caller may use is aligned, accessible and below ptr, over grows,
\* restores and resets.
BlocksUsable ==
  \A b \in blocks : /\ b.at % Alignment = 0
                    /\ Span(b) \subseteq rw
                    /\ b.at + b.len <= ptr

\* Two blocks the caller may use never overlap, although restore gives the same bytes
\* out again.
BlocksDisjoint ==
  \A b, c \in blocks : b # c => Span(b) \cap Span(c) = {}

\* What a caller has written, and what alloc_zero and strdup have, stays: growing
\* never moves or remaps a block, and no other block's write reaches it.
ContentsKept ==
  \A b \in blocks : b.fill # Any => \A i \in Span(b) : mem[i] = b.fill

\* libwl.h: after arena_reset "the next access gets zero-fill", whatever was allocated
\* since the last reset.
ResetZeroes == [][Reset => \A i \in rw' : mem'[i] = 0]_vars
=============================================================================
