-------------------------------- MODULE Heap --------------------------------
(***************************************************************************)
(* gplib/mm/src/gplib_mm_gplus.c: the heap in SDRAM, a list of blocks in   *)
(* the order of their addresses.  A block is a header of two words, with   *)
(* the address of the next header and of the block's last word, followed   *)
(* by its data; what lies between two blocks is free.  Addresses and sizes *)
(* are in words of four bytes.                                             *)
(*                                                                         *)
(* The search for room and the change of the list are done under           *)
(* OSSchedLock, so each call is one action.  The pools of blocks of fixed  *)
(* sizes have no entries in this build (gplib_cfg.h), and only MPEG4       *)
(* encoding, which is left out too, takes memory from the internal RAM.    *)
(***************************************************************************)
EXTENDS Integers

CONSTANTS
  HeapStart,      \* free_sdram_start: the header of an empty first block
  HeapEnd         \* free_sdram_end: past the header that ends the list

ASSUME HeapAssumption ==
  HeapStart \in Nat \ {0} /\ HeapEnd \in Nat /\ HeapStart + 4 <= HeapEnd

VARIABLE blocks   \* the list without its last header

NULL == 0
LastHead == HeapEnd - 2

\* gp_mm_init
HeapInit == blocks = {[head |-> HeapStart, end |-> HeapStart + 1]}
-----------------------------------------------------------------------------
\* Mutant: align - 1 is not added before the mask.
AlignDown(a, align) == a - (a % align)

\* The next multiple of the alignment.
AlignUp(a, align) == a + ((align - (a % align)) % align)

\* Where the data of a new block after b would begin.
Data(b, align) == AlignUp(b.end + 3, align)

Entries == {b.head : b \in blocks} \cup {LastHead}

\* Room before the next header, which is the least of the higher ones.
HasRoom(b, size, align, spare) ==
  \A h \in Entries : h > b.head => Data(b, align) + size + spare <= h

\* The first block of the list with room behind it.
FirstFit(size, align, spare) ==
  {b \in blocks : /\ HasRoom(b, size, align, spare)
                  /\ \A c \in blocks : HasRoom(c, size, align, spare) => b.head <= c.head}

\* A call that returns p.
Allocate(size, align, spare, p) ==
  \/ /\ FirstFit(size, align, spare) = {}
     /\ p = NULL
     /\ UNCHANGED blocks
  \/ \E b \in FirstFit(size, align, spare) :
       /\ p = Data(b, align)
       /\ blocks' = blocks \cup {[head |-> p - 2, end |-> p + size - 1]}

gp_malloc(size, p) == Allocate(size, 1, 0, p)

\* It asks for one word more than it uses.
gp_malloc_align(size, align, p) == Allocate(size, align, 1, p)

\* The blocks that remain; a pointer that is not found changes nothing.
Freed(p) == {b \in blocks : b.head = HeapStart \/ b.head + 2 # p}

gp_free(p) == blocks' = Freed(p)

HeapNext ==
  \/ \E size, align \in Nat \ {0}, p \in Nat :
       gp_malloc(size, p) \/ gp_malloc_align(size, align, p)
  \/ \E p \in Nat : gp_free(p)

HeapSpec == HeapInit /\ [][HeapNext]_blocks
-----------------------------------------------------------------------------
(* No two blocks share a word, and none reaches the header that ends the   *)
(* list: whoever writes to the memory it was given disturbs nobody.        *)
BlocksApart ==
  /\ \A b \in blocks :
       /\ HeapStart <= b.head
       /\ b.head < b.end
       /\ b.end < LastHead
  /\ \A b, c \in blocks : b.head < c.head => b.end < c.head
  /\ \A b, c \in blocks : b.head = c.head => b = c
=============================================================================
