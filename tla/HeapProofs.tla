----------------------------- MODULE HeapProofs -----------------------------
(***************************************************************************)
(* The heap's blocks lie apart, for every heap, every size and every       *)
(* alignment.  BlocksApart is inductive with the type of the list.         *)
(***************************************************************************)
EXTENDS Heap, TLAPS

BlocksOK == blocks \subseteq [head : Nat, end : Nat]

HeapInv == BlocksOK /\ BlocksApart
-----------------------------------------------------------------------------
(* Rounding up does not go below, and rounds to a natural number.          *)
LEMMA AlignUpAbove ==
  ASSUME NEW a \in Nat, NEW align \in Nat \ {0}
  PROVE  AlignUp(a, align) \in Nat /\ a <= AlignUp(a, align)
<1>1. a % align \in 0 .. align - 1
  OBVIOUS
<1>2. (align - (a % align)) % align \in Nat
  BY <1>1
<1> QED
  BY <1>2 DEF AlignUp

(* A multiple of four is one.                                              *)
LEMMA AlignUpFour ==
  ASSUME NEW a \in Nat
  PROVE  AlignUp(a, 4) % 4 = 0
  BY DEF AlignUp

(* The data of a new block leave room for its header.                      *)
LEMMA DataAbove ==
  ASSUME BlocksOK, NEW b \in blocks, NEW align \in Nat \ {0}
  PROVE  Data(b, align) \in Nat /\ b.end + 3 <= Data(b, align)
<1>1. b.end + 3 \in Nat
  BY DEF BlocksOK
<1> QED
  BY <1>1, AlignUpAbove DEF Data

(* The heap begins with one block at its start (gp_mm_init).               *)
LEMMA InitApart ==
  HeapInit => HeapInv
  BY HeapAssumption, SMT DEF HeapInit, HeapInv, BlocksOK, BlocksApart, LastHead

(* No block begins where a new one is put: those up to the one before it   *)
(* end before, and those behind it begin after its last word.              *)
LEMMA NewBlock ==
  ASSUME HeapInv, NEW size \in Nat \ {0}, NEW align \in Nat \ {0}, NEW spare \in Nat,
         NEW b \in FirstFit(size, align, spare)
  PROVE  /\ Data(b, align) \in Nat /\ Data(b, align) > HeapStart + 2
         /\ \A c \in blocks : c.head + 2 # Data(b, align)
<1> DEFINE p == Data(b, align)
<1>1. b \in blocks /\ HasRoom(b, size, align, spare)
  BY DEF FirstFit
<1>2. \A c \in blocks : /\ c.head \in Nat /\ c.end \in Nat
                        /\ HeapStart <= c.head /\ c.head < c.end
  BY DEF HeapInv, BlocksOK, BlocksApart
<1>3. p \in Nat /\ b.end + 3 <= p
  BY <1>1, DataAbove DEF HeapInv
<1>4. p > HeapStart + 2
  BY <1>1, <1>2, <1>3, HeapAssumption
<1>5. \A c \in blocks : c.head <= b.head => c.end <= b.end
  BY <1>1, <1>2 DEF HeapInv, BlocksApart
<1>6. \A c \in blocks : c.head > b.head => p + size + spare <= c.head
  BY <1>1 DEF HasRoom, Entries
<1> HIDE DEF p
<1>7. \A c \in blocks : c.head + 2 # p
  BY <1>1, <1>2, <1>3, <1>5, <1>6
<1> QED
  BY <1>3, <1>4, <1>7 DEF p

(* A block put behind the first one with room lies apart from all others:  *)
(* from those before it because the search goes on from a block's end, and *)
(* from those behind it because the room ends at the next header.          *)
LEMMA AllocateApart ==
  ASSUME HeapInv, NEW size \in Nat \ {0}, NEW align \in Nat \ {0},
         NEW spare \in Nat, NEW p \in Nat, Allocate(size, align, spare, p)
  PROVE  HeapInv'
<1>1. CASE UNCHANGED blocks
  BY <1>1 DEF HeapInv, BlocksOK, BlocksApart, LastHead
<1>2. ASSUME NEW b \in FirstFit(size, align, spare),
             p = Data(b, align),
             blocks' = blocks \cup {[head |-> p - 2, end |-> p + size - 1]}
      PROVE  HeapInv'
  <2> DEFINE new == [head |-> p - 2, end |-> p + size - 1]
  <2>1. b \in blocks /\ HasRoom(b, size, align, spare)
    BY <1>2 DEF FirstFit
  <2>2. \A c \in blocks : /\ c.head \in Nat /\ c.end \in Nat
                          /\ HeapStart <= c.head /\ c.head < c.end /\ c.end < LastHead
    BY DEF HeapInv, BlocksOK, BlocksApart
  <2>3. b.end + 3 <= p
    BY <1>2, <2>1, DataAbove DEF HeapInv
  <2>4. p + size + spare <= LastHead
    BY <1>2, <2>1, <2>2, HeapAssumption DEF HasRoom, Entries, LastHead
  <2>5. \A c \in blocks : c.head > b.head => p + size + spare <= c.head
    BY <1>2, <2>1 DEF HasRoom, Entries
  <2>6. \A c \in blocks : c.head <= b.head => c.end <= b.end
    BY <2>1, <2>2 DEF HeapInv, BlocksApart
  <2>7. \A c \in blocks : \/ c.end < new.head
                          \/ new.end < c.head
    BY <2>1, <2>2, <2>3, <2>5, <2>6
  <2>8. /\ new.head \in Nat /\ new.end \in Nat
        /\ HeapStart <= new.head /\ new.head < new.end /\ new.end < LastHead
    BY <2>1, <2>2, <2>3, <2>4, HeapAssumption DEF LastHead
  <2>9. BlocksOK'
    BY <1>2, <2>8 DEF HeapInv, BlocksOK
  <2>10. BlocksApart'
    <3>1. \A c \in blocks' : HeapStart <= c.head /\ c.head < c.end /\ c.end < LastHead'
      BY <1>2, <2>2, <2>8 DEF LastHead
    <3>2. \A c, d \in blocks' : c.head < d.head => c.end < d.head
      BY <1>2, <2>2, <2>7, <2>8 DEF HeapInv, BlocksApart
    <3>3. \A c, d \in blocks' : c.head = d.head => c = d
      BY <1>2, <2>2, <2>7, <2>8 DEF HeapInv, BlocksApart
    <3> QED
      BY <3>1, <3>2, <3>3 DEF BlocksApart
  <2> QED
    BY <2>9, <2>10 DEF HeapInv
<1> QED
  BY <1>1, <1>2 DEF Allocate

(* Freeing takes a block out of the list and moves none.                   *)
LEMMA FreeApart ==
  ASSUME HeapInv, NEW p, gp_free(p)
  PROVE  HeapInv'
<1>1. blocks' \subseteq blocks
  BY DEF gp_free, Freed
<1> QED
  BY <1>1 DEF HeapInv, BlocksOK, BlocksApart, LastHead

LEMMA HeapStepApart ==
  HeapInv /\ [HeapNext]_blocks => HeapInv'
<1> SUFFICES ASSUME HeapInv, [HeapNext]_blocks
             PROVE  HeapInv'
  OBVIOUS
<1>1. CASE HeapNext
  <2>1. ASSUME NEW size \in Nat \ {0}, NEW align \in Nat \ {0}, NEW p \in Nat,
               gp_malloc(size, p) \/ gp_malloc_align(size, align, p)
        PROVE  HeapInv'
    BY <2>1, AllocateApart DEF gp_malloc, gp_malloc_align
  <2>2. ASSUME NEW p \in Nat, gp_free(p)
        PROVE  HeapInv'
    BY <2>2, FreeApart
  <2> QED
    BY <1>1, <2>1, <2>2 DEF HeapNext
<1>2. CASE UNCHANGED blocks
  BY <1>2 DEF HeapInv, BlocksOK, BlocksApart, LastHead
<1> QED
  BY <1>1, <1>2

(* Whatever is allocated and freed, in whatever order, no two blocks share *)
(* a word and none reaches the end of the list (gp_malloc, gp_malloc_align *)
(* and gp_free).                                                           *)
THEOREM HeapBlocksApart == HeapSpec => []BlocksApart
<1>1. HeapSpec => []HeapInv
  BY InitApart, HeapStepApart, PTL DEF HeapSpec
<1>2. HeapInv => BlocksApart
  BY DEF HeapInv
<1> QED
  BY <1>1, <1>2, PTL
=============================================================================
