-------------------------- MODULE FileNumbersProofs --------------------------
(***************************************************************************)
(* Proofs about FileNumbers: no file with content is opened anew before    *)
(* the numbers are used up, for any number of numbers.                     *)
(***************************************************************************)
EXTENDS FileNumbers, TLAPS

\* Sets of file numbers, and files that have content or have not.
NumbersType ==
  /\ whole \in [Kinds -> SUBSET FileNumber]
  /\ stub \in [Kinds -> SUBSET FileNumber]
  /\ table \in [Kinds -> SUBSET Nat]
  /\ index \in [Kinds -> Nat]
  /\ latest \in Nat
  /\ mounted \in BOOLEAN
  /\ \A k \in Kinds : whole[k] \cap stub[k] = {}

\* The table of a mounted card has every number it can hold.
TableKnows ==
  mounted => \A k \in Kinds : (whole[k] \cup stub[k]) \cap Numbers \subseteq table[k]

\* The last of the names' numbers has been used.
UsedUp == \E j \in Kinds : IndexNo - 1 \in table[j]

\* Until then the next number is behind all that are in the table.
NextIsNew ==
  mounted /\ ~ UsedUp =>
    \A k \in Kinds : index[k] \in Numbers /\ \A m \in table[k] : m < index[k]

(* The inductive invariant: when the last number is not in use, the next   *)
(* one is above all that are.  Otherwise the table, which no open() takes  *)
(* a number out of, remembers that it is.                                  *)
NumbersInv == NumbersType /\ TableKnows /\ NextIsNew
-----------------------------------------------------------------------------
LEMMA NumbersInit == Init => NumbersInv
<1> USE IndexAssumption
<1> SUFFICES ASSUME Init PROVE NumbersInv
  OBVIOUS
<1>1. Numbers \subseteq FileNumber
  BY DEF Numbers, FileNumber
<1>2. NumbersType
  <2>1. PICK used \in [Kinds -> SUBSET Numbers] :
          /\ whole \in [Kinds -> SUBSET Numbers]
          /\ stub = [k \in Kinds |-> used[k] \ whole[k]]
    BY DEF Init
  <2>2. stub \in [Kinds -> SUBSET Numbers] /\ whole \in [Kinds -> SUBSET Numbers]
    BY <2>1
  <2>3. /\ whole \in [Kinds -> SUBSET FileNumber]
        /\ stub \in [Kinds -> SUBSET FileNumber]
    BY <1>1, <2>2
  <2>4. \A k \in Kinds : whole[k] \cap stub[k] = {}
    BY <2>1
  <2> QED
    BY <2>3, <2>4 DEF Init, NumbersType
<1>3. TableKnows /\ NextIsNew
  BY DEF Init, TableKnows, NextIsNew
<1> QED
  BY <1>2, <1>3 DEF NumbersInv

\* What a mount does of the numbers of one kind.
LEMMA Behind ==
  ASSUME NEW read \in SUBSET Nat, NEW n \in FirstBehind(read)
  PROVE  /\ n \in Nat
         /\ n \in Numbers \/ n = IndexNo
         /\ \A m \in read : m < n
         /\ n = IndexNo => IndexNo - 1 \in read
BY IndexAssumption DEF FirstBehind, Numbers

LEMMA Read ==
  ASSUME NEW present \in SUBSET FileNumber, NEW read \in NumbersRead(present)
  PROVE  read \in SUBSET Numbers /\ present \cap Numbers \subseteq read
BY DEF NumbersRead, Numbers

LEMMA MountKeeps == ASSUME NumbersInv, Mount PROVE NumbersInv'
<1> USE IndexAssumption
<1> DEFINE present(r) == [k \in Kinds |-> whole[k] \cup r[k]]
<1>1. PICK resist \in [avi : SUBSET stub["avi"], jpg : SUBSET stub["jpg"]] :
        /\ stub' = resist
        /\ \E avi \in NumbersRead(present(resist)["avi"]),
              jpg \in NumbersRead(present(resist)["jpg"]) :
             \E nextAvi \in FirstBehind(avi), nextJpg \in FirstBehind(jpg) :
               LET aviEnd == nextAvi = IndexNo
                   jpgEnd == /\ whole["jpg"] \cup stub["jpg"] # {}
                             /\ aviEnd \/ nextJpg = IndexNo
               IN  /\ table' = [avi |-> avi, jpg |-> jpg]
                   /\ latest' \in {latest} \cup avi
                   /\ \E latestJpg \in IF jpg = {} THEN Numbers ELSE jpg :
                        index' = [avi |-> IF aviEnd \/ jpgEnd THEN latest' + 1 ELSE nextAvi,
                                  jpg |-> IF jpgEnd THEN latestJpg + 1 ELSE nextJpg]
  BY DEF Mount
<1> DEFINE pa == whole["avi"] \cup resist["avi"]
           pj == whole["jpg"] \cup resist["jpg"]
<1>2. present(resist)["avi"] = pa /\ present(resist)["jpg"] = pj
  BY DEF Kinds
<1>3. PICK avi \in NumbersRead(pa), jpg \in NumbersRead(pj) :
        \E nextAvi \in FirstBehind(avi), nextJpg \in FirstBehind(jpg) :
          LET aviEnd == nextAvi = IndexNo
              jpgEnd == /\ whole["jpg"] \cup stub["jpg"] # {}
                        /\ aviEnd \/ nextJpg = IndexNo
          IN  /\ table' = [avi |-> avi, jpg |-> jpg]
              /\ latest' \in {latest} \cup avi
              /\ \E latestJpg \in IF jpg = {} THEN Numbers ELSE jpg :
                   index' = [avi |-> IF aviEnd \/ jpgEnd THEN latest' + 1 ELSE nextAvi,
                             jpg |-> IF jpgEnd THEN latestJpg + 1 ELSE nextJpg]
  BY <1>1, <1>2, Zenon
<1>4. PICK nextAvi \in FirstBehind(avi), nextJpg \in FirstBehind(jpg) :
        LET aviEnd == nextAvi = IndexNo
            jpgEnd == /\ whole["jpg"] \cup stub["jpg"] # {}
                      /\ aviEnd \/ nextJpg = IndexNo
        IN  /\ table' = [avi |-> avi, jpg |-> jpg]
            /\ latest' \in {latest} \cup avi
            /\ \E latestJpg \in IF jpg = {} THEN Numbers ELSE jpg :
                 index' = [avi |-> IF aviEnd \/ jpgEnd THEN latest' + 1 ELSE nextAvi,
                           jpg |-> IF jpgEnd THEN latestJpg + 1 ELSE nextJpg]
  BY <1>3, Zenon
<1> DEFINE aviEnd == nextAvi = IndexNo
           jpgEnd == whole["jpg"] \cup stub["jpg"] # {} /\ (aviEnd \/ nextJpg = IndexNo)
<1>5. PICK latestJpg \in IF jpg = {} THEN Numbers ELSE jpg :
        index' = [avi |-> IF aviEnd \/ jpgEnd THEN latest' + 1 ELSE nextAvi,
                  jpg |-> IF jpgEnd THEN latestJpg + 1 ELSE nextJpg]
  BY <1>4, Zenon
<1>6. table' = [avi |-> avi, jpg |-> jpg] /\ latest' \in {latest} \cup avi
  BY <1>4, Zenon
<1>7. /\ resist["avi"] \subseteq stub["avi"]
      /\ resist["jpg"] \subseteq stub["jpg"]
      /\ resist \in [Kinds -> SUBSET FileNumber]
      /\ whole' = whole /\ mounted' = TRUE
      /\ pa \in SUBSET FileNumber /\ pj \in SUBSET FileNumber
  <2>1. stub["avi"] \in SUBSET FileNumber /\ stub["jpg"] \in SUBSET FileNumber
    BY DEF NumbersInv, NumbersType, Kinds
  <2>2. resist["avi"] \subseteq stub["avi"] /\ resist["jpg"] \subseteq stub["jpg"]
    OBVIOUS
  <2>3. resist = [k \in Kinds |-> resist[k]]
    BY DEF Kinds
  <2>4. resist \in [Kinds -> SUBSET FileNumber]
    BY <2>1, <2>2, <2>3 DEF Kinds
  <2> QED
    BY <2>1, <2>2, <2>4 DEF Mount, NumbersInv, NumbersType, Kinds
<1>8. /\ avi \in SUBSET Numbers /\ pa \cap Numbers \subseteq avi
      /\ jpg \in SUBSET Numbers /\ pj \cap Numbers \subseteq jpg
  BY <1>7, Read
<1>9. /\ nextAvi \in Nat /\ (nextAvi \in Numbers \/ aviEnd) /\ \A m \in avi : m < nextAvi
      /\ aviEnd => IndexNo - 1 \in avi
      /\ nextJpg \in Nat /\ (nextJpg \in Numbers \/ nextJpg = IndexNo)
      /\ \A m \in jpg : m < nextJpg
      /\ nextJpg = IndexNo => IndexNo - 1 \in jpg
  <2>1. avi \in SUBSET Nat /\ jpg \in SUBSET Nat
    BY <1>8 DEF Numbers
  <2> HIDE DEF pa, pj
  <2> QED
    BY <2>1, Behind
<1>10. table'["avi"] = avi /\ table'["jpg"] = jpg /\ table' \in [Kinds -> SUBSET Nat]
  <2>1. avi \in SUBSET Nat /\ jpg \in SUBSET Nat
    BY <1>8 DEF Numbers
  <2>2. [avi |-> avi, jpg |-> jpg] = [k \in Kinds |-> IF k = "avi" THEN avi ELSE jpg]
    BY DEF Kinds
  <2>3. [k \in Kinds |-> IF k = "avi" THEN avi ELSE jpg] \in [Kinds -> SUBSET Nat]
    BY <2>1
  <2> QED
    BY <1>6, <2>2, <2>3 DEF Kinds
<1>11. latest' \in Nat /\ latestJpg \in Nat
  BY <1>5, <1>6, <1>8 DEF NumbersInv, NumbersType, Numbers
<1>12. /\ index'["avi"] = IF aviEnd \/ jpgEnd THEN latest' + 1 ELSE nextAvi
       /\ index'["jpg"] = IF jpgEnd THEN latestJpg + 1 ELSE nextJpg
       /\ index' \in [Kinds -> Nat]
  <2> DEFINE a == IF aviEnd \/ jpgEnd THEN latest' + 1 ELSE nextAvi
             j == IF jpgEnd THEN latestJpg + 1 ELSE nextJpg
  <2>1. a \in Nat /\ j \in Nat
    BY <1>9, <1>11
  <2>2. index' = [avi |-> a, jpg |-> j]
    BY <1>5
  <2> HIDE DEF a, j
  <2>3. [avi |-> a, jpg |-> j] = [k \in Kinds |-> IF k = "avi" THEN a ELSE j]
    BY DEF Kinds
  <2>4. index'["avi"] = a /\ index'["jpg"] = j /\ index' \in [Kinds -> Nat]
    BY <2>1, <2>2, <2>3 DEF Kinds
  <2> QED
    BY <2>4 DEF a, j
<1> HIDE DEF pa, pj, aviEnd, jpgEnd, present
<1>13. NumbersType'
  BY <1>1, <1>7, <1>10, <1>11, <1>12 DEF NumbersInv, NumbersType, Kinds
<1>14. TableKnows'
  BY <1>1, <1>7, <1>8, <1>10 DEF TableKnows, Kinds, pa, pj
<1>15. NextIsNew'
  <2> SUFFICES ASSUME ~ UsedUp' PROVE \A k \in Kinds : index'[k] \in Numbers /\ \A m \in table'[k] : m < index'[k]
    BY DEF NextIsNew
  <2>1. ~ aviEnd /\ nextJpg # IndexNo
    BY <1>9, <1>10 DEF UsedUp, Kinds
  <2>2. ~ jpgEnd
    BY <2>1 DEF jpgEnd
  <2> QED
    BY <1>9, <1>10, <1>12, <2>1, <2>2 DEF Kinds
<1> QED
  BY <1>13, <1>14, <1>15 DEF NumbersInv

(* A successful open of a number that is in no table, or behind the last.  *)
LEMMA OpenKeeps ==
  ASSUME NumbersInv, NEW k \in Kinds, NEW n \in FileNumber, NEW ok \in {FALSE, mounted},
         Open(k, n, ok), ~ UsedUp => n = index[k] \/ ~ mounted,
         UNCHANGED <<latest, mounted>>
  PROVE  NumbersInv'
<1> USE IndexAssumption
<1>1. n \in Nat /\ Successor(n) \in Nat
  BY DEF FileNumber, Successor
<1>2. NumbersType /\ TableKnows /\ NextIsNew
  BY DEF NumbersInv
<1>3. CASE ~ ok
  <2>1. /\ whole' = whole /\ stub' = stub /\ table' = table
        /\ index' = [index EXCEPT ![k] = n]
    BY <1>3 DEF Open
  <2>2. NumbersType' /\ TableKnows'
    BY <1>1, <1>2, <2>1 DEF NumbersType, TableKnows
  <2>3. NextIsNew'
    <3>1. UsedUp' <=> UsedUp
      BY <2>1 DEF UsedUp
    <3>2. CASE UsedUp \/ ~ mounted
      BY <3>1, <3>2 DEF NextIsNew
    <3>3. CASE ~ UsedUp /\ mounted
      <4>1. index' = index
        BY <1>2, <2>1, <3>3 DEF NumbersType
      <4> QED
        BY <1>2, <2>1, <3>1, <4>1 DEF NextIsNew
    <3> QED
      BY <3>2, <3>3
  <2> QED
    BY <2>2, <2>3 DEF NumbersInv
<1>4. CASE ok
  <2>1. /\ whole' = [whole EXCEPT ![k] = @ \ {n}]
        /\ stub' = [stub EXCEPT ![k] = @ \cup {n}]
        /\ table' \in Mark(k, n)
        /\ index' = [index EXCEPT ![k] = Successor(n)]
        /\ mounted
    BY <1>4 DEF Open, Truncate
  <2>2. /\ table' \in [Kinds -> SUBSET Nat]
        /\ \A j \in Kinds : table[j] \subseteq table'[j]
        /\ n \in Numbers => table' = [table EXCEPT ![k] = @ \cup {n}]
    <3>1. CASE n \in Numbers
      <4>1. table' = [table EXCEPT ![k] = @ \cup {n}]
        BY <2>1, <3>1 DEF Mark
      <4> QED
        BY <1>1, <1>2, <4>1 DEF NumbersType
    <3>2. CASE n \notin Numbers
      <4>1. n - IndexNo \in Nat
        BY <1>1, <3>2 DEF Numbers
      <4>2. \/ table' = table
            \/ \E j \in Kinds : table' = [table EXCEPT ![j] = @ \cup {n - IndexNo}]
        BY <2>1, <3>2 DEF Mark
      <4> QED
        BY <1>2, <3>2, <4>1, <4>2 DEF NumbersType
    <3> QED
      BY <3>1, <3>2
  <2>3. NumbersType'
    BY <1>1, <1>2, <2>1, <2>2 DEF NumbersType
  <2>4. TableKnows'
    <3>1. ASSUME NEW j \in Kinds, NEW m \in (whole'[j] \cup stub'[j]) \cap Numbers
          PROVE  m \in table'[j]
      <4>1. m \in whole[j] \cup stub[j] \/ (j = k /\ m = n)
        BY <1>2, <2>1, <3>1 DEF NumbersType
      <4>2. CASE m \in whole[j] \cup stub[j]
        BY <1>2, <2>1, <2>2, <3>1, <4>2 DEF TableKnows
      <4>3. CASE j = k /\ m = n
        BY <1>2, <2>2, <3>1, <4>3 DEF NumbersType
      <4> QED
        BY <4>1, <4>2, <4>3
    <3> QED
      BY <3>1 DEF TableKnows
  <2>5. NextIsNew'
    <3> SUFFICES ASSUME ~ UsedUp'
                 PROVE  \A j \in Kinds : index'[j] \in Numbers /\ \A m \in table'[j] : m < index'[j]
      BY DEF NextIsNew
    <3>1. ~ UsedUp
      BY <2>2 DEF UsedUp
    <3>2. \A j \in Kinds : index[j] \in Numbers /\ \A m \in table[j] : m < index[j]
      BY <1>2, <2>1, <3>1 DEF NextIsNew
    <3>3. n = index[k] /\ n \in Numbers
      BY <2>1, <3>1, <3>2
    <3>4. table' = [table EXCEPT ![k] = @ \cup {n}]
      BY <2>2, <3>3
    <3>5. n # IndexNo - 1
      BY <1>2, <3>4 DEF UsedUp, NumbersType
    <3>6. Successor(n) = n + 1 /\ n + 1 \in Numbers
      BY <3>3, <3>5 DEF Successor, Numbers
    <3>7. ASSUME NEW j \in Kinds
          PROVE  index'[j] \in Numbers /\ \A m \in table'[j] : m < index'[j]
      <4>1. CASE j = k
        <5>1. index'[j] = n + 1 /\ table'[j] = table[j] \cup {n} /\ table[j] \subseteq Nat
          BY <1>2, <2>1, <3>4, <3>6, <4>1 DEF NumbersType
        <5> QED
          BY <1>1, <3>2, <3>3, <3>6, <4>1, <5>1
      <4>2. CASE j # k
        BY <1>2, <2>1, <3>2, <3>4, <4>2 DEF NumbersType
      <4> QED
        BY <4>1, <4>2
    <3> QED
      BY <3>7
  <2> QED
    BY <2>3, <2>4, <2>5 DEF NumbersInv
<1> QED
  BY <1>3, <1>4

\* The search finds a number that is not in the table, the next one at once
\* when it is new, or one that the table cannot hold.
LEMMA Found ==
  ASSUME NumbersInv, index["avi"] \in FileNumber, NEW n \in FreeFrom(index["avi"])
  PROVE  /\ n \in FileNumber
         /\ n \in Numbers => n \notin table["avi"]
         /\ n \notin Numbers => n = index["avi"]
         /\ ~ UsedUp => n = index["avi"] \/ ~ mounted
<1> USE IndexAssumption
<1> DEFINE i == index["avi"]
           free == Numbers \ table["avi"]
           ahead == {m \in free : m >= i}
<1>1. i \in Nat /\ "avi" \in Kinds
  BY DEF NumbersInv, NumbersType, Kinds
<1>2. \/ n \in ahead /\ (\A m \in ahead : n <= m)
      \/ n \in free /\ ahead = {}
      \/ n = i /\ i \notin Numbers
  BY DEF FreeFrom, Lowest
<1>3. ASSUME ~ UsedUp, mounted PROVE n = i
  <2>1. i \in Numbers /\ i \notin table["avi"]
    BY <1>1, <1>3 DEF NumbersInv, NextIsNew
  <2>2. i \in ahead
    BY <1>1, <2>1
  <2>3. n \in ahead /\ n <= i
    BY <1>2, <2>1, <2>2
  <2> QED
    BY <1>1, <2>3 DEF Numbers
<1>4. n \in FileNumber
  BY <1>1, <1>2 DEF Numbers, FileNumber
<1>5. (n \in Numbers => n \notin table["avi"]) /\ (n \notin Numbers => n = i)
  BY <1>2
<1> QED
  BY <1>3, <1>4, <1>5

LEMMA NumbersStep == ASSUME NumbersInv, [Next]_vars PROVE NumbersInv'
<1> USE IndexAssumption
<1>1. CASE PowerOn
  BY <1>1 DEF PowerOn, NumbersInv, NumbersType, TableKnows, NextIsNew, Kinds
<1>2. CASE Mount
  BY <1>2, MountKeeps
<1>3. ASSUME NEW k \in Kinds, FileOpen(k) PROVE NumbersInv'
  <2>1. PICK ok \in {FALSE, mounted} : Open(k, index[k], ok)
    BY <1>3 DEF FileOpen
  <2> QED
    BY <1>3, <2>1, OpenKeeps DEF FileOpen
<1>4. CASE CyclicFileOpen
  <2>1. ASSUME NEW n \in FreeFrom(index["avi"]), NEW ok \in {FALSE, mounted},
               Open("avi", n, ok)
        PROVE  NumbersInv'
    BY <1>4, <2>1, Found, OpenKeeps DEF CyclicFileOpen, Kinds
  <2>2. CASE UNCHANGED <<whole, stub, table, index>>
    BY <1>4, <2>2 DEF CyclicFileOpen, NumbersInv, NumbersType, TableKnows, NextIsNew, UsedUp
  <2> QED
    BY <1>4, <2>1, <2>2 DEF CyclicFileOpen
<1>5. CASE FileWritten
  BY <1>5 DEF FileWritten, NumbersInv, NumbersType, TableKnows, NextIsNew, UsedUp
<1>6. CASE CardEdited
  BY <1>6 DEF CardEdited, NumbersInv, NumbersType, TableKnows, NextIsNew
<1>7. CASE UNCHANGED vars
  BY <1>7 DEF vars, NumbersInv, NumbersType, TableKnows, NextIsNew, UsedUp
<1> QED
  BY <1>1, <1>2, <1>3, <1>4, <1>5, <1>6, <1>7 DEF Next
-----------------------------------------------------------------------------
\* The step that opens a file anew.
StepKeepsFiles ==
  \A k \in Kinds : \A n \in whole[k] \cap stub'[k] :
    /\ \E j \in Kinds : IndexNo - 1 \in table[j]
    /\ CyclicFileOpen => n \notin Numbers

LEMMA OpenedAnew ==
  ASSUME NumbersInv, NEW k \in Kinds, NEW n \in whole[k] \cap stub'[k],
         NEW j \in Kinds, NEW m, NEW ok, Open(j, m, ok), ok => mounted
  PROVE  mounted /\ j = k /\ m = n
<1>1. n \notin stub[k]
  BY DEF NumbersInv, NumbersType
<1>2. ok
  BY <1>1 DEF Open
<1> QED
  BY <1>1, <1>2 DEF Open, Truncate, NumbersInv, NumbersType

LEMMA NumbersKeepFiles == ASSUME NumbersInv, [Next]_vars PROVE StepKeepsFiles
<1> SUFFICES ASSUME NEW k \in Kinds, NEW n \in whole[k] \cap stub'[k]
             PROVE  UsedUp /\ (CyclicFileOpen => n \notin Numbers)
  BY DEF StepKeepsFiles, UsedUp
<1>1. n \notin stub[k] /\ n \in FileNumber
  BY DEF NumbersInv, NumbersType
<1>2. mounted /\ n \in Numbers => n \in table[k]
  BY DEF NumbersInv, TableKnows
<1>3. ASSUME CyclicFileOpen PROVE UsedUp /\ n \notin Numbers
  <2>1. PICK m \in FreeFrom(index["avi"]), ok \in {FALSE, mounted} : Open("avi", m, ok)
    BY <1>1, <1>3 DEF CyclicFileOpen
  <2>2. mounted /\ "avi" = k /\ m = n
    <3>1. "avi" \in Kinds
      BY DEF Kinds
    <3>2. ok => mounted
      OBVIOUS
    <3> QED
      BY <2>1, <3>1, <3>2, OpenedAnew
  <2>3. n \notin Numbers /\ n = index["avi"]
    BY <1>2, <1>3, <2>2, Found DEF CyclicFileOpen
  <2> QED
    BY <2>2, <2>3 DEF NumbersInv, NextIsNew
<1>4. ASSUME NEW j \in Kinds, FileOpen(j) PROVE UsedUp
  <2>1. PICK ok \in {FALSE, mounted} : Open(j, index[j], ok)
    BY <1>4 DEF FileOpen
  <2>2. mounted /\ j = k /\ index[j] = n
    <3>1. ok => mounted
      OBVIOUS
    <3> QED
      BY <2>1, <3>1, OpenedAnew
  <2>3. SUFFICES ASSUME ~ UsedUp PROVE FALSE
    OBVIOUS
  <2>4. n \in Numbers /\ \A m \in table[k] : m < n
    BY <2>2, <2>3 DEF NumbersInv, NextIsNew
  <2> QED
    BY <1>2, <2>2, <2>4 DEF Numbers
<1>5. CASE PowerOn
  BY <1>1, <1>5 DEF PowerOn
<1>6. CASE Mount
  <2>1. stub'[k] \subseteq stub[k]
    <3>1. PICK resist \in [avi : SUBSET stub["avi"], jpg : SUBSET stub["jpg"]] : stub' = resist
      BY <1>6 DEF Mount
    <3> QED
      BY <3>1 DEF Kinds
  <2> QED
    BY <1>1, <2>1
<1>7. CASE FileWritten
  BY <1>1, <1>7 DEF FileWritten, NumbersInv, NumbersType
<1>8. CASE CardEdited
  BY <1>1, <1>8 DEF CardEdited, NumbersInv, NumbersType
<1>9. CASE UNCHANGED vars
  BY <1>1, <1>9 DEF vars
<1> QED
  BY <1>3, <1>4, <1>5, <1>6, <1>7, <1>8, <1>9 DEF Next

(* No file with content is opened anew before the numbers are used up, and *)
(* the next file of a recording never replaces one that the table holds.   *)
THEOREM FilesKept == Spec => KeepsFiles
<1>1. Init => NumbersInv
  BY NumbersInit
<1>2. NumbersInv /\ [Next]_vars => NumbersInv'
  BY NumbersStep
<1>3. NumbersInv /\ [Next]_vars => [StepKeepsFiles]_vars
  BY NumbersKeepFiles
<1> QED
  BY <1>1, <1>2, <1>3, PTL DEF Spec, KeepsFiles, StepKeepsFiles
=============================================================================
