----------------------------- MODULE FileNumbers -----------------------------
(***************************************************************************)
(* application/task_storage_service: which number the next video or        *)
(* picture file gets.  A mount reads the names on the card, notes in a     *)
(* bit table (avi_file_table, jpg_file_table) which numbers are taken, and *)
(* continues after the highest; a request opens the file of the next       *)
(* number with O_TRUNC, so a number in use costs the file that had it.     *)
(* Only the next file of a recording looks for a number that is free.      *)
(*                                                                         *)
(* The names have IndexNo numbers (10000 in the code).  A number that is   *)
(* not below it lies behind the table and makes a name of five digits, of  *)
(* which a later mount reads the first four.                               *)
(*                                                                         *)
(* External: the file system, and what happens to a card outside.          *)
(***************************************************************************)
EXTENDS Integers

CONSTANTS
  IndexNo,        \* file names' numbers: 10000
  LastIndex       \* bound: requests stop when the next number is behind it

ASSUME IndexAssumption ==
  /\ IndexNo \in Nat \ {0}
  /\ LastIndex \in Nat
  /\ LastIndex >= IndexNo

VARIABLES
  whole,          \* per kind, the numbers on the card whose file has content
  stub,           \* those whose file is too short to be kept (f_size)
  table,          \* avi_file_table, jpg_file_table: the bits that are set
  index,          \* g_avi_index, g_jpeg_index: the next file's number
  latest,         \* g_latest_avi_file_index
  mounted,        \* the card in the slot has been mounted
  stuck           \* the search for a free number goes round for ever

vars == <<whole, stub, table, index, latest, mounted, stuck>>

Kinds == {"avi", "jpg"}
Numbers == 0 .. IndexNo - 1
FileNumber == 0 .. LastIndex
-----------------------------------------------------------------------------
PowerOn ==
  /\ table' = [k \in Kinds |-> {}]
  /\ index' = [k \in Kinds |-> 0]
  /\ latest' = 0
  /\ mounted' = FALSE
  /\ stuck' = FALSE
  /\ UNCHANGED <<whole, stub>>

Init ==
  /\ \E used \in [Kinds -> SUBSET Numbers] :
       /\ whole \in [Kinds -> SUBSET Numbers]
       /\ \A k \in Kinds : whole[k] \subseteq used[k]
       /\ stub = [k \in Kinds |-> used[k] \ whole[k]]
  /\ table = [k \in Kinds |-> {}]
  /\ index = [k \in Kinds |-> 0]
  /\ latest = 0
  /\ mounted = FALSE
  /\ stuck = FALSE

(* What _findfirst and _findnext show of the files `present`: a number     *)
(* behind the last is read as another one.                                 *)
NumbersRead(present) ==
  IF present \subseteq Numbers THEN {present}
  ELSE {(present \cap Numbers) \cup {n} : n \in Numbers}

\* Mutant: the last file's own number.
FirstBehindNot(read) ==
  {n \in 0 .. IndexNo : (\A m \in read : m <= n) /\ (n = 0 \/ n \in read)}

\* The first number behind those read (only it); -1 + 1 when there are none.
FirstBehind(read) ==
  {n \in 0 .. IndexNo : (\A m \in read : m < n) /\ (n = 0 \/ n - 1 \in read)}

(* ap_storage_service_storage_mount with get_file_final_avi_index and      *)
(* get_file_final_jpeg_index.  Short files are removed, those that resist  *)
(* are counted.  When the highest number is in use (by a video, or by a    *)
(* picture) both kinds go on behind the file with the latest date; the     *)
(* dates are any, since the user sets the clock.  The date of a video      *)
(* counts only if st_mode of a variable nobody has set happens to be       *)
(* D_NORMAL, and without a picture left the latest one is not set either.  *)
Mount ==
  /\ ~ mounted
  /\ ~ stuck
  /\ \E resist \in [avi : SUBSET stub["avi"], jpg : SUBSET stub["jpg"]] :
       LET present == [k \in Kinds |-> whole[k] \cup resist[k]]
       IN  /\ stub' = resist
           /\ \E avi \in NumbersRead(present["avi"]), jpg \in NumbersRead(present["jpg"]) :
              \E nextAvi \in FirstBehind(avi), nextJpg \in FirstBehind(jpg) :
                LET aviEnd == nextAvi = IndexNo
                    jpgEnd == /\ whole["jpg"] \cup stub["jpg"] # {}
                              /\ aviEnd \/ nextJpg = IndexNo
                IN  /\ table' = [avi |-> avi, jpg |-> jpg]
                    /\ latest' \in {latest} \cup avi
                    /\ \E latestJpg \in IF jpg = {} THEN Numbers ELSE jpg :
                         index' = [avi |-> IF aviEnd \/ jpgEnd THEN latest' + 1 ELSE nextAvi,
                                   jpg |-> IF jpgEnd THEN latestJpg + 1 ELSE nextJpg]
  /\ mounted' = TRUE
  /\ UNCHANGED <<whole, stuck>>

\* O_CREAT | O_TRUNC.
Truncate(k, n) ==
  /\ whole' = [whole EXCEPT ![k] = @ \ {n}]
  /\ stub' = [stub EXCEPT ![k] = @ \cup {n}]

\* Mutant: the bit of the new file is forgotten.
MarkNot(k, n) == {table}

\* Setting a bit behind one table sets one that the linker has put there.
Mark(k, n) ==
  IF n \in Numbers THEN {[table EXCEPT ![k] = @ \cup {n}]}
  ELSE {table} \cup {[table EXCEPT ![j] = @ \cup {n - IndexNo}] : j \in Kinds \ {k}}

\* The number after n: it wraps by comparing for equality.
Successor(n) == IF n + 1 = IndexNo THEN 0 ELSE n + 1

\* A successful or failed open() of number n, and what the code does of it.
Open(k, n, ok) ==
  IF ok
    THEN /\ Truncate(k, n)
         /\ table' \in Mark(k, n)
         /\ index' = [index EXCEPT ![k] = Successor(n)]
    ELSE /\ index' = [index EXCEPT ![k] = n]
         /\ UNCHANGED <<whole, stub, table>>

(* ap_storage_service_file_open_handle, for VID_REQ and PIC_REQ: it does   *)
(* not ask the table.  Without a mounted card open() fails.                *)
FileOpen(k) ==
  /\ ~ stuck
  /\ index[k] \in FileNumber
  /\ \E ok \in {FALSE, mounted} : Open(k, index[k], ok)
  /\ UNCHANGED <<latest, mounted, stuck>>

Lowest(S) == {m \in S : \A n \in S : m <= n}

\* Mutant: the next number, free or not.
FreeFromNot(n) == {n}

(* What the search of ap_storage_service_cyclic_record_file_open_handle    *)
(* stops at: the first number not in the table from n on, round the end.   *)
(* The bit behind the table is somebody else's.                            *)
FreeFrom(n) ==
  LET free == Numbers \ table["avi"]
      ahead == {m \in free : m >= n}
  IN  IF ahead # {} THEN Lowest(ahead)
      ELSE Lowest(free) \cup (IF n \in Numbers THEN {} ELSE {n})

CyclicFileOpen ==
  /\ ~ stuck
  /\ index["avi"] \in FileNumber
  /\ \/ /\ \E n \in FreeFrom(index["avi"]), ok \in {FALSE, mounted} : Open("avi", n, ok)
        /\ UNCHANGED stuck
     \/ /\ Numbers \subseteq table["avi"]
        /\ stuck' = TRUE
        /\ UNCHANGED <<whole, stub, table, index>>
  /\ UNCHANGED <<latest, mounted>>

\* The packer or the picture task writes a file that has been opened.
FileWritten ==
  /\ mounted
  /\ \E k \in Kinds : \E n \in stub[k] :
       /\ whole' = [whole EXCEPT ![k] = @ \cup {n}]
       /\ stub' = [stub EXCEPT ![k] = @ \ {n}]
  /\ UNCHANGED <<table, index, latest, mounted, stuck>>

\* The card is taken out, files on it are deleted, and it comes back.
CardEdited ==
  /\ mounted
  /\ mounted' = FALSE
  /\ \E k \in Kinds, n \in FileNumber :
       /\ whole' = [whole EXCEPT ![k] = @ \ {n}]
       /\ stub' = [stub EXCEPT ![k] = @ \ {n}]
  /\ UNCHANGED <<table, index, latest, stuck>>

Next ==
  \/ PowerOn
  \/ Mount
  \/ \E k \in Kinds : FileOpen(k)
  \/ CyclicFileOpen
  \/ FileWritten
  \/ CardEdited

Spec == Init /\ [][Next]_vars
-----------------------------------------------------------------------------
(* No file with content is opened anew before the names' numbers are used  *)
(* up (the highest is in a table): until then every mount, whatever it     *)
(* finds, removes or fails to remove, and every sequence of requests goes  *)
(* on with a number no file has.  And the next file of a recording never   *)
(* replaces one whose number the table can hold, not even then.            *)
KeepsFiles ==
  [][\A k \in Kinds : \A n \in whole[k] \cap stub'[k] :
       /\ \E j \in Kinds : IndexNo - 1 \in table[j]
       /\ CyclicFileOpen => n \notin Numbers]_vars
=============================================================================
