------------------------ MODULE ProductImportProofs ------------------------
(***************************************************************************)
(* Proofs about the page of the bulk import, for any files, rows, chunks   *)
(* and number of imports.                                                  *)
(***************************************************************************)
EXTENDS ProductImport, SequenceTheorems, FiniteSetTheorems, WellFoundedInduction, TLAPS

IsImport(x) == "pc" \in DOMAIN x /\ "attached" \in DOMAIN x

\* The imports are a function of records.
Shape ==
    /\ DOMAIN import = Imports
    /\ \A i \in Imports : IsImport(import[i])

\* An import this page posts.
Current(i) == Attached(i) /\ Posting(i)

\* There is one at most, and the buttons are disabled exactly while it is there.
Buttons ==
    /\ \A i, j \in Imports : Current(i) /\ Current(j) => i = j
    /\ processing \in BOOLEAN
    /\ processing <=> \E i \in Imports : Current(i)

PInv == Shape /\ Buttons /\ NoDeadEnd

-----------------------------------------------------------------------------
\* Before a file is chosen there is no import.
LEMMA InitPage == Init => PInv
<1>1. IsImport(NoImport) /\ NoImport.pc = "none"
  BY DEF NoImport, IsImport
<1> QED BY <1>1 DEF Init, PInv, Shape, Buttons, NoDeadEnd, Current, Attached, Posting, Busy

\* Files, tabs, rows and the history leave the imports alone; a screen is
\* reached only if it has something to show.
LEMMA PageStep ==
  ASSUME PInv, UNCHANGED <<processing, import>>,
         \/ step' = step /\ summary' = summary
         \/ step' \in {"upload", "preview", "history"}
         \/ step' = "done" /\ summary /\ summary' = summary
  PROVE  PInv'
BY DEF PInv, Shape, Buttons, NoDeadEnd, Current, Attached, Posting, Busy

\* Which actions those are.
LEMMA PageActions ==
  ASSUME PInv,
         \/ ProductsLoaded \/ Discard \/ ImportAnother \/ DeleteHistory
         \/ \E f \in Files : SelectFile(f)
         \/ \E r \in reading : ParseDone(r) \/ ParseFails(r)
         \/ \E s \in {"upload", "preview", "done", "history"} : Go(s)
         \/ \E k \in 1 .. Len(preview) : DeleteRow(k)
  PROVE  PInv'
<1>1. UNCHANGED <<processing, import>>
  BY DEF ProductsLoaded, Discard, ImportAnother, DeleteHistory, SelectFile, ParseDone,
         ParseFails, Go, DeleteRow, page
<1>2. \/ step' = step /\ summary' = summary
      \/ step' \in {"upload", "preview", "history"}
      \/ step' = "done" /\ summary /\ summary' = summary
  <2>1. CASE \E f \in Files : SelectFile(f)
    BY <2>1 DEF SelectFile
  <2>2. CASE \E r \in reading : ParseDone(r) \/ ParseFails(r)
    BY <2>2 DEF ParseDone, ParseFails
  <2>3. CASE \E s \in {"upload", "preview", "done", "history"} : Go(s)
    BY <2>3 DEF Go, Tab
  <2>4. CASE \/ ProductsLoaded \/ Discard \/ ImportAnother \/ DeleteHistory
             \/ \E k \in 1 .. Len(preview) : DeleteRow(k)
    BY <2>4 DEF ProductsLoaded, Discard, ImportAnother, DeleteHistory, DeleteRow, page
  <2> QED BY <2>1, <2>2, <2>3, <2>4
<1> QED BY <1>1, <1>2, PageStep

\* One import is replaced; what the others are to the page stays.
LEMMA Replaced ==
  ASSUME Shape, NEW i \in Imports, NEW x, IsImport(x),
         import' = [import EXCEPT ![i] = x]
  PROVE  /\ Shape'
         /\ Attached(i)' <=> x.pc # "none" /\ x.attached
         /\ Posting(i)' <=> x.pc = "post"
         /\ \A j \in Imports : j # i => /\ Attached(j)' <=> Attached(j)
                                        /\ Posting(j)' <=> Posting(j)
<1>1. import'[i] = x /\ \A j \in Imports : j # i => import'[j] = import[j]
  BY DEF Shape
<1> QED BY <1>1 DEF Shape, Attached, Posting, Busy, Imports

\* A click on the import button.
LEMMA StartStep == ASSUME PInv, NEW i \in Imports, ProcessImport(i) PROVE PInv'
<1> DEFINE x == [pc |-> "post", items |-> ValidItems(preview), total |-> Len(preview),
                 next |-> 1, ok |-> 0, bad |-> 0, attached |-> TRUE, before |-> history]
<1>1. import' = [import EXCEPT ![i] = x]
  BY DEF ProcessImport
<1>3. IsImport(x) /\ x.pc = "post" /\ x.attached
  BY DEF IsImport
<1>2. ~processing /\ processing' = TRUE /\ step' = "processing" /\ summary' = summary
  BY DEF ProcessImport, CanProcess
<1> QED BY <1>1, <1>2, <1>3, Replaced DEF PInv, Buttons, NoDeadEnd, Current, Imports

\* A chunk is answered; after the last one the import is not posted any more.
LEMMA AnswerStep == ASSUME PInv, NEW i \in Imports, ChunkAnswered(i) PROVE PInv'
<1>0. Posting(i) /\ step' = step /\ summary' = summary
  BY DEF ChunkAnswered
<1>1. PICK failed \in SUBSET DOMAIN Chunk(i) :
        \/ /\ import' = [import EXCEPT ![i] = [CountRows(i, failed) EXCEPT !.pc = "categories"]]
           /\ processing' = (processing /\ ~import[i].attached)
        \/ import' = [import EXCEPT ![i] = CountRows(i, failed)] /\ processing' = processing
  BY DEF ChunkAnswered
<1> DEFINE c == CountRows(i, failed)
<1>2. IsImport(c) /\ c.pc = import[i].pc /\ c.attached = import[i].attached
  BY DEF CountRows, PInv, Shape, IsImport
<1>3. CASE /\ import' = [import EXCEPT ![i] = [CountRows(i, failed) EXCEPT !.pc = "categories"]]
           /\ processing' = (processing /\ ~import[i].attached)
  <2> DEFINE x == [c EXCEPT !.pc = "categories"]
  <2>1. IsImport(x) /\ x.pc = "categories" /\ x.attached = import[i].attached
    <3> HIDE DEF c
    <3> QED BY <1>2 DEF IsImport
  <2>2. /\ Shape' /\ (Attached(i)' <=> Attached(i)) /\ ~Posting(i)'
        /\ \A j \in Imports : j # i => /\ Attached(j)' <=> Attached(j)
                                       /\ Posting(j)' <=> Posting(j)
    BY <1>0, <1>3, <2>1, Replaced DEF PInv, Attached, Posting, Busy
  <2> QED BY <1>0, <1>3, <2>2 DEF PInv, Buttons, NoDeadEnd, Current, Attached, Posting, Busy,
                                  Imports
<1>4. CASE import' = [import EXCEPT ![i] = CountRows(i, failed)] /\ processing' = processing
  <2>1. /\ Shape' /\ (Attached(i)' <=> Attached(i)) /\ (Posting(i)' <=> Posting(i))
        /\ \A j \in Imports : j # i => /\ Attached(j)' <=> Attached(j)
                                       /\ Posting(j)' <=> Posting(j)
    BY <1>2, <1>4, Replaced DEF PInv, Attached, Posting, Busy
  <2> QED BY <1>0, <1>4, <2>1 DEF PInv, Buttons, NoDeadEnd, Current, Imports
<1> QED BY <1>1, <1>3, <1>4

\* An import that ends.
LEMMA EndStep == ASSUME PInv, NEW i \in Imports, ChunkFails(i) \/ ImportDone(i) PROVE PInv'
<1>1. import' = [import EXCEPT ![i] = NoImport] /\ import[i].pc \in {"post", "categories"}
  BY DEF ChunkFails, ImportDone, Posting
<1>2. /\ Shape' /\ ~Attached(i)'
      /\ \A j \in Imports : j # i => /\ Attached(j)' <=> Attached(j)
                                     /\ Posting(j)' <=> Posting(j)
  <2>1. IsImport(NoImport) /\ NoImport.pc = "none"
    BY DEF NoImport, IsImport
  <2> QED BY <1>1, <2>1, Replaced DEF PInv
<1>3. CASE ChunkFails(i)
  BY <1>2, <1>3 DEF ChunkFails, PInv, Buttons, NoDeadEnd, Current, Attached, Busy, Posting,
                    Imports
<1>4. CASE ImportDone(i)
  BY <1>2, <1>4 DEF ImportDone, PInv, Buttons, NoDeadEnd, Current, Attached, Busy, Posting,
                    Imports
<1> QED BY <1>3, <1>4

\* The page is left: no import belongs to it any more.
LEMMA LeaveStep == ASSUME PInv, LeaveAndReturn \/ Reload PROVE PInv'
<1>1. step' = "upload" /\ processing' = FALSE
  BY DEF LeaveAndReturn, Reload, Reopened
<1>2. Shape' /\ \A i \in Imports : ~Attached(i)'
  <2>1. CASE LeaveAndReturn
    BY <2>1 DEF LeaveAndReturn, PInv, Shape, IsImport, Attached, Imports
  <2>2. CASE Reload
    BY <2>2 DEF Reload, PInv, Shape, NoImport, IsImport, Attached, Busy, Imports
  <2> QED BY <2>1, <2>2
<1> QED BY <1>1, <1>2 DEF PInv, Buttons, NoDeadEnd, Current, Imports

\* Every step, action by action.
LEMMA PageInductive == PInv /\ [Next]_vars => PInv'
<1> SUFFICES ASSUME PInv, [Next]_vars PROVE PInv'
  OBVIOUS
<1>1. CASE UNCHANGED vars
  BY <1>1, PageStep DEF vars, page
<1>2. CASE \E i \in Imports : ProcessImport(i) \/ ImportStep(i)
  BY <1>2, StartStep, AnswerStep, EndStep DEF ImportStep
<1>3. CASE LeaveAndReturn \/ Reload
  BY <1>3, LeaveStep
<1> QED BY <1>1, <1>2, <1>3, PageActions DEF Next

-----------------------------------------------------------------------------
(* The page posts one import at a time and its buttons are disabled        *)
(* exactly meanwhile, for any number of imports, whatever files are read,  *)
(* tabs changed and older imports finished (AdminProductBulkImport.tsx).   *)
THEOREM OneImportAtATime == Spec => []OneImport
<1>1. PInv => OneImport
  <2> SUFFICES ASSUME PInv PROVE OneImport
    OBVIOUS
  <2> DEFINE P == {i \in Imports : Attached(i) /\ Posting(i)}
  <2>1. Cardinality(P) <= 1
    <3>1. CASE P = {}
      BY <3>1, FS_EmptySet
    <3>2. CASE P # {}
      <4>1. PICK i \in Imports : i \in P
        BY <3>2
      <4>2. P = {i}
        BY <4>1 DEF PInv, Buttons, Current
      <4> QED BY <4>2, FS_Singleton
    <3> QED BY <3>1, <3>2
  <2> QED BY <2>1 DEF PInv, Buttons, Current, OneImport
<1> QED BY <1>1, InitPage, PageInductive, PTL DEF Spec

(* No screen of the import is a dead end: there are results where they are *)
(* shown, and progress only while an import of this page will end it.      *)
THEOREM NoScreenIsADeadEnd == Spec => []NoDeadEnd
<1>1. PInv => NoDeadEnd
  BY DEF PInv
<1> QED BY <1>1, InitPage, PageInductive, PTL DEF Spec

-----------------------------------------------------------------------------
(* The rows.  What is read of a file, what is left of it after rows were   *)
(* deleted and what an import takes of it are sequences; an import has     *)
(* counted every row before its next one, so that what it saves adds up.   *)

Statuses == {"matched", "new", "error"}

\* A sequence, whatever is in it.
IsSeq(s) == s \in Seq({s[k] : k \in DOMAIN s})

IsPreview(p) == IsSeq(p) /\ \A k \in DOMAIN p : p[k].status \in Statuses

\* An entry that accounts for its rows.
Entries == {e \in [ok : Int, bad : Int, total : Int] : e.ok + e.bad = e.total}

\* An import has counted every row before the next one.
Counted(x) ==
    /\ {"pc", "items", "total", "next", "ok", "bad", "attached", "before"} \subseteq DOMAIN x
    /\ x.pc \in {"none", "post", "categories"}
    /\ IsSeq(x.items) /\ x.total \in Nat /\ x.ok \in Int /\ x.bad \in Int
    /\ x.next \in 1 .. Len(x.items) + 1 /\ x.ok + x.bad = x.next - 1
    /\ x.pc = "post" => x.next <= Len(x.items)
    /\ x.pc = "categories" => x.next = Len(x.items) + 1
    /\ x.before \in Seq(Entries)

Previews == IsPreview(preview) /\ \A r \in reading : r.file \in Files /\ IsPreview(r.preview)

Kept(h) == h \in Seq(Entries) /\ Len(h) <= MaxHistory

Counts ==
    /\ DOMAIN import = Imports /\ \A i \in Imports : Counted(import[i])
    /\ Kept(history) /\ Kept(stored)

Page ==
    /\ step \in Steps /\ selected \in Files \cup {None}
    /\ processing \in BOOLEAN /\ summary \in BOOLEAN
    /\ started \in 0 .. MaxStarted

RowsInv == Page /\ Previews /\ Counts

-----------------------------------------------------------------------------
(* Sequences *)

\* A function on an initial interval is a sequence of that length.
LEMMA FunctionIsSeq ==
  ASSUME NEW n \in Nat, NEW s, s = [k \in 1 .. n |-> s[k]]
  PROVE  IsSeq(s) /\ Len(s) = n
<1>1. s \in [1 .. n -> {s[k] : k \in DOMAIN s}]
  OBVIOUS
<1>2. s \in Seq({s[k] : k \in DOMAIN s})
  BY <1>1
<1>. QED BY <1>1, <1>2 DEF IsSeq

\* There are finitely many positions.
LEMMA InOrderDomain ==
  ASSUME NEW n \in Nat, NEW S \in SUBSET (1 .. n)
  PROVE  Cardinality(S) \in Nat /\ DOMAIN InOrder(S) = 1 .. Cardinality(S)
<1>0. 1 \in Int /\ n \in Int
  OBVIOUS
<1>1. IsFiniteSet(1 .. n)
  BY ONLY <1>0, FS_Interval
<1>2. IsFiniteSet(S)
  BY <1>1, FS_Subset
<1>. QED BY <1>2, FS_CardinalityType DEF InOrder

\* What is read of a file is a preview.
LEMMA GeneratedPreview ==
  ASSUME NEW f \in Files, NEW known PROVE IsPreview(GenerateImportPreview(f, known))
<1> DEFINE S == {i \in 1 .. Len(Rows[f]) : Rows[f][i].name = None \/ ~Repeated(f, i)}
           p == GenerateImportPreview(f, known)
<1>1. Len(Rows[f]) \in Nat
  BY ImportConstants
<1>2. Cardinality(S) \in Nat /\ DOMAIN InOrder(S) = 1 .. Cardinality(S)
  BY <1>1, InOrderDomain
<1>3. p = [k \in 1 .. Cardinality(S) |-> Item(f, InOrder(S)[k], known)]
  BY <1>2 DEF GenerateImportPreview
<1>4. \A i : Item(f, i, known).status \in Statuses
  BY DEF Item, Statuses
<1>. HIDE DEF S, p
<1>5. IsSeq(p)
  BY <1>2, <1>3, FunctionIsSeq
<1>. QED BY <1>3, <1>4, <1>5 DEF IsPreview, p

\* What an import takes of a preview is a sequence.
LEMMA ValidIsSeq == ASSUME NEW s, IsSeq(s) PROVE IsSeq(ValidItems(s))
<1> DEFINE S == {k \in 1 .. Len(s) : Valid(s[k])}
           v == ValidItems(s)
<1>1. Len(s) \in Nat
  BY DEF IsSeq
<1>2. Cardinality(S) \in Nat /\ DOMAIN InOrder(S) = 1 .. Cardinality(S)
  BY <1>1, InOrderDomain
<1>3. v = [k \in 1 .. Cardinality(S) |-> s[InOrder(S)[k]]]
  BY <1>2 DEF ValidItems
<1>. HIDE DEF S, v
<1>4. IsSeq(v)
  BY <1>2, <1>3, FunctionIsSeq
<1>. QED BY <1>4 DEF v

\* A row is taken out of a preview.
LEMMA RemovedRow ==
  ASSUME NEW p, IsPreview(p), NEW k \in DOMAIN p PROVE IsPreview(RemoveAt(p, k))
<1> DEFINE T == {p[j] : j \in DOMAIN p}
<1>1. p \in Seq(T) /\ k \in 1 .. Len(p) /\ \A x \in T : x.status \in Statuses
  BY LenProperties DEF IsPreview, IsSeq
<1>. HIDE DEF T
<1>2. Len(p) \in Nat /\ \A j \in 1 .. Len(p) : p[j] \in T
  BY <1>1
<1>3. SubSeq(p, 1, k - 1) \in Seq(T) /\ SubSeq(p, k + 1, Len(p)) \in Seq(T)
  BY <1>1, <1>2, SubSeqProperties
<1>4. RemoveAt(p, k) \in Seq(T)
  BY <1>3, ConcatProperties DEF RemoveAt
<1> DEFINE q == RemoveAt(p, k)
<1>. HIDE DEF q
<1>5. Len(q) \in Nat /\ q \in [1 .. Len(q) -> T]
  BY <1>4, LenProperties DEF q
<1>6. IsSeq(q) /\ \A j \in DOMAIN q : q[j].status \in Statuses
  BY <1>1, <1>5, FunctionIsSeq
<1>. QED BY <1>6 DEF IsPreview, q

-----------------------------------------------------------------------------
(* The rows of an import *)

\* A chunk is what lies between two rows.
LEMMA ChunkRows ==
  ASSUME RowsInv, NEW i \in Imports, Posting(i)
  PROVE  /\ LastOf(i) \in Nat /\ import[i].next <= LastOf(i)
         /\ LastOf(i) <= Len(import[i].items)
         /\ IsSeq(Chunk(i)) /\ Len(Chunk(i)) = LastOf(i) - import[i].next + 1
<1> DEFINE x == import[i]
           T == {x.items[k] : k \in DOMAIN x.items}
<1>1. /\ x.items \in Seq(T) /\ x.next \in 1 .. Len(x.items) + 1
      /\ x.next <= Len(x.items)
  BY DEF RowsInv, Counts, Counted, IsSeq, Posting
<1>. HIDE DEF x, T
<1>2. Len(x.items) \in Nat /\ \A k \in 1 .. Len(x.items) : x.items[k] \in T
  BY <1>1, LenProperties
<1>3. LastOf(i) = Least(x.next + ChunkSize - 1, Len(x.items))
  BY DEF LastOf, x
<1>4. /\ LastOf(i) \in Nat /\ x.next <= LastOf(i) /\ LastOf(i) <= Len(x.items)
  BY <1>1, <1>2, <1>3, ImportConstants DEF Least
<1>5. Chunk(i) = SubSeq(x.items, x.next, LastOf(i))
  BY DEF Chunk, x
<1>6. /\ SubSeq(x.items, x.next, LastOf(i)) \in Seq(T)
      /\ Len(SubSeq(x.items, x.next, LastOf(i))) = LastOf(i) - x.next + 1
  BY <1>1, <1>2, <1>4, SubSeqProperties
<1> DEFINE c == Chunk(i)
<1>. HIDE DEF c
<1>7. c \in Seq(T) /\ Len(c) = LastOf(i) - x.next + 1
  BY <1>5, <1>6 DEF c
<1>8. Len(c) \in Nat /\ c \in [1 .. Len(c) -> T]
  BY <1>7, LenProperties
<1>9. IsSeq(c)
  BY <1>8, FunctionIsSeq
<1>. QED BY <1>4, <1>7, <1>9 DEF c, x

\* The rows that failed are some of the chunk.
LEMMA FailedRows ==
  ASSUME NEW c, IsSeq(c), NEW failed \in SUBSET DOMAIN c
  PROVE  Cardinality(failed) \in Nat
<1>1. Len(c) \in Nat /\ DOMAIN c = 1 .. Len(c)
  BY LenProperties DEF IsSeq
<1>2. 1 \in Int /\ Len(c) \in Int
  BY <1>1
<1>3. IsFiniteSet(1 .. Len(c))
  BY ONLY <1>2, FS_Interval
<1>4. IsFiniteSet(failed)
  BY <1>1, <1>3, FS_Subset
<1>. QED BY <1>4, FS_CardinalityType

\* The rows of a chunk are counted, each of them once.
LEMMA RowsCounted ==
  ASSUME RowsInv, NEW i \in Imports, Posting(i), NEW failed \in SUBSET DOMAIN Chunk(i)
  PROVE  IF LastOf(i) = Len(import[i].items)
         THEN Counted([CountRows(i, failed) EXCEPT !.pc = "categories"])
         ELSE Counted(CountRows(i, failed))
<1> DEFINE x == import[i]
           y == CountRows(i, failed)
           n == Cardinality(failed)
<1>1. /\ LastOf(i) \in Nat /\ x.next <= LastOf(i) /\ LastOf(i) <= Len(x.items)
      /\ Len(Chunk(i)) = LastOf(i) - x.next + 1 /\ n \in Nat
  BY ChunkRows, FailedRows
<1>2. Counted(x) /\ x.pc = "post"
  BY DEF RowsInv, Counts, Posting
<1>3. y = [x EXCEPT !.ok = @ + Len(Chunk(i)) - n, !.bad = @ + n, !.next = LastOf(i) + 1]
  BY DEF CountRows
<1>. HIDE DEF x, y, n
<1>4. /\ DOMAIN y = DOMAIN x /\ y.pc = "post" /\ y.items = x.items /\ y.total = x.total
      /\ y.before = x.before /\ y.next = LastOf(i) + 1
      /\ y.ok = x.ok + Len(Chunk(i)) - n /\ y.bad = x.bad + n
  BY <1>2, <1>3 DEF Counted
<1>5. /\ x.next \in Nat /\ Len(x.items) \in Nat /\ x.ok \in Int /\ x.bad \in Int
      /\ x.ok + x.bad = x.next - 1
  BY <1>2 DEF Counted, IsSeq
<1>6. /\ y.ok \in Int /\ y.bad \in Int /\ y.ok + y.bad = y.next - 1
      /\ y.next \in 1 .. Len(y.items) + 1
  <2>1. PICK l \in Int : l = Len(Chunk(i))
    BY <1>1, <1>5
  <2>2. n \in Nat /\ LastOf(i) \in Nat /\ l = LastOf(i) - x.next + 1
    BY <1>1, <2>1
  <2>3. y.ok = x.ok + l - n /\ y.bad = x.bad + n /\ y.next = LastOf(i) + 1
    BY <1>4, <2>1
  <2>4. x.ok \in Int /\ x.bad \in Int /\ x.next \in Int /\ x.ok + x.bad = x.next - 1
    BY <1>5
  <2>5. y.ok \in Int /\ y.bad \in Int
    BY <2>2, <2>3, <2>4
  <2>6. y.ok + y.bad = y.next - 1
    BY <2>2, <2>3, <2>4
  <2>7. y.next \in 1 .. Len(y.items) + 1
    BY <1>1, <1>4, <1>5
  <2>. QED BY <2>5, <2>6, <2>7
<1>7. /\ {"pc", "items", "total", "next", "ok", "bad", "attached", "before"} \subseteq DOMAIN y
      /\ IsSeq(y.items) /\ y.total \in Nat /\ y.before \in Seq(Entries)
  BY <1>2, <1>4 DEF Counted
<1>8. CASE LastOf(i) = Len(x.items)
  <2> DEFINE z == [y EXCEPT !.pc = "categories"]
  <2>1. /\ DOMAIN z = DOMAIN y /\ z.pc = "categories" /\ z.items = y.items
        /\ z.total = y.total /\ z.before = y.before /\ z.next = y.next /\ z.ok = y.ok
        /\ z.bad = y.bad
    BY <1>7
  <2>. HIDE DEF z
  <2>2. Counted(z)
    BY <1>4, <1>6, <1>7, <1>8, <2>1 DEF Counted
  <2>. QED BY <1>8, <2>2 DEF x, y, z
<1>9. CASE LastOf(i) # Len(x.items)
  <2>1. y.next <= Len(y.items)
    BY <1>1, <1>4, <1>5, <1>9
  <2>2. Counted(y)
    BY <1>4, <1>6, <1>7, <2>1 DEF Counted
  <2>. QED BY <1>9, <2>2 DEF x, y
<1>. QED BY <1>8, <1>9

\* What is saved of an import accounts for its rows, and is not too long.
LEMMA SavedKept ==
  ASSUME RowsInv, NEW i \in Imports, import[i].pc = "categories" PROVE Kept(Saved(i))
<1> DEFINE x == import[i]
           e == Entry(i)
           all == <<e>> \o x.before
           n == Least(Len(all), MaxHistory)
<1>1. Counted(x) /\ x.pc = "categories"
  BY DEF RowsInv, Counts
<1>2. e = [ok |-> x.ok, total |-> x.total, bad |-> x.bad + x.total - Len(x.items)]
  BY DEF Entry
<1>. HIDE DEF x
<1>3. /\ x.ok \in Int /\ x.bad \in Int /\ x.total \in Nat /\ Len(x.items) \in Nat
      /\ x.ok + x.bad = Len(x.items) /\ x.before \in Seq(Entries)
  BY <1>1 DEF Counted, IsSeq
<1>. HIDE DEF e
<1>4. e \in Entries
  BY <1>2, <1>3 DEF Entries
<1>5. <<e>> \in Seq(Entries)
  BY <1>4
<1>6. all \in Seq(Entries)
  BY <1>3, <1>5, ConcatProperties
<1>. HIDE DEF all
<1>7. Len(all) \in Nat /\ \A k \in 1 .. Len(all) : all[k] \in Entries
  BY <1>6, LenProperties
<1>8. n \in Nat /\ n <= MaxHistory /\ n <= Len(all) /\ MaxHistory \in Nat
  BY <1>7, ImportConstants DEF Least
<1>. HIDE DEF n
<1>9. SubSeq(all, 1, n) \in Seq(Entries) /\ Len(SubSeq(all, 1, n)) <= MaxHistory
  BY <1>7, <1>8, SubSeqProperties
<1>10. Saved(i) = SubSeq(all, 1, n)
  BY DEF Saved, all, n, e, x
<1>. QED BY <1>9, <1>10 DEF Kept

-----------------------------------------------------------------------------
(* The steps *)

\* An import that is over counts nothing.
LEMMA NothingCounted == Counted(NoImport)
<1>1. IsSeq(<<>>) /\ Len(<<>>) = 0
  BY DEF IsSeq
<1>2. /\ {"pc", "items", "total", "next", "ok", "bad", "attached", "before"}
           \subseteq DOMAIN NoImport
      /\ NoImport.pc = "none" /\ NoImport.items = <<>> /\ NoImport.total = 0
      /\ NoImport.next = 1 /\ NoImport.ok = 0 /\ NoImport.bad = 0
      /\ NoImport.before = <<>>
  BY DEF NoImport
<1>. QED BY <1>1, <1>2 DEF Counted

\* Before a file is chosen.
LEMMA InitRows == Init => RowsInv
<1> SUFFICES ASSUME Init PROVE RowsInv
  OBVIOUS
<1>0. 0 \in 0 .. MaxStarted
  BY ImportConstants
<1>1. Page
  BY <1>0 DEF Init, Page, Steps
<1>2. IsSeq(<<>>) /\ Len(<<>>) = 0 /\ DOMAIN <<>> = {}
  BY DEF IsSeq
<1>3. Previews
  BY <1>2 DEF Init, Previews, IsPreview
<1>4. Kept(<<>>)
  BY ImportConstants DEF Kept
<1>5. Counted(NoImport)
  BY NothingCounted
<1>6. Counts
  BY <1>4, <1>5 DEF Init, Counts
<1>. QED BY <1>1, <1>3, <1>6 DEF RowsInv

\* The file is chosen and read.
LEMMA FileRows ==
  ASSUME RowsInv,
         \/ \E f \in Files : SelectFile(f)
         \/ \E r \in reading : ParseDone(r) \/ ParseFails(r)
  PROVE  RowsInv'
<1>1. UNCHANGED <<history, stored, import>>
  BY DEF SelectFile, ParseDone, ParseFails
<1>2. Counts'
  BY <1>1 DEF RowsInv, Counts, Kept
<1>3. IsPreview(<<>>)
  BY DEF IsPreview, IsSeq
<1>4. CASE \E f \in Files : SelectFile(f)
  <2>1. PICK f \in Files : SelectFile(f)
    BY <1>4
  <2>2. IsPreview(GenerateImportPreview(f, products))
    BY GeneratedPreview
  <2> DEFINE g == GenerateImportPreview(f, products)
  <2>3. preview' = <<>> /\ reading' = reading \cup {[file |-> f, preview |-> g]}
    BY <2>1 DEF SelectFile
  <2>. HIDE DEF g
  <2>4. Previews'
    <3>1. \A r \in reading' : r \in reading \/ (r.file = f /\ r.preview = g)
      BY <2>3
    <3>. QED BY <1>3, <2>2, <2>3, <3>1 DEF RowsInv, Previews, g
  <2>5. Page'
    BY <2>1 DEF SelectFile, RowsInv, Page
  <2>. QED BY <1>2, <2>4, <2>5 DEF RowsInv
<1>5. CASE \E r \in reading : ParseDone(r) \/ ParseFails(r)
  <2>1. PICK r \in reading : ParseDone(r) \/ ParseFails(r)
    BY <1>5
  <2>2. reading' = reading \ {r} /\ (preview' = r.preview \/ preview' = preview)
    BY <2>1 DEF ParseDone, ParseFails
  <2>3. Previews'
    BY <2>2 DEF RowsInv, Previews
  <2>4. Page'
    BY <2>1 DEF ParseDone, ParseFails, RowsInv, Page, Steps
  <2>. QED BY <1>2, <2>3, <2>4 DEF RowsInv
<1>. QED BY <1>4, <1>5

\* Tabs and buttons.
LEMMA ButtonRows ==
  ASSUME RowsInv,
         \/ ProductsLoaded \/ Discard \/ ImportAnother \/ DeleteHistory
         \/ \E s \in {"upload", "preview", "done", "history"} : Go(s)
         \/ \E k \in 1 .. Len(preview) : DeleteRow(k)
  PROVE  RowsInv'
<1>1. UNCHANGED <<import, reading>> /\ (UNCHANGED <<history, stored>> \/ DeleteHistory)
  BY DEF ProductsLoaded, Discard, ImportAnother, DeleteHistory, Go, DeleteRow, page
<1>2. Kept(<<>>)
  BY ImportConstants DEF Kept
<1>3. Kept(history)' /\ Kept(stored)'
  BY <1>1, <1>2 DEF RowsInv, Counts, Kept, DeleteHistory
<1>4. Counts'
  BY <1>1, <1>3 DEF RowsInv, Counts
<1>5. IsPreview(<<>>)
  BY DEF IsPreview, IsSeq
<1>6. IsPreview(preview')
  <2>1. CASE ProductsLoaded \/ Discard \/ ImportAnother \/ DeleteHistory
    BY <1>5, <2>1 DEF ProductsLoaded, Discard, ImportAnother, DeleteHistory, page,
                      RowsInv, Previews
  <2>2. CASE \E s \in {"upload", "preview", "done", "history"} : Go(s)
    BY <2>2 DEF Go, RowsInv, Previews
  <2>3. CASE \E k \in 1 .. Len(preview) : DeleteRow(k)
    BY <2>3, RemovedRow DEF DeleteRow, RowsInv, Previews
  <2>. QED BY <2>1, <2>2, <2>3
<1>7. Previews'
  BY <1>1, <1>6 DEF RowsInv, Previews
<1>8. Page'
  BY DEF ProductsLoaded, Discard, ImportAnother, DeleteHistory, Go, DeleteRow, page,
         RowsInv, Page, Steps
<1>. QED BY <1>4, <1>7, <1>8 DEF RowsInv

\* One import is replaced.
LEMMA ImportRows ==
  ASSUME RowsInv, NEW i \in Imports, NEW x, Counted(x), import' = [import EXCEPT ![i] = x],
         UNCHANGED <<selected, preview, reading>>, step' \in Steps,
         processing' \in BOOLEAN, summary' \in BOOLEAN, started' \in 0 .. MaxStarted,
         Kept(history'), Kept(stored')
  PROVE  RowsInv'
<1>1. DOMAIN import' = Imports /\ \A j \in Imports : Counted(import'[j])
  BY DEF RowsInv, Counts
<1>2. Counts'
  BY <1>1 DEF Counts, Imports
<1>3. Previews' /\ Page'
  BY DEF RowsInv, Previews, Page
<1>. QED BY <1>2, <1>3 DEF RowsInv

\* The import button.
LEMMA StartRows == ASSUME RowsInv, NEW i \in Imports, ProcessImport(i) PROVE RowsInv'
<1> DEFINE v == ValidItems(preview)
           x == [pc |-> "post", items |-> v, total |-> Len(preview), next |-> 1,
                 ok |-> 0, bad |-> 0, attached |-> TRUE, before |-> history]
<1>1. import' = [import EXCEPT ![i] = x] /\ Len(v) > 0
  BY DEF ProcessImport
<1>2. IsSeq(v) /\ Len(preview) \in Nat /\ history \in Seq(Entries)
  BY ValidIsSeq DEF RowsInv, Previews, IsPreview, IsSeq, Counts, Kept
<1>. HIDE DEF v
<1>3. Counted(x)
  <2>1. Len(v) \in Nat
    BY <1>2 DEF IsSeq
  <2>. QED BY <1>1, <1>2, <2>1 DEF Counted
<1>. HIDE DEF x
<1>4. i \in 0 .. MaxStarted
  BY ImportConstants DEF Imports
<1>. QED BY <1>1, <1>3, <1>4, ImportRows
         DEF ProcessImport, RowsInv, Page, Counts, Steps, Kept

\* An import goes on or ends.
LEMMA ImportStepRows == ASSUME RowsInv, NEW i \in Imports, ImportStep(i) PROVE RowsInv'
<1>0. Page /\ Kept(history) /\ Kept(stored)
  BY DEF RowsInv, Counts
<1>1. CASE ChunkAnswered(i)
  <2>1. Posting(i) /\ UNCHANGED <<step, selected, preview, summary, history, stored,
                                   reading, started>>
    BY <1>1 DEF ChunkAnswered
  <2>2. PICK failed \in SUBSET DOMAIN Chunk(i) :
          IF LastOf(i) = Len(import[i].items)
          THEN /\ import' = [import EXCEPT ![i] = [CountRows(i, failed) EXCEPT !.pc = "categories"]]
               /\ processing' = (processing /\ ~import[i].attached)
          ELSE /\ import' = [import EXCEPT ![i] = CountRows(i, failed)]
               /\ UNCHANGED processing
    BY <1>1 DEF ChunkAnswered
  <2> DEFINE y == CountRows(i, failed)
             z == [y EXCEPT !.pc = "categories"]
  <2>3. IF LastOf(i) = Len(import[i].items) THEN Counted(z) ELSE Counted(y)
    BY <2>1, RowsCounted
  <2>4. processing' \in BOOLEAN
    BY <1>0, <2>2 DEF Page
  <2>5. \E x : Counted(x) /\ import' = [import EXCEPT ![i] = x]
    <3>. HIDE DEF y, z
    <3>1. CASE LastOf(i) = Len(import[i].items)
      BY <2>2, <2>3, <3>1 DEF y, z
    <3>2. CASE LastOf(i) # Len(import[i].items)
      BY <2>2, <2>3, <3>2 DEF y, z
    <3>. QED BY <3>1, <3>2
  <2>. QED BY <1>0, <2>1, <2>4, <2>5, ImportRows DEF Page
<1>2. CASE ChunkFails(i)
  BY <1>0, <1>2, NothingCounted, ImportRows DEF ChunkFails, Page, Steps
<1>3. CASE ImportDone(i)
  BY <1>0, <1>3, NothingCounted, SavedKept, ImportRows DEF ImportDone, Page, Steps
<1>. QED BY <1>1, <1>2, <1>3 DEF ImportStep

\* The page is opened again.
LEMMA ReopenedRows == ASSUME RowsInv, LeaveAndReturn \/ Reload PROVE RowsInv'
<1>1. Reopened
  BY DEF LeaveAndReturn, Reload
<1>2. Page'
  BY <1>1 DEF Reopened, Page, Steps, RowsInv
<1>3. Previews'
  BY <1>1 DEF Reopened, Previews, IsPreview, IsSeq
<1>4. Kept(history') /\ Kept(stored')
  BY <1>1 DEF Reopened, RowsInv, Counts
<1>5. DOMAIN import' = Imports /\ \A i \in Imports : Counted(import'[i])
  <2>1. CASE LeaveAndReturn
    <3>1. import' = [i \in Imports |-> [import[i] EXCEPT !.attached = FALSE]]
      BY <2>1 DEF LeaveAndReturn
    <3>2. ASSUME NEW x, Counted(x) PROVE Counted([x EXCEPT !.attached = FALSE])
      <4> DEFINE y == [x EXCEPT !.attached = FALSE]
      <4>1. /\ DOMAIN y = DOMAIN x /\ y.pc = x.pc /\ y.items = x.items /\ y.total = x.total
            /\ y.next = x.next /\ y.ok = x.ok /\ y.bad = x.bad /\ y.before = x.before
        BY <3>2 DEF Counted
      <4>. HIDE DEF y
      <4>2. Counted(y)
        BY <3>2, <4>1 DEF Counted
      <4>. QED BY <4>2 DEF y
    <3>. QED BY <3>1, <3>2 DEF RowsInv, Counts
  <2>2. CASE Reload
    BY <2>2, NothingCounted DEF Reload
  <2>. QED BY <2>1, <2>2
<1>6. Counts'
  BY <1>4, <1>5 DEF Counts, Imports
<1>. QED BY <1>2, <1>3, <1>6 DEF RowsInv

\* Every step, action by action.
LEMMA RowsInductive == RowsInv /\ [Next]_vars => RowsInv'
<1> SUFFICES ASSUME RowsInv, [Next]_vars PROVE RowsInv'
  OBVIOUS
<1>1. CASE UNCHANGED vars
  <2>1. UNCHANGED <<step, selected, preview, processing, summary, history, stored, reading,
                    import, started>>
    BY <1>1 DEF vars, page
  <2>. QED BY <2>1 DEF RowsInv, Page, Previews, Counts, Kept
<1>2. CASE \E i \in Imports : ProcessImport(i) \/ ImportStep(i)
  BY <1>2, StartRows, ImportStepRows
<1>3. CASE LeaveAndReturn \/ Reload
  BY <1>3, ReopenedRows
<1>. QED BY <1>1, <1>2, <1>3, FileRows, ButtonRows DEF Next

-----------------------------------------------------------------------------
(* The state of the page stays well formed: the screens, the status of     *)
(* every row of a preview, the length of the history and the position of   *)
(* every import (AdminProductBulkImport.tsx).                              *)
THEOREM ImportTypes == Spec => []TypeOK
<1>1. RowsInv => TypeOK
  <2> SUFFICES ASSUME RowsInv PROVE TypeOK
    OBVIOUS
  <2>1. \A k \in DOMAIN preview : preview[k].status \in {"matched", "new", "error"}
    BY DEF RowsInv, Previews, IsPreview, Statuses
  <2>2. \A i \in Imports : /\ import[i].pc \in {"none", "post", "categories"}
                            /\ import[i].next <= Len(import[i].items) + 1
    <3>1. \A i \in Imports : Counted(import[i])
      BY DEF RowsInv, Counts
    <3>2. ASSUME NEW x, Counted(x)
          PROVE  x.pc \in {"none", "post", "categories"} /\ x.next <= Len(x.items) + 1
      <4>1. Len(x.items) \in Nat /\ x.next \in 1 .. Len(x.items) + 1
        BY <3>2 DEF Counted, IsSeq
      <4>. QED BY <3>2, <4>1 DEF Counted
    <3>. QED BY <3>1, <3>2
  <2>. QED BY <2>1, <2>2 DEF RowsInv, Page, Counts, Kept, TypeOK
<1>. QED BY <1>1, InitRows, RowsInductive, PTL DEF Spec

(* An entry of the history accounts for every row of its preview, for any  *)
(* file, size of a chunk and rows that fail: the rows of every chunk are   *)
(* counted once, imported or not, and the skipped ones are added at the    *)
(* end (handleProcessImport, saveHistory).                                 *)
THEOREM EntriesAddUp == Spec => []EntriesComplete
<1>1. RowsInv => EntriesComplete
  BY LenProperties DEF RowsInv, Counts, Kept, Entries, EntriesComplete
<1>. QED BY <1>1, InitRows, RowsInductive, PTL DEF Spec

-----------------------------------------------------------------------------
(* The products of the server *)

\* A product whose row had a code has that code as its id.
CodeIsId == \A p \in DOMAIN catalog : catalog[p].code # None => p = catalog[p].code

\* Of some positions one is the last.
LEMMA LastPosition ==
  ASSUME NEW n \in Nat, NEW K \in SUBSET (1 .. n), K # {}
  PROVE  \E k \in K : \A j \in K : j <= k
<1> DEFINE T == {n - k : k \in K}
           R == OpToRel(<, Nat)
<1>1. T \subseteq Nat /\ T # {}
  <2>1. \A k \in K : n - k \in Nat
    OBVIOUS
  <2>. QED BY <2>1
<1>2. IsWellFoundedOn(R, Nat)
  BY NatLessThanWellFounded
<1>3. \A x, y \in Nat : <<y, x>> \in R <=> y < x
  BY DEF OpToRel
<1>. HIDE DEF T, R
<1>4. PICK x \in T : \A y \in T : ~ (<<y, x>> \in R)
  BY <1>1, <1>2, WFMin
<1>5. PICK k \in K : x = n - k
  BY <1>4 DEF T
<1>6. ASSUME NEW j \in K PROVE j <= k
  <2>1. n - j \in T
    BY DEF T
  <2>2. ~ (n - j < n - k)
    BY <1>1, <1>3, <1>4, <1>5, <2>1
  <2>. QED BY <2>2
<1>. QED BY <1>6

\* A transaction writes a coded row under its code, whichever rows fail.
LEMMA CommitCodes ==
  ASSUME CodeIsId, NEW ops, IsSeq(ops), NEW failed, Commit(ops, failed) PROVE CodeIsId'
<1> DEFINE made  == {k \in DOMAIN ops \ failed : ops[k].status # "matched"}
           id(k) == ProductId(ops[k], Cardinality(DOMAIN catalog)
                                        + Cardinality({j \in made : j <= k /\ ops[j].code = None}))
           last(p) == CHOOSE k \in made : id(k) = p /\ \A j \in made : id(j) = p => j <= k
           ids == {id(k) : k \in made}
<1>1. catalog' = [p \in DOMAIN catalog \cup ids |->
                    IF p \in ids THEN [name |-> ops[last(p)].name, code |-> ops[last(p)].code]
                    ELSE catalog[p]]
  BY DEF Commit
<1>2. Len(ops) \in Nat /\ made \subseteq 1 .. Len(ops)
  BY LenProperties DEF IsSeq
<1>3. \A k \in made : ops[k].code # None => id(k) = ops[k].code
  BY DEF ProductId
<1>. HIDE DEF made, id
<1>4. ASSUME NEW p \in ids PROVE last(p) \in made /\ id(last(p)) = p
  <2> DEFINE K == {k \in made : id(k) = p}
  <2>1. K \in SUBSET (1 .. Len(ops)) /\ K # {}
    BY <1>2, <1>4
  <2>2. PICK k \in K : \A j \in K : j <= k
    <3>. HIDE DEF K
    <3>. QED BY <1>2, <2>1, LastPosition
  <2>3. k \in made /\ id(k) = p /\ \A j \in made : id(j) = p => j <= k
    BY <2>2
  <2>. QED BY <2>3
<1>. HIDE DEF last, ids
<1>5. ASSUME NEW p \in DOMAIN catalog', catalog'[p].code # None PROVE p = catalog'[p].code
  <2>1. CASE p \in ids
    <3>1. catalog'[p].code = ops[last(p)].code
      BY <1>1, <2>1
    <3>. QED BY <1>3, <1>4, <1>5, <2>1, <3>1
  <2>2. CASE p \notin ids
    BY <1>1, <1>5, <2>2 DEF CodeIsId
  <2>. QED BY <2>1, <2>2
<1>. QED BY <1>5 DEF CodeIsId

\* Only a request that is committed changes the products.
LEMMA CodesInductive == RowsInv /\ CodeIsId /\ [Next]_vars => CodeIsId'
<1> SUFFICES ASSUME RowsInv, CodeIsId, [Next]_vars PROVE CodeIsId'
  OBVIOUS
<1>1. CASE UNCHANGED catalog
  BY <1>1 DEF CodeIsId
<1>2. ASSUME NEW i \in Imports, ChunkAnswered(i) \/ ChunkFails(i) PROVE CodeIsId'
  <2>1. IsSeq(Chunk(i))
    BY <1>2, ChunkRows DEF ChunkAnswered, ChunkFails
  <2>2. CASE ChunkAnswered(i)
    <3>1. \E failed : Commit(Chunk(i), failed)
      BY <2>2 DEF ChunkAnswered
    <3>. QED BY <2>1, <3>1, CommitCodes
  <2>3. CASE ChunkFails(i)
    BY <1>1, <2>1, <2>3, CommitCodes DEF ChunkFails
  <2>. QED BY <1>2, <2>2, <2>3
<1>3. \/ UNCHANGED catalog
      \/ \E i \in Imports : ChunkAnswered(i) \/ ChunkFails(i)
  <2>1. CASE UNCHANGED vars
    BY <2>1 DEF vars
  <2>2. CASE Next
    BY <2>2 DEF Next, ProductsLoaded, SelectFile, ParseDone, ParseFails, Go, Discard,
                ImportAnother, DeleteHistory, DeleteRow, ProcessImport, ImportStep, ImportDone,
                LeaveAndReturn, Reload, Reopened
  <2>. QED BY <2>1, <2>2
<1>. QED BY <1>1, <1>2, <1>3

(* A row with a product code makes at most one product, for any files and  *)
(* chunks, by repeated rows, repeated imports, lost answers and imports at *)
(* the same time: the code is the id (bulk_products).                      *)
THEOREM CodedRowsAreOne == Spec => []CodedRowOnce
<1>1. Init => CodeIsId
  BY DEF Init, NoProducts, CodeIsId
<1>2. CodeIsId => CodedRowOnce
  BY DEF CodeIsId, CodedRowOnce
<1>. QED BY <1>1, <1>2, InitRows, RowsInductive, CodesInductive, PTL DEF Spec
=============================================================================
