---------------------------- MODULE ProductImport ----------------------------
(***************************************************************************)
(* The bulk import of products: the page AdminProductBulkImport.tsx, the   *)
(* parser productImportHandler.ts and the endpoint bulk_products.          *)
(*                                                                         *)
(* The page parses a file, compares its rows with the products the browser *)
(* has fetched, and posts them in chunks.  Its tabs stay usable while a    *)
(* file is read and while chunks are posted, so files, previews and        *)
(* imports overlap.  An action is the code between two awaits.             *)
(***************************************************************************)
EXTENDS Naturals, FiniteSets, Sequences, SequencesExt

CONSTANTS
    Files,         \* spreadsheets the user may choose
    Rows,          \* Rows[f] is the sequence of [name, code] of file f
    ChunkSize,     \* operations in one request
    MaxHistory,    \* entries kept in bulkImportHistory
    MaxStarted,    \* imports the user starts (a bound of the model)
    None

ASSUME ImportConstants ==
    /\ ChunkSize \in Nat \ {0} /\ MaxHistory \in Nat \ {0}
    /\ MaxStarted \in Nat /\ None \notin Files
    /\ \A f \in Files : Rows[f] \in Seq({Rows[f][i] : i \in DOMAIN Rows[f]})

VARIABLES
    step,        \* the screen of the page
    selected,    \* selectedFile
    preview,     \* rows with what the import would do with each
    processing,  \* the import buttons are disabled
    summary,     \* processSummary is there
    history,     \* bulkHistory
    stored,      \* bulkImportHistory in localStorage
    reading,     \* files being parsed, with the preview that will come of them
    import,      \* the imports in progress
    started,     \* how many were started
    products,    \* the products the browser knows
    catalog      \* the products of the server, by id

\* The i-th import that was started.
Imports == 1 .. MaxStarted

page == <<step, selected, preview, processing, summary, history>>
vars == <<page, stored, reading, import, started, products, catalog>>

-----------------------------------------------------------------------------
(* Parsing and matching *)

\* The members of a set of positions, the first one first.
InOrder(S) == [k \in 1 .. Cardinality(S) |->
                 CHOOSE i \in S : Cardinality({j \in S : j <= i}) = k]

NoProducts == [id \in {} |-> None]

\* A row is dropped when an earlier one has its code or, if it has no code,
\* when an earlier one without a code has its name.
Repeated(f, i) ==
    \E j \in 1 .. i - 1 :
        /\ Rows[f][j].name # None
        /\ Rows[f][j].code = Rows[f][i].code
        /\ Rows[f][i].code # None \/ Rows[f][j].name = Rows[f][i].name

\* findSimilarProducts: by code, else by name.
Matches(row, known) == \/ row.code # None /\ row.code \in DOMAIN known
                       \/ \E id \in DOMAIN known : known[id].name = row.name

Item(f, i, known) ==
    LET row == Rows[f][i] IN
    [name |-> row.name, code |-> row.code,
     status |-> IF row.name = None THEN "error"
                ELSE IF Matches(row, known) THEN "matched" ELSE "new"]

GenerateImportPreview(f, known) ==
    LET kept == InOrder({i \in 1 .. Len(Rows[f]) :
                           Rows[f][i].name = None \/ ~Repeated(f, i)})
    IN [k \in DOMAIN kept |-> Item(f, kept[k], known)]

Valid(item) == item.status \in {"matched", "new"}

ValidItems(items) ==
    LET valid == InOrder({k \in 1 .. Len(items) : Valid(items[k])})
    IN [k \in DOMAIN valid |-> items[valid[k]]]

-----------------------------------------------------------------------------
(* The endpoint.  One request is one transaction: a row may fail, the      *)
(* others are committed.                                                   *)

\* (mutant) The id that came with the row is not used.
FreshId(item, n) == <<"uuid", n>>

\* An imported code is the id; a row without one gets a new uuid.
ProductId(item, n) == IF item.code # None THEN item.code ELSE <<"uuid", n>>

\* Create inserts, or overwrites the product that has the id already, be it
\* one of an earlier row; an update never sends the name.
Commit(ops, failed) ==
    LET made  == {k \in DOMAIN ops \ failed : ops[k].status # "matched"}
        id(k) == ProductId(ops[k], Cardinality(DOMAIN catalog)
                                     + Cardinality({j \in made : j <= k /\ ops[j].code = None}))
        last(p) == CHOOSE k \in made : id(k) = p /\ \A j \in made : id(j) = p => j <= k
        ids == {id(k) : k \in made}
    IN catalog' = [p \in DOMAIN catalog \cup ids |->
                     IF p \in ids THEN [name |-> ops[last(p)].name, code |-> ops[last(p)].code]
                     ELSE catalog[p]]

-----------------------------------------------------------------------------
NoImport == [pc |-> "none", items |-> <<>>, total |-> 0, next |-> 1, ok |-> 0, bad |-> 0,
             attached |-> FALSE, before |-> <<>>]

Busy(i)    == import[i].pc # "none"
Posting(i) == import[i].pc = "post"
Attached(i) == Busy(i) /\ import[i].attached

Init ==
    /\ step = "upload" /\ selected = None /\ preview = <<>>
    /\ processing = FALSE /\ summary = FALSE
    /\ history = <<>> /\ stored = <<>>
    /\ reading = {} /\ import = [i \in Imports |-> NoImport] /\ started = 0
    /\ products = NoProducts /\ catalog = NoProducts

\* fetchProducts of the start; a later one asks again only when forced.
ProductsLoaded ==
    /\ products = NoProducts
    /\ products' = catalog
    /\ UNCHANGED <<page, stored, reading, import, started, catalog>>

-----------------------------------------------------------------------------
(* The file *)

\* handleFileSelect up to its await, by the input or by a drop.
SelectFile(f) ==
    /\ step = "upload" /\ \A r \in reading : r.file # f
    /\ selected' = f /\ preview' = <<>> /\ summary' = FALSE
    /\ reading' = reading \cup {[file |-> f, preview |-> GenerateImportPreview(f, products)]}
    /\ UNCHANGED <<step, processing, history, stored, import, started, products, catalog>>

\* (mutant) The page is left on the results when their file is replaced.
ParseDoneStays(r) ==
    /\ r \in reading
    /\ reading' = reading \ {r}
    /\ preview' = r.preview /\ summary' = FALSE
    /\ UNCHANGED <<step, selected, processing, history, stored, import, started,
                   products, catalog>>

\* The rest of it: whatever file is selected by now, and whatever the page does.
ParseDone(r) ==
    /\ r \in reading
    /\ reading' = reading \ {r}
    /\ preview' = r.preview /\ summary' = FALSE /\ step' = "preview"
    /\ UNCHANGED <<selected, processing, history, stored, import, started, products, catalog>>

ParseFails(r) ==
    /\ r \in reading
    /\ reading' = reading \ {r}
    /\ selected' = None
    /\ UNCHANGED <<step, preview, processing, summary, history, stored, import, started,
                   products, catalog>>

-----------------------------------------------------------------------------
(* The buttons *)

\* The tabs: which of them the page shows.
Tab(s) == \/ s = "upload"
          \/ s = "preview" /\ Len(preview) > 0
          \/ s = "done" /\ summary
          \/ s = "history" /\ Len(history) > 0

\* A tab, "Lihat preview lagi" of the results, or back from the history.
Go(s) ==
    /\ Tab(s) \/ (step = "done" /\ summary /\ s = "preview")
    /\ step' = s
    /\ UNCHANGED <<selected, preview, processing, summary, history, stored, reading, import,
                   started, products, catalog>>

\* The cross beside the file, "Kembali" of the preview.
Discard ==
    /\ (step = "upload" /\ selected # None) \/ step = "preview"
    /\ step' = "upload" /\ selected' = None /\ preview' = <<>>
    /\ UNCHANGED <<processing, summary, history, stored, reading, import, started,
                   products, catalog>>

\* "Import file lain" of the results.
ImportAnother ==
    /\ step = "done" /\ summary
    /\ step' = "upload" /\ selected' = None /\ preview' = <<>> /\ summary' = FALSE
    /\ UNCHANGED <<processing, history, stored, reading, import, started, products, catalog>>

DeleteRow(k) ==
    /\ step = "preview" /\ k \in DOMAIN preview
    /\ preview' = RemoveAt(preview, k)
    /\ UNCHANGED <<step, selected, processing, summary, history, stored, reading, import,
                   started, products, catalog>>

DeleteHistory ==
    /\ step = "history" /\ Len(history) > 0
    /\ history' = <<>> /\ stored' = <<>>
    /\ UNCHANGED <<step, selected, preview, processing, summary, reading, import, started,
                   products, catalog>>

-----------------------------------------------------------------------------
(* An import.  handleProcessImport keeps the preview and the history of    *)
(* the moment it was clicked until it ends.                                *)

\* (mutant) The button is not disabled.
CanAlwaysProcess == step = "preview"

CanProcess == step = "preview" /\ ~processing

ProcessImport(i) ==
    LET valid == ValidItems(preview) IN
    /\ i = started + 1 /\ CanProcess /\ Len(valid) > 0
    /\ import' = [import EXCEPT ![i] =
           [pc |-> "post", items |-> valid, total |-> Len(preview), next |-> 1,
            ok |-> 0, bad |-> 0, attached |-> TRUE, before |-> history]]
    /\ started' = i
    /\ processing' = TRUE /\ step' = "processing"
    /\ UNCHANGED <<selected, preview, summary, history, stored, reading, products, catalog>>

Least(a, b) == IF a < b THEN a ELSE b
LastOf(i) == Least(import[i].next + ChunkSize - 1, Len(import[i].items))
Chunk(i)  == SubSeq(import[i].items, import[i].next, LastOf(i))

\* (mutant) A row that fails is skipped without being counted.
CountSucceeded(i, failed) ==
    [import[i] EXCEPT !.ok = @ + Len(Chunk(i)) - Cardinality(failed), !.next = LastOf(i) + 1]

\* What the answer says of a chunk whose rows in failed had an error.
CountRows(i, failed) ==
    [import[i] EXCEPT !.ok = @ + Len(Chunk(i)) - Cardinality(failed),
                      !.bad = @ + Cardinality(failed), !.next = LastOf(i) + 1]

\* A chunk is committed and answered.  After the last one the button is
\* enabled again, and the categories are saved: another await.
ChunkAnswered(i) ==
    /\ Posting(i)
    /\ \E failed \in SUBSET DOMAIN Chunk(i) :
        LET counted == CountRows(i, failed) IN
        /\ Commit(Chunk(i), failed)
        /\ IF LastOf(i) = Len(import[i].items)
           THEN /\ import' = [import EXCEPT ![i] = [counted EXCEPT !.pc = "categories"]]
                /\ processing' = (processing /\ ~import[i].attached)
           ELSE /\ import' = [import EXCEPT ![i] = counted]
                /\ UNCHANGED processing
    /\ UNCHANGED <<step, selected, preview, summary, history, stored, reading, started, products>>

\* The request fails, before it was committed or after: the import stops, and
\* the chunks before it stay.
ChunkFails(i) ==
    /\ Posting(i)
    /\ \/ Commit(Chunk(i), {})
       \/ UNCHANGED catalog
    /\ import' = [import EXCEPT ![i] = NoImport]
    /\ IF import[i].attached
       THEN processing' = FALSE /\ step' = "preview"
       ELSE UNCHANGED <<processing, step>>
    /\ UNCHANGED <<selected, preview, summary, history, stored, reading, started, products>>

Entry(i) == [ok |-> import[i].ok, total |-> import[i].total,
             bad |-> import[i].bad + import[i].total - Len(import[i].items)]

\* (mutant) Every entry is kept.
SavedAll(i) == <<Entry(i)>> \o import[i].before

\* saveHistory: the new entry goes before the history of the click.
Saved(i) == LET all == <<Entry(i)>> \o import[i].before IN
            SubSeq(all, 1, Least(Len(all), MaxHistory))

\* A page that was left is not shown again, but its code goes on.
ImportDone(i) ==
    /\ import[i].pc = "categories"
    /\ import' = [import EXCEPT ![i] = NoImport]
    /\ stored' = Saved(i)
    /\ IF import[i].attached
       THEN history' = Saved(i) /\ summary' = TRUE /\ step' = "done"
       ELSE UNCHANGED <<history, summary, step>>
    /\ UNCHANGED <<selected, preview, processing, reading, started, products, catalog>>

-----------------------------------------------------------------------------
(* The page is left and opened again. *)

Reopened ==
    /\ step' = "upload" /\ selected' = None /\ preview' = <<>>
    /\ processing' = FALSE /\ summary' = FALSE
    /\ history' = stored /\ reading' = {}
    /\ UNCHANGED <<stored, started, catalog>>

\* Within the application: the imports go on without a page, and another page
\* may have fetched the products again.
LeaveAndReturn ==
    /\ Reopened
    /\ import' = [i \in Imports |-> [import[i] EXCEPT !.attached = FALSE]]
    /\ products' \in {products, catalog}

\* By the browser: everything in memory is gone, an import ends between chunks.
Reload ==
    /\ Reopened
    /\ import' = [i \in Imports |-> NoImport]
    /\ products' = NoProducts

ImportStep(i) == ChunkAnswered(i) \/ ChunkFails(i) \/ ImportDone(i)

Next == \/ ProductsLoaded
        \/ \E f \in Files : SelectFile(f)
        \/ \E r \in reading : ParseDone(r) \/ ParseFails(r)
        \/ \E s \in {"upload", "preview", "done", "history"} : Go(s)
        \/ Discard \/ ImportAnother \/ DeleteHistory
        \/ \E k \in 1 .. Len(preview) : DeleteRow(k)
        \/ \E i \in Imports : ProcessImport(i) \/ ImportStep(i)
        \/ LeaveAndReturn \/ Reload

Spec == Init /\ [][Next]_vars

-----------------------------------------------------------------------------
Steps == {"upload", "preview", "processing", "done", "history"}

(* Types of the state. *)
TypeOK ==
    /\ step \in Steps /\ selected \in Files \cup {None}
    /\ processing \in BOOLEAN /\ summary \in BOOLEAN
    /\ \A k \in DOMAIN preview : preview[k].status \in {"matched", "new", "error"}
    /\ Len(history) <= MaxHistory /\ Len(stored) <= MaxHistory
    /\ \A i \in Imports : /\ import[i].pc \in {"none", "post", "categories"}
                          /\ import[i].next <= Len(import[i].items) + 1
    /\ started \in 0 .. MaxStarted

(* No screen is a dead end: the results are shown only when there are      *)
(* some, and the progress only while an import of this page will end it.   *)
NoDeadEnd == /\ step = "done" => summary
             /\ step = "processing" => \E i \in Imports : Attached(i)

(* An entry of the history accounts for every row of its preview: imported *)
(* or not, over all chunks, errors and rows that were skipped.             *)
EntriesComplete == \A k \in DOMAIN stored : stored[k].ok + stored[k].bad = stored[k].total

(* A row with a product code makes at most one product, however often it   *)
(* is imported again, after an error, a lost answer or by two imports.     *)
CodedRowOnce ==
    \A p, q \in DOMAIN catalog :
        catalog[p].code # None /\ catalog[p].code = catalog[q].code => p = q

(* The page posts one import at a time, however files are parsed, tabs     *)
(* changed and imports finished meanwhile, and the buttons are disabled    *)
(* (AdminProductBulkImport.tsx:1686) exactly while it posts its chunks: an *)
(* error does not leave them disabled, and an older import that ends does  *)
(* not enable them.  Imports of a page that was left are not counted.      *)
OneImport ==
    /\ Cardinality({i \in Imports : Attached(i) /\ Posting(i)}) <= 1
    /\ processing <=> \E i \in Imports : Attached(i) /\ Posting(i)
=============================================================================
