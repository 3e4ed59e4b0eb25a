------------------------------ MODULE CodeIndex ------------------------------
(***************************************************************************)
(* The code graph and the embedding index of pirs-graph: a row per source  *)
(* file and a vector per symbol in one SQLite file (store.rs), refreshed   *)
(* by every graph build (lib.rs, LazyGraph) and by the background indexer  *)
(* (bg_index.rs) of every pirs process, and made stale by edits, the       *)
(* agent's own, after which a hook in main.rs may run, and everybody       *)
(* else's.                                                                 *)
(*                                                                         *)
(* One source file stands for all: refresh treats each by itself.  What is *)
(* between two awaits, file reads or transactions is one action.           *)
(***************************************************************************)
EXTENDS Naturals, FiniteSets

CONSTANTS
  Versions,     \* texts the file may have
  Gone,         \* no such file
  SymbolsOf,    \* the start bytes of the symbols in a text
  Indexers,     \* background indexers, each of a process of its own
  ModelOf,      \* the embedding model of an indexer
  Readers,      \* the calls of one agent, or of a sub-agent, on one LazyGraph
  Hooked,       \* those of the main agent, if it has extensions
  Crews,        \* which of them a behaviour has
  Batch,        \* symbols embedded per iteration (64)
  MaxEdits      \* bound: edits of the file

ASSUME IndexAssumption ==
  /\ Gone \notin Versions /\ Versions # {}
  /\ SymbolsOf \in [Versions -> SUBSET Nat]
  /\ Indexers \cap Readers = {} /\ Hooked \subseteq Readers
  /\ Crews \subseteq SUBSET (Indexers \cup Readers)
  /\ Batch \in Nat \ {0} /\ MaxEdits \in Nat

VARIABLES
  disk,       \* the file: its text, its size and mtime as one stamp, and
              \* whether the text has changed under that stamp
  row,        \* the file's row and symbols in the store, or NoRow
  vectors,    \* embeddings: by start byte
  space,      \* embed_model: the model the vectors are of
  doing,      \* where an indexer or a call is
  found,      \* what its refresh has read
  work,       \* the batch of an indexer, the graph a call has built
  graph,      \* LazyGraph::state: the text it was built from, if any
  editing,    \* calls that have written the file and not yet invalidated
  edits,      \* edits so far
  overtaken,  \* a batch was stored over a row or a model not its own (for checking)
  lapses      \* how the graph may have come to be older than the file, since
              \* it was last invalidated (for checking)

storeVars == <<row, vectors, space, overtaken>>
indexVars == <<disk, storeVars, doing, found, work, graph, editing, edits, lapses>>

Actors == Indexers \cup Readers
Offsets == UNION {SymbolsOf[t] : t \in Versions}
NoRow == [stamp |-> 0, text |-> Gone]
NoVector == [laid |-> Gone, text |-> Gone, model |-> "none"]
NoVectors == [o \in Offsets |-> NoVector]
NoGraph == {}
Unread == [stored |-> 0, stamp |-> 0, text |-> Gone]
Idle == [row |-> NoRow, at |-> {}, text |-> Gone]
Symbols(text) == IF text = Gone THEN {} ELSE SymbolsOf[text]

IndexBegins(crew) ==
  /\ disk = [text |-> CHOOSE t \in Versions : TRUE, stamp |-> 1, blurred |-> FALSE]
  /\ row = NoRow /\ vectors = NoVectors /\ space = "none"
  /\ doing = [x \in Actors |-> IF x \notin crew THEN "off"
                               ELSE IF x \in Indexers THEN "refresh" ELSE "idle"]
  /\ found = [x \in Actors |-> Unread]
  /\ work = [x \in Actors |-> Idle]
  /\ graph = NoGraph /\ editing = {} /\ edits = 0
  /\ overtaken = FALSE /\ lapses = {}

IndexInit == \E crew \in Crews : IndexBegins(crew)

\* A call that is building a graph.
Building(x) == x \in Readers /\ doing[x] \in {"refresh", "walk", "parse", "commit",
                                              "load", "put"}
BeingBuilt == \E x \in Readers : Building(x)

\* What a graph that is being built now misses.
Raced(missed) == IF missed /\ BeingBuilt THEN {"race"} ELSE {}

Passes(x, from, to) == doing[x] = from /\ doing' = [doing EXCEPT ![x] = to]

-----------------------------------------------------------------------------
(* GraphStore::refresh *)

\* What follows a refresh: a graph is loaded, or the vectors are looked at.
Refreshed(x) == IF x \in Readers THEN "load" ELSE "model"
Forget(x) == found' = [found EXCEPT ![x] = Unread]

\* The stamp of the stored row is read before the transaction is begun ...
ReadStored(x) ==
  /\ Passes(x, "refresh", "walk")
  /\ found' = [found EXCEPT ![x].stored = row.stamp]
  /\ UNCHANGED <<disk, storeVars, work, graph, editing, edits, lapses>>

\* ... and compared with the file's.
Walk(x) ==
  /\ \/ /\ disk.text = Gone /\ found[x].stored # 0
        /\ Passes(x, "walk", "commit") /\ UNCHANGED found
     \/ /\ IF disk.text = Gone THEN found[x].stored = 0
           ELSE found[x].stored = disk.stamp
        /\ Passes(x, "walk", Refreshed(x)) /\ Forget(x)
     \/ /\ disk.text # Gone /\ found[x].stored # disk.stamp
        /\ Passes(x, "walk", "parse")
        /\ found' = [found EXCEPT ![x].stamp = disk.stamp]
  /\ UNCHANGED <<disk, storeVars, work, graph, editing, edits, lapses>>

\* A file that cannot be read by now has no symbols.
ParseFile(x) ==
  /\ Passes(x, "parse", "commit")
  /\ found' = [found EXCEPT ![x].text = disk.text]
  /\ UNCHANGED <<disk, storeVars, work, graph, editing, edits, lapses>>

\* Variant: the vectors of a file that is parsed again are kept.
CommitKeepsVectors(x) ==
  /\ Passes(x, "commit", Refreshed(x))
  /\ row' = [stamp |-> found[x].stamp, text |-> found[x].text]
  /\ overtaken' = FALSE /\ lapses' = lapses \cup Raced(row'.text # disk.text)
  /\ Forget(x) /\ UNCHANGED <<disk, vectors, space, work, graph, editing, edits>>

\* The file's row and symbols are replaced, or dropped with the file, and its
\* vectors with them.
Commit(x) ==
  /\ Passes(x, "commit", Refreshed(x))
  /\ row' = [stamp |-> found[x].stamp, text |-> found[x].text]
  /\ vectors' = NoVectors /\ overtaken' = FALSE
  /\ lapses' = lapses \cup Raced(row'.text # disk.text)
  /\ Forget(x) /\ UNCHANGED <<disk, space, work, graph, editing, edits>>

RefreshStep(x) == ReadStored(x) \/ Walk(x) \/ ParseFile(x) \/ Commit(x)

-----------------------------------------------------------------------------
(* The background indexer: BackgroundIndexer::tick, after its refresh. *)

\* ensure_model: vectors of another model are dropped.
EnsureModel(x) ==
  /\ Passes(x, "model", "rows")
  /\ IF space = ModelOf[x] THEN UNCHANGED <<vectors, space, overtaken>>
     ELSE vectors' = NoVectors /\ space' = ModelOf[x] /\ overtaken' = FALSE
  /\ UNCHANGED <<disk, row, found, work, graph, editing, edits, lapses>>

\* pending_embeddings: the symbols without a vector, the first batch of them ...
Pending(x) ==
  LET bare == {o \in Symbols(row.text) : vectors[o] = NoVector} IN
  /\ \/ bare = {} /\ Passes(x, "rows", "caught up") /\ UNCHANGED work
     \/ /\ Passes(x, "rows", "source")
        /\ \E first \in (SUBSET bare) \ {{}} :
             /\ first = bare \/ Cardinality(first) = Batch
             /\ Cardinality(first) <= Batch
             /\ work' = [work EXCEPT ![x] = [row |-> row, at |-> first, text |-> Gone]]
  /\ UNCHANGED <<disk, storeVars, found, graph, editing, edits, lapses>>

\* ... and their source, cut out of the file as it is now.
ReadSource(x) ==
  /\ Passes(x, "source", "embed")
  /\ work' = [work EXCEPT ![x].text = disk.text]
  /\ UNCHANGED <<disk, storeVars, found, graph, editing, edits, lapses>>

\* The service has embedded the batch, or what it could of it; the vectors go
\* where the symbols were.
StoreVectors(x) ==
  /\ Passes(x, "embed", "refresh")
  /\ \E kept \in SUBSET work[x].at :
       /\ vectors' = [o \in Offsets |->
            IF o \notin kept THEN vectors[o]
            ELSE [laid |-> work[x].row.text, text |-> work[x].text,
                  model |-> ModelOf[x]]]
       /\ overtaken' =
            (overtaken \/ (kept # {} /\ <<work[x].row, ModelOf[x]>> # <<row, space>>))
  /\ work' = [work EXCEPT ![x] = Idle]
  /\ UNCHANGED <<disk, row, space, found, graph, editing, edits, lapses>>

\* 30 seconds after it caught up, or after its process was killed and started
\* again, with nothing lost but the batch.
StartsOver(x) ==
  /\ doing[x] \notin {"off", "refresh"} /\ doing' = [doing EXCEPT ![x] = "refresh"]
  /\ work' = [work EXCEPT ![x] = Idle] /\ Forget(x)
  /\ UNCHANGED <<disk, storeVars, graph, editing, edits, lapses>>

IndexerStep(x) ==
  RefreshStep(x) \/ EnsureModel(x) \/ Pending(x) \/ ReadSource(x)
  \/ StoreVectors(x) \/ StartsOver(x)

-----------------------------------------------------------------------------
(* Calls of tools on the LazyGraph *)

\* LazyGraph::get finds no graph and builds one.
GetBegins(x) ==
  /\ graph = NoGraph /\ Passes(x, "idle", "refresh")
  /\ UNCHANGED <<disk, storeVars, found, work, graph, editing, edits, lapses>>

\* load_symbols, after the transaction.
LoadSymbols(x) ==
  /\ Passes(x, "load", "put") /\ work' = [work EXCEPT ![x].text = row.text]
  /\ UNCHANGED <<disk, storeVars, found, graph, editing, edits, lapses>>

\* The store cannot be opened, or another process holds it too long: a full
\* parse of the tree instead.
FullParse(x) ==
  /\ \/ Passes(x, "refresh", "put")
     \/ Passes(x, "commit", "put")
  /\ work' = [work EXCEPT ![x].text = disk.text] /\ Forget(x)
  /\ UNCHANGED <<disk, storeVars, graph, editing, edits, lapses>>

\* The graph that was built becomes the one that is cached.
GetEnds(x) ==
  /\ Passes(x, "put", IF x \in editing THEN "invalidate" ELSE "idle")
  /\ graph' = {work[x].text} /\ work' = [work EXCEPT ![x] = Idle]
  /\ UNCHANGED <<disk, storeVars, found, editing, edits, lapses>>

\* The file gets another text, or goes.  Within a second its stamp may stay.
Write(sameStamp) ==
  /\ edits < MaxEdits /\ edits' = edits + 1
  /\ \E t \in (Versions \cup {Gone}) \ {disk.text} :
       disk' = [text |-> t,
                stamp |-> IF sameStamp THEN disk.stamp ELSE disk.stamp + 1,
                blurred |-> sameStamp]
  /\ sameStamp => disk.text # Gone /\ disk'.text # Gone

\* An edit that the graph is not told of: if there is one, it is passed over.
PassesOver ==
  lapses' = lapses \cup (IF graph = NoGraph THEN {} ELSE {"unheeded"}) \cup Raced(TRUE)

\* An edit tool has written the file.  Then the after-hook runs and looks at the
\* graph, or it does not: a sub-agent or an agent without extensions has none,
\* and it leaves out errors, results without a path and rename_symbol.
EditFile(x) ==
  /\ (\E same \in BOOLEAN : Write(same)) /\ disk'.text # Gone
  /\ \/ /\ x \in Hooked /\ Passes(x, "idle", "hook")
        /\ editing' = editing \cup {x} /\ UNCHANGED lapses
     \/ /\ doing[x] = "idle" /\ PassesOver
        /\ UNCHANGED <<doing, editing>>
  /\ UNCHANGED <<storeVars, found, work, graph>>

HookGets(x) ==
  /\ Passes(x, "hook", IF graph = NoGraph THEN "refresh" ELSE "invalidate")
  /\ UNCHANGED <<disk, storeVars, found, work, graph, editing, edits, lapses>>

\* ... and makes it build again.
Invalidate(x) ==
  /\ Passes(x, "invalidate", "idle") /\ graph' = NoGraph
  /\ editing' = editing \ {x}
  /\ lapses' = Raced(TRUE)
  /\ UNCHANGED <<disk, storeVars, found, work, edits>>

\* A shell command or another program edits the file: no hook.
EditOutside ==
  /\ \E x \in Actors : doing[x] # "off"
  /\ \E same \in BOOLEAN : Write(same)
  /\ PassesOver
  /\ UNCHANGED <<storeVars, doing, found, work, graph, editing>>

ReaderStep(x) ==
  RefreshStep(x) \/ GetBegins(x) \/ LoadSymbols(x) \/ FullParse(x)
  \/ GetEnds(x) \/ EditFile(x) \/ HookGets(x) \/ Invalidate(x)

IndexNext ==
  \/ \E x \in Indexers : IndexerStep(x)
  \/ \E x \in Readers : ReaderStep(x)
  \/ EditOutside

\* Nothing is under way and no indexer will wake up.
IndexOver == \A x \in Actors : doing[x] \in {"off", "idle"}

IndexSpec == IndexInit /\ [][IndexNext]_indexVars

-----------------------------------------------------------------------------
(* What the index promises. *)

\* The store holds the file as it is, as far as its stamp tells.
Current == row.stamp = disk.stamp /\ row.text # Gone /\ ~disk.blurred

\* A vector is of the text and at the place of a symbol of the row.
Fits(o) ==
  vectors[o] = NoVector
  \/ /\ o \in Symbols(row.text)
     /\ vectors[o] = [laid |-> row.text, text |-> row.text, model |-> space]

\* However refreshes, edits and batches of several processes interleave: a row
\* that has the file's stamp has its symbols, and with them only vectors of
\* them, unless a batch was stored over a later refresh (store.rs:346); and a
\* graph is of the file as it is, unless the hook of an edit is still to
\* invalidate it, an edit without the hook has passed over it, it was being built
\* while the file or its row was written, or the text changed under its stamp.
IndexIsSound ==
  /\ Current => row.text = disk.text
  /\ Current /\ ~overtaken => \A o \in Offsets : Fits(o)
  /\ graph \notin {NoGraph, {disk.text}} => lapses # {} \/ editing # {} \/ disk.blurred

\* "Edits made while it runs get re-embedded" (bg_index.rs:12-13): once the
\* indexer has caught up with a row that is current, the vectors are of it.
EditsAreReembedded ==
  (\E x \in Indexers : doing[x] = "caught up") /\ Current =>
    \A o \in Offsets : Fits(o)
=============================================================================
