------------------------------ MODULE RagIndex ------------------------------
(***************************************************************************)
(* The vector index behind Ask (deepcatalog/tools/rag_index.py): documents  *)
(* are embedded with whatever backend is configured, index_meta.json says    *)
(* which one that was, and a mismatch rebuilds the collection.               *)
(*                                                                          *)
(* Handler threads index and search; the settings route switches backends.  *)
(* Only the compatibility check and the rebuild it starts hold              *)
(* _index_lock; embedding, upserting and the final metadata write do not.   *)
(***************************************************************************)
EXTENDS Integers, FiniteSets

CONSTANTS
    Docs,        \* documents filed while the model runs, or before it
    Backends,    \* embedding backends: a provider and a model of it
    Dim,         \* the length of a backend's vectors
    Known,       \* backends whose length the program knows before it embeds
    Indexers,    \* threads that file a document and index it
    Searchers,   \* threads that answer a question
    MaxSwitches, \* bound: backend switches
    None

ASSUME NoneAssumption == None \notin Docs \cup Backends \cup Indexers \cup Searchers
ASSUME BackendsAssumption ==
    /\ Known \subseteq Backends
    /\ Dim \in [Backends -> Nat] /\ None \notin Nat
ASSUME ThreadsAssumption == Indexers \cap Searchers = {}
ASSUME SwitchesAssumption == MaxSwitches \in Nat

Threads == Indexers \cup Searchers

VARIABLES
    backend,    \* the configured embedding backend
    meta,       \* index_meta.json: the backend and length it names, the stale mark
    vectors,    \* the collection: the backend a document was embedded with
    stored,     \* rows of the documents table
    rebuilding, \* the module global _rebuilding
    lock,       \* the holder of _index_lock
    pc, doc, vec,  \* each thread's position, document and computed vectors
    todo,       \* the rebuild's documents still to embed
    target,     \* the backend the rebuild will name
    dim,        \* the length it will name, as far as it knows it yet
    marking,    \* a switch has set the backend and not yet marked the index
    switches,   \* backend switches so far
    raced,      \* history: a switch has overlapped an indexing or a search
    broken,     \* history: a rebuild has ended with an exception
    undropped,  \* history: the last rebuild failed to drop the old collection
    skipped     \* history: documents whose embedding failed

vars == <<backend, meta, vectors, stored, rebuilding, lock, pc, doc, vec, todo,
          target, dim, marking, switches, raced, broken, undropped, skipped>>
rebuild == <<rebuilding, lock, todo, target, dim>>
switch == <<backend, marking, switches, raced>>
history == <<broken, undropped, skipped>>

Pcs == {"idle", "compat", "wait", "reset", "list", "reembed", "embed",
        "upsert", "meta", "write", "query"}
RebuildPcs == {"reset", "list", "reembed"}

Typed ==
    /\ backend \in Backends
    /\ meta \in [backend : Backends \cup {None}, dim : Nat \cup {None}, stale : BOOLEAN]
    /\ vectors \in [Docs -> Backends \cup {None}]
    /\ stored \subseteq Docs
    /\ rebuilding \in BOOLEAN
    /\ lock \in Threads \cup {None}
    /\ pc \in [Threads -> Pcs]
    /\ doc \in [Threads -> Docs \cup {None}]
    /\ vec \in [Threads -> Backends \cup {None}]
    /\ todo \subseteq Docs
    /\ target \in Backends \cup {None}
    /\ dim \in Nat \cup {None}
    /\ marking \in BOOLEAN
    /\ switches \in 0..MaxSwitches
    /\ raced \in BOOLEAN
    /\ broken \in BOOLEAN
    /\ undropped \in BOOLEAN
    /\ skipped \subseteq Docs

(* A thread that indexes has its document, and vectors once it embedded it;  *)
(* only a rebuild has documents left to embed.                               *)
Equipped ==
    /\ \A a \in Indexers : pc[a] # "idle" => doc[a] \in Docs
    /\ \A a \in Threads :
        /\ pc[a] \in {"upsert", "meta", "write"} => a \in Indexers
        /\ pc[a] \in {"upsert", "query", "meta", "write"} => vec[a] \in Backends
        /\ pc[a] = "reembed" => target \in Backends
    /\ todo # {} => rebuilding

(* Types, and what each position of a thread relies on. *)
TypeOK == Typed /\ Equipped

(* The server starts over an archive that an earlier run indexed, perhaps    *)
(* with another backend, or over none. A missing file is backend None.       *)
Init ==
    /\ backend \in Backends
    /\ stored \in SUBSET Docs
    /\ \E b \in Backends :
        /\ vectors = [d \in Docs |-> IF d \in stored THEN b ELSE None]
        /\ meta = IF stored = {}
                  THEN [backend |-> None, dim |-> None, stale |-> FALSE]
                  ELSE [backend |-> b, dim |-> Dim[b], stale |-> FALSE]
    /\ rebuilding = FALSE
    /\ lock = None
    /\ pc = [a \in Threads |-> "idle"]
    /\ doc = [a \in Threads |-> None]
    /\ vec = [a \in Threads |-> None]
    /\ todo = {}
    /\ target = None
    /\ dim = None
    /\ marking = FALSE
    /\ switches = 0
    /\ raced = FALSE
    /\ broken = FALSE
    /\ undropped = FALSE
    /\ skipped = {}

Goto(a, label) == pc' = [pc EXCEPT ![a] = label]
Ends(a) ==
    /\ Goto(a, "idle")
    /\ doc' = [doc EXCEPT ![a] = None]
    /\ vec' = [vec EXCEPT ![a] = None]

Declared(b) == IF b \in Known THEN Dim[b] ELSE None

(* _index_is_compatible: lengths count where both sides know one.            *)
Compatible(m, b) ==
    /\ m.backend = b /\ ~m.stale
    /\ m.dim = None \/ Declared(b) = None \/ m.dim = Declared(b)

-----------------------------------------------------------------------------
(* ollama_setup.apply_provider sets the backend, then marks the index stale; *)
(* a failure to write the mark is only logged.                               *)
SwitchBackend(b) ==
    /\ switches < MaxSwitches
    /\ ~marking
    /\ b # backend
    /\ backend' = b
    /\ marking' = TRUE
    /\ switches' = switches + 1
    /\ raced' = (raced \/ \E a \in Threads : pc[a] # "idle")
    /\ UNCHANGED <<meta, vectors, stored, rebuild, pc, doc, vec, history>>

MarkStale ==
    /\ marking
    /\ \/ meta' = [meta EXCEPT !.stale = TRUE]
       \/ meta' = meta
    /\ marking' = FALSE
    /\ UNCHANGED <<backend, switches, raced, vectors, stored, rebuild, pc, doc, vec,
                   history>>

-----------------------------------------------------------------------------
(* file_and_persist has saved the row and indexes the document. *)
IndexDocument(a, d) ==
    /\ pc[a] = "idle"
    /\ d \notin stored
    /\ stored' = stored \cup {d}
    /\ doc' = [doc EXCEPT ![a] = d]
    /\ Goto(a, "compat")
    /\ UNCHANGED <<meta, vectors, vec, rebuild, switch, history>>

Retrieve(a) ==
    /\ pc[a] = "idle"
    /\ Goto(a, "compat")
    /\ UNCHANGED <<meta, vectors, stored, doc, vec, rebuild, switch, history>>

(* ensure_index_compatible reads _rebuilding without the lock .. *)
EnsureCompatible(a) ==
    /\ pc[a] = "compat"
    /\ Goto(a, IF rebuilding THEN "embed" ELSE "wait")
    /\ UNCHANGED <<meta, vectors, stored, doc, vec, rebuild, switch, history>>

LockFree == lock = None

\* Mutant: the check looks at the stale mark and not at the backend.
FoundUnmarked(a) ==
    /\ pc[a] = "wait"
    /\ LockFree
    /\ ~meta.stale
    /\ Goto(a, "embed")
    /\ UNCHANGED <<meta, vectors, stored, doc, vec, rebuild, switch, history>>

(* .. and then compares fingerprints under it. *)
FoundCompatible(a) ==
    /\ pc[a] = "wait"
    /\ LockFree
    /\ Compatible(meta, backend)
    /\ Goto(a, "embed")
    /\ UNCHANGED <<meta, vectors, stored, doc, vec, rebuild, switch, history>>

StartRebuild(a) ==
    /\ pc[a] = "wait"
    /\ LockFree
    /\ ~Compatible(meta, backend)
    /\ lock' = a
    /\ rebuilding' = TRUE
    /\ Goto(a, "reset")
    /\ UNCHANGED <<meta, vectors, stored, doc, vec, todo, target, dim, switch, history>>

(* _reset_chroma_collection, clear_all_indexed_at. An exception of the       *)
(* collection's removal is swallowed, and get_or_create_collection then       *)
(* returns the old collection with its vectors.                              *)
ResetCollection(a) ==
    /\ pc[a] = "reset"
    /\ \/ vectors' = [d \in Docs |-> None] /\ undropped' = FALSE
       \/ vectors' = vectors /\ undropped' = TRUE
    /\ Goto(a, "list")
    /\ UNCHANGED <<meta, stored, doc, vec, rebuild, switch, broken, skipped>>

\* Mutant: only the documents marked as indexed are embedded again.
ListIndexed(a) ==
    /\ pc[a] = "list"
    /\ target' = backend /\ dim' = Declared(backend)
    /\ todo' = {d \in stored : vectors[d] # None}
    /\ Goto(a, "reembed")
    /\ UNCHANGED <<meta, vectors, stored, doc, vec, rebuilding, lock, switch, history>>

(* The backend in force is noted, and every row is listed. *)
ListDocuments(a) ==
    /\ pc[a] = "list"
    /\ target' = backend /\ dim' = Declared(backend)
    /\ todo' = stored
    /\ Goto(a, "reembed")
    /\ UNCHANGED <<meta, vectors, stored, doc, vec, rebuilding, lock, switch, history>>

(* One document of the rebuild: an embedding failure is collected. The first *)
(* vectors tell a length that was not known.                                 *)
Reembed(a, d) ==
    /\ pc[a] = "reembed"
    /\ d \in todo
    /\ todo' = todo \ {d}
    /\ \/ /\ vectors' = [vectors EXCEPT ![d] = backend]
          /\ dim' = IF dim = None THEN Dim[backend] ELSE dim
          /\ UNCHANGED skipped
       \/ /\ skipped' = skipped \cup {d}
          /\ UNCHANGED <<vectors, dim>>
    /\ UNCHANGED <<meta, stored, pc, doc, vec, rebuilding, lock, target, switch, broken,
                   undropped>>

(* The metadata file names the backend resolved when the rebuild began. *)
FinishRebuild(a) ==
    /\ pc[a] = "reembed"
    /\ todo = {}
    /\ meta' = [backend |-> target, dim |-> dim, stale |-> FALSE]
    /\ rebuilding' = FALSE
    /\ lock' = None
    /\ target' = None
    /\ dim' = None
    /\ Goto(a, "embed")
    /\ UNCHANGED <<vectors, stored, doc, vec, todo, switch, history>>

\* Mutant: the exception leaves the rebuild without the finally clause.
RaisesLocked(a) ==
    /\ pc[a] \in RebuildPcs
    /\ Ends(a)
    /\ broken' = TRUE
    /\ UNCHANGED <<meta, vectors, stored, rebuild, switch, undropped, skipped>>

(* The store or the database raises, perhaps with the old chunks of one       *)
(* document out: finally clears the flag, the lock is released, and the       *)
(* exception ends the request. The metadata stays as it was.                 *)
RebuildRaises(a) ==
    /\ pc[a] \in RebuildPcs
    /\ vectors' \in {vectors} \cup {[vectors EXCEPT ![d] = None] : d \in todo}
    /\ rebuilding' = FALSE
    /\ lock' = None
    /\ todo' = {}
    /\ target' = None
    /\ dim' = None
    /\ broken' = TRUE
    /\ Ends(a)
    /\ UNCHANGED <<meta, stored, switch, undropped, skipped>>

-----------------------------------------------------------------------------
(* embed_texts uses the backend configured now. *)
Embed(a) ==
    /\ pc[a] = "embed"
    /\ vec' = [vec EXCEPT ![a] = backend]
    /\ Goto(a, IF a \in Indexers THEN "upsert" ELSE "query")
    /\ UNCHANGED <<meta, vectors, stored, doc, rebuild, switch, history>>

EmbedFails(a) ==
    /\ pc[a] = "embed"
    /\ skipped' = skipped \cup ({doc[a]} \ {None})
    /\ Ends(a)
    /\ UNCHANGED <<meta, vectors, stored, rebuild, switch, broken, undropped>>

(* Old chunks out, new chunks in, indexed_at set. *)
Upsert(a) ==
    /\ pc[a] = "upsert"
    /\ vectors' = [vectors EXCEPT ![doc[a]] = vec[a]]
    /\ Goto(a, "meta")
    /\ UNCHANGED <<meta, stored, doc, vec, rebuild, switch, history>>

(* The collection raises, with the old chunks out already or not: the filing *)
(* goes on without the document in the index.                                *)
UpsertRaises(a) ==
    /\ pc[a] = "upsert"
    /\ vectors' \in {vectors, [vectors EXCEPT ![doc[a]] = None]}
    /\ skipped' = skipped \cup {doc[a]}
    /\ Ends(a)
    /\ UNCHANGED <<meta, stored, rebuild, switch, broken, undropped>>

(* A rebuild in progress will write the metadata itself .. *)
LeaveMeta(a) ==
    /\ pc[a] = "meta"
    /\ rebuilding
    /\ Ends(a)
    /\ UNCHANGED <<meta, vectors, stored, rebuild, switch, history>>

ResolveMeta(a) ==
    /\ pc[a] = "meta"
    /\ ~rebuilding
    /\ Goto(a, "write")
    /\ UNCHANGED <<meta, vectors, stored, doc, vec, rebuild, switch, history>>

(* .. otherwise it is written with the backend configured NOW, the length of  *)
(* the vectors just made, and not stale.                                     *)
WriteMeta(a) ==
    /\ pc[a] = "write"
    /\ meta' = [backend |-> backend, dim |-> Dim[vec[a]], stale |-> FALSE]
    /\ Ends(a)
    /\ UNCHANGED <<vectors, stored, rebuild, switch, history>>

Query(a) ==
    /\ pc[a] = "query"
    /\ Ends(a)
    /\ UNCHANGED <<meta, vectors, stored, rebuild, switch, history>>

-----------------------------------------------------------------------------
ThreadStep(a) ==
    \/ EnsureCompatible(a) \/ FoundCompatible(a)
    \/ StartRebuild(a) \/ ResetCollection(a) \/ ListDocuments(a)
    \/ \E d \in Docs : Reembed(a, d)
    \/ FinishRebuild(a) \/ RebuildRaises(a)
    \/ Embed(a) \/ EmbedFails(a)
    \/ Upsert(a) \/ UpsertRaises(a) \/ LeaveMeta(a) \/ ResolveMeta(a) \/ WriteMeta(a)
    \/ Query(a)

Next ==
    \/ \E b \in Backends : SwitchBackend(b)
    \/ MarkStale
    \/ \E a \in Indexers, d \in Docs : IndexDocument(a, d)
    \/ \E a \in Searchers : Retrieve(a)
    \/ \E a \in Threads : ThreadStep(a)

(* A thread that can go on does; waiters get the lock in their turn.        *)
Fairness == \A a \in Threads : SF_vars(ThreadStep(a))

Spec == Init /\ [][Next]_vars
FairSpec == Spec /\ Fairness

-----------------------------------------------------------------------------
AllIdle == \A a \in Threads : pc[a] = "idle"

(* Two threads never rebuild at once, and _rebuilding is up exactly while    *)
(* the holder of the lock rebuilds.                                          *)
RebuildExclusive ==
    /\ \A a \in Threads : pc[a] \in RebuildPcs <=> (rebuilding /\ lock = a)
    /\ rebuilding <=> lock # None

(* The index passes the check, and yet some vectors are another backend's:   *)
(* nothing will rebuild it, and queries compare vectors of different models. *)
Foreign(d) == vectors[d] \notin {None, backend}
Passes == Compatible(meta, backend) /\ ~rebuilding
Mislabelled == Passes /\ \E d \in Docs : Foreign(d)

(* As long as backends are switched only between requests and no rebuild     *)
(* raised, an index that passes the check holds the configured backend's      *)
(* vectors, with any number of filings, searches and rebuilds at once -       *)
(* except that a rebuild whose removal of the old collection failed keeps     *)
(* the old vectors of the documents it could not embed again, and clears      *)
(* the metadata over them all the same.                                      *)
HonestUndisturbed ==
    ~raced /\ ~broken =>
        (Passes => \A d \in Docs : Foreign(d) => undropped /\ d \in skipped)

(* README.md:548 says the mismatch is detected automatically and the index   *)
(* rebuilt on the next request: an index that passes the check, with nothing *)
(* running and no rebuild failing in any part, was embedded with the          *)
(* configured backend. The code lets a filing that a switch overtakes label   *)
(* its old vectors with the new backend, and clears the stale mark doing so.  *)
MismatchDetected == AllIdle /\ ~marking /\ ~broken /\ ~undropped => ~Mislabelled

(* Once everything is idle the index misses no document except those whose   *)
(* embedding or upsert failed, whatever rebuilds and switches overtook their *)
(* filing - unless a rebuild raised: ensure_index_compatible never looks at a *)
(* document.                                                                 *)
CompleteWhenIdle ==
    AllIdle /\ ~broken => \A d \in stored \ skipped : vectors[d] # None

(* Indexing and searching come to an end, behind however many rebuilds.      *)
RequestEnds == \A a \in Threads : pc[a] # "idle" ~> pc[a] = "idle"

=============================================================================
