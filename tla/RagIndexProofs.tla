--------------------------- MODULE RagIndexProofs ---------------------------
(* Proofs about RagIndex. *)
EXTENDS RagIndex, TLAPS

(* Every step is a switch of the backend, a request's start or a step of a   *)
(* thread, by cases.                                                         *)
LEMMA NextCases ==
    ASSUME [Next]_vars
    PROVE  \/ \E b \in Backends : SwitchBackend(b)
           \/ MarkStale
           \/ \E a \in Indexers, d \in Docs : IndexDocument(a, d)
           \/ \E a \in Searchers : Retrieve(a)
           \/ \E a \in Threads :
                \/ EnsureCompatible(a) \/ FoundCompatible(a)
                \/ StartRebuild(a) \/ ResetCollection(a) \/ ListDocuments(a)
                \/ \E d \in Docs : Reembed(a, d)
                \/ FinishRebuild(a) \/ RebuildRaises(a)
                \/ Embed(a) \/ EmbedFails(a)
                \/ Upsert(a) \/ UpsertRaises(a) \/ LeaveMeta(a)
                \/ ResolveMeta(a) \/ WriteMeta(a) \/ Query(a)
           \/ UNCHANGED vars
BY DEF Next, ThreadStep

\* The initial state is well typed.
LEMMA TypeInit == Init => TypeOK
<1> USE NoneAssumption, SwitchesAssumption, BackendsAssumption DEF Init, Threads
<1>1. Init => /\ meta \in [backend : Backends \cup {None}, dim : Nat \cup {None}, stale : BOOLEAN]
             /\ vectors \in [Docs -> Backends \cup {None}]
  <2> SUFFICES ASSUME Init
      PROVE  /\ meta \in [backend : Backends \cup {None}, dim : Nat \cup {None}, stale : BOOLEAN]
             /\ vectors \in [Docs -> Backends \cup {None}]
    OBVIOUS
  <2>1. PICK b \in Backends :
          /\ vectors = [d \in Docs |-> IF d \in stored THEN b ELSE None]
          /\ meta = IF stored = {}
                    THEN [backend |-> None, dim |-> None, stale |-> FALSE]
                    ELSE [backend |-> b, dim |-> Dim[b], stale |-> FALSE]
    OBVIOUS
  <2>2. Dim[b] \in Nat
    OBVIOUS
  <2> QED
    BY <2>1, <2>2
<1>2. Init => /\ pc \in [Threads -> Pcs]
             /\ doc \in [Threads -> Docs \cup {None}]
             /\ vec \in [Threads -> Backends \cup {None}]
             /\ lock \in Threads \cup {None}
             /\ target \in Backends \cup {None} /\ dim \in Nat \cup {None}
             /\ backend \in Backends /\ stored \subseteq Docs
  BY DEF Pcs
<1>3. Init => /\ todo \subseteq Docs /\ skipped \subseteq Docs
             /\ switches \in 0..MaxSwitches
             /\ rebuilding \in BOOLEAN /\ marking \in BOOLEAN
             /\ raced \in BOOLEAN /\ broken \in BOOLEAN /\ undropped \in BOOLEAN
  <2>1. 0 \in 0..MaxSwitches
    OBVIOUS
  <2>2. Init => switches = 0
    OBVIOUS
  <2>3. Init => /\ todo \subseteq Docs /\ skipped \subseteq Docs
               /\ rebuilding \in BOOLEAN /\ marking \in BOOLEAN
               /\ raced \in BOOLEAN /\ broken \in BOOLEAN /\ undropped \in BOOLEAN
    OBVIOUS
  <2> QED
    BY <2>1, <2>2, <2>3, Zenon
<1>4. Init => Typed
  BY <1>1, <1>2, <1>3, Zenon DEF Typed
<1>5. Init => Equipped
  BY DEF Equipped
<1> QED
  BY <1>4, <1>5 DEF TypeOK

(* The type of every variable and what its position relies on are kept. The  *)
(* rebuild's data is safe because only one thread rebuilds.                  *)
LEMMA TypeNext ==
    ASSUME TypeOK, RebuildExclusive, [Next]_vars
    PROVE  TypeOK'
<1> USE NoneAssumption, ThreadsAssumption, SwitchesAssumption, BackendsAssumption
    DEF Declared, TypeOK, Typed, Equipped, RebuildExclusive, Threads, Pcs, RebuildPcs, Goto, Ends,
        rebuild, switch, history
<1>1. CASE \E b \in Backends : SwitchBackend(b)
  BY <1>1 DEF SwitchBackend
<1>2. CASE MarkStale
  BY <1>2 DEF MarkStale
<1>3. ASSUME NEW a \in Indexers, NEW d \in Docs, IndexDocument(a, d) PROVE TypeOK'
  BY <1>3 DEF IndexDocument
<1>4. ASSUME NEW a \in Searchers, Retrieve(a) PROVE TypeOK'
  BY <1>4 DEF Retrieve
<1>5. ASSUME NEW a \in Threads, EnsureCompatible(a) PROVE TypeOK'
  BY <1>5 DEF EnsureCompatible
<1>6. ASSUME NEW a \in Threads, FoundCompatible(a) PROVE TypeOK'
  BY <1>6 DEF FoundCompatible
<1>7. ASSUME NEW a \in Threads, StartRebuild(a) PROVE TypeOK'
  BY <1>7 DEF StartRebuild
<1>8. ASSUME NEW a \in Threads, ResetCollection(a) PROVE TypeOK'
  BY <1>8 DEF ResetCollection
<1>9. ASSUME NEW a \in Threads, ListDocuments(a) PROVE TypeOK'
  BY <1>9 DEF ListDocuments
<1>10. ASSUME NEW a \in Threads, NEW d \in Docs, Reembed(a, d) PROVE TypeOK'
  BY <1>10 DEF Reembed
<1>11. ASSUME NEW a \in Threads, FinishRebuild(a) PROVE TypeOK'
  BY <1>11 DEF FinishRebuild
<1>12. ASSUME NEW a \in Threads, RebuildRaises(a) PROVE TypeOK'
  <2>1. vectors' \in [Docs -> Backends \cup {None}]
    <3>1. \A d \in todo : [vectors EXCEPT ![d] = None] \in [Docs -> Backends \cup {None}]
      OBVIOUS
    <3> QED
      BY <1>12, <3>1 DEF RebuildRaises
  <2> QED
    BY <1>12, <2>1 DEF RebuildRaises
<1>13. ASSUME NEW a \in Threads, Embed(a) PROVE TypeOK'
  BY <1>13 DEF Embed
<1>14. ASSUME NEW a \in Threads, EmbedFails(a) PROVE TypeOK'
  BY <1>14 DEF EmbedFails
<1>15. ASSUME NEW a \in Threads, Upsert(a) PROVE TypeOK'
  BY <1>15 DEF Upsert
<1>16. ASSUME NEW a \in Threads, UpsertRaises(a) PROVE TypeOK'
  BY <1>16 DEF UpsertRaises
<1>17. ASSUME NEW a \in Threads, LeaveMeta(a) PROVE TypeOK'
  BY <1>17 DEF LeaveMeta
<1>18. ASSUME NEW a \in Threads, ResolveMeta(a) PROVE TypeOK'
  BY <1>18 DEF ResolveMeta
<1>19. ASSUME NEW a \in Threads, WriteMeta(a) PROVE TypeOK'
  BY <1>19 DEF WriteMeta
<1>20. ASSUME NEW a \in Threads, Query(a) PROVE TypeOK'
  BY <1>20 DEF Query
<1>21. CASE UNCHANGED vars
  BY <1>21 DEF vars
<1> QED
  BY NextCases, <1>1, <1>2, <1>3, <1>4, <1>5, <1>6, <1>7, <1>8, <1>9, <1>10, <1>11,
     <1>12, <1>13, <1>14, <1>15, <1>16, <1>17, <1>18, <1>19, <1>20, <1>21

(* Taking the lock, and letting go of it, keeps the flag and the holder in    *)
(* step with the threads' positions.                                         *)
LEMMA ExclusiveNext ==
    ASSUME TypeOK, RebuildExclusive, [Next]_vars
    PROVE  RebuildExclusive'
<1> USE NoneAssumption
    DEF RebuildExclusive, TypeOK, Typed, Threads, Pcs, RebuildPcs, Goto, Ends,
        rebuild, switch, history
<1>1. CASE \E b \in Backends : SwitchBackend(b)
  BY <1>1 DEF SwitchBackend
<1>2. CASE MarkStale
  BY <1>2 DEF MarkStale
<1>3. ASSUME NEW a \in Threads, NEW d \in Docs, IndexDocument(a, d)
      PROVE  RebuildExclusive'
  BY <1>3 DEF IndexDocument
<1>4. ASSUME NEW a \in Threads,
             \/ Retrieve(a) \/ EnsureCompatible(a) \/ FoundCompatible(a)
             \/ Embed(a) \/ EmbedFails(a) \/ Upsert(a) \/ UpsertRaises(a)
             \/ LeaveMeta(a) \/ ResolveMeta(a) \/ WriteMeta(a) \/ Query(a)
      PROVE  RebuildExclusive'
  BY <1>4 DEF Retrieve, EnsureCompatible, FoundCompatible, Embed, EmbedFails,
     Upsert, UpsertRaises, LeaveMeta, ResolveMeta, WriteMeta, Query
<1>5. ASSUME NEW a \in Threads, StartRebuild(a) PROVE RebuildExclusive'
  BY <1>5 DEF StartRebuild, LockFree
<1>6. ASSUME NEW a \in Threads, ResetCollection(a) \/ ListDocuments(a)
      PROVE  RebuildExclusive'
  BY <1>6 DEF ResetCollection, ListDocuments
<1>7. ASSUME NEW a \in Threads, NEW d \in Docs, Reembed(a, d) PROVE RebuildExclusive'
  BY <1>7 DEF Reembed
<1>8. ASSUME NEW a \in Threads, FinishRebuild(a) \/ RebuildRaises(a)
      PROVE  RebuildExclusive'
  BY <1>8 DEF FinishRebuild, RebuildRaises
<1>9. CASE UNCHANGED vars
  BY <1>9 DEF vars
<1> QED
  BY NextCases, <1>1, <1>2, <1>3, <1>4, <1>5, <1>6, <1>7, <1>8, <1>9

(* TypeOK and RebuildExclusive are inductive only together.                  *)
LEMMA RebuildInvariant == Spec => [](TypeOK /\ RebuildExclusive)
<1>1. Init => RebuildExclusive
  BY NoneAssumption DEF Init, RebuildExclusive, RebuildPcs
<1> QED
  BY <1>1, TypeInit, TypeNext, ExclusiveNext, PTL DEF Spec

(* Every thread always has what its position needs (rag_index.py:496-577).   *)
THEOREM TypeCorrect == Spec => []TypeOK
BY RebuildInvariant, PTL

(* Whoever rebuilds holds the lock, so the flag read without it is exact:    *)
(* no two threads ever rebuild the collection at once (rag_index.py:238-318).*)
THEOREM RebuildsAreExclusive == Spec => []RebuildExclusive
BY RebuildInvariant, PTL

-----------------------------------------------------------------------------
(* What the metadata says of the vectors *)

(* A vector of a backend other than the given ones has survived a removal     *)
(* that failed, and then its document's embedding has failed.                *)
Survives(d) == undropped /\ d \in skipped

(* As long as no switch overtook a request and no rebuild raised: whoever     *)
(* passed the check works with the configured backend, which the metadata    *)
(* names or the rebuild under way will name; an old vector in a collection    *)
(* that was not dropped is waiting for the rebuild or is past it unembedded.  *)
HonestInv ==
    ~raced /\ ~broken =>
        /\ \A d \in Docs : vectors[d] # None => d \in stored
        /\ \A a \in Threads :
             /\ pc[a] \in {"upsert", "query"} => vec[a] = backend
             /\ pc[a] = "reembed" => target = backend /\ todo \subseteq stored
             /\ pc[a] = "list" => \A d \in Docs : Foreign(d) => undropped
             /\ pc[a] = "reembed" => \A d \in Docs : Foreign(d) => undropped /\ (d \in todo \/ d \in skipped)
             /\ pc[a] \in {"embed", "upsert", "meta"} => rebuilding \/ meta.backend = backend
             /\ pc[a] = "write" => meta.backend = backend
             /\ pc[a] = "reset" => \A d \in Docs :
                    vectors[d] \notin {None, meta.backend, backend} => Survives(d)
             /\ pc[a] # "idle" /\ a \in Indexers => doc[a] \in stored
        /\ ~rebuilding => \A d \in Docs : vectors[d] \notin {None, meta.backend} => Survives(d)

\* Initially every document was embedded with the backend the metadata names.
LEMMA HonestInit == Init => HonestInv
<1> SUFFICES ASSUME Init PROVE HonestInv
  OBVIOUS
<1>1. PICK b \in Backends :
        /\ vectors = [d \in Docs |-> IF d \in stored THEN b ELSE None]
        /\ meta = IF stored = {}
                  THEN [backend |-> None, dim |-> None, stale |-> FALSE]
                  ELSE [backend |-> b, dim |-> Dim[b], stale |-> FALSE]
  BY DEF Init
<1>2. \A d \in Docs : vectors[d] \in {None, meta.backend} /\ (vectors[d] # None => d \in stored)
  BY <1>1
<1>3. \A a \in Threads : pc[a] = "idle"
  BY DEF Init
<1> QED
  BY <1>2, <1>3 DEF HonestInv

\* While nobody runs, nobody rebuilds.
LEMMA IdleUnlocked ==
    ASSUME TypeOK, RebuildExclusive, \A a \in Threads : pc[a] = "idle"
    PROVE  ~rebuilding
BY NoneAssumption DEF TypeOK, Typed, RebuildExclusive, RebuildPcs, Threads

(* Every action keeps HonestInv.                                             *)
LEMMA HonestNext ==
    ASSUME TypeOK, RebuildExclusive, HonestInv, [Next]_vars
    PROVE  HonestInv'
<1> USE NoneAssumption
    DEF TypeOK, Typed, Equipped, HonestInv, Foreign, Survives, Goto, Ends, rebuild, switch, history
<1>1. ASSUME NEW b \in Backends, SwitchBackend(b) PROVE HonestInv'
  <2> SUFFICES ASSUME ~raced', ~broken' PROVE HonestInv'
    OBVIOUS
  <2>1. \A a \in Threads : pc[a] = "idle"
    BY <1>1 DEF SwitchBackend
  <2>2. ~rebuilding /\ ~raced /\ ~broken
    BY <1>1, <2>1, IdleUnlocked DEF SwitchBackend
  <2> QED
    BY <1>1, <2>1, <2>2 DEF SwitchBackend
<1>2. CASE MarkStale
  <2>1. meta'.backend = meta.backend
    BY <1>2 DEF MarkStale
  <2> QED
    BY <1>2, <2>1 DEF MarkStale
<1>3. ASSUME NEW a \in Indexers, NEW d \in Docs, IndexDocument(a, d) PROVE HonestInv'
  BY <1>3 DEF IndexDocument
<1>4. ASSUME NEW a \in Searchers, Retrieve(a) PROVE HonestInv'
  BY <1>4, ThreadsAssumption DEF Retrieve, Threads
<1>5. ASSUME NEW a \in Threads, EnsureCompatible(a) PROVE HonestInv'
  BY <1>5 DEF EnsureCompatible
<1>6. ASSUME NEW a \in Threads, FoundCompatible(a) PROVE HonestInv'
  BY <1>6 DEF FoundCompatible, Compatible
<1>7. ASSUME NEW a \in Threads, StartRebuild(a) PROVE HonestInv'
  <2>1. ~rebuilding
    BY <1>7 DEF StartRebuild, LockFree, RebuildExclusive
  <2> QED
    BY <1>7, <2>1 DEF StartRebuild
<1>8. ASSUME NEW a \in Threads, ResetCollection(a) PROVE HonestInv'
  BY <1>8 DEF ResetCollection
<1>9. ASSUME NEW a \in Threads, ListDocuments(a) PROVE HonestInv'
  BY <1>9 DEF ListDocuments, RebuildExclusive, RebuildPcs
<1>10. ASSUME NEW a \in Threads, NEW d \in Docs, Reembed(a, d) PROVE HonestInv'
  <2> SUFFICES ASSUME ~raced, ~broken PROVE HonestInv'
    BY <1>10 DEF Reembed
  <2>1. rebuilding /\ \A e \in Docs : e # d => vectors'[e] = vectors[e]
    BY <1>10 DEF Reembed, RebuildExclusive, RebuildPcs
  <2>2. UNCHANGED <<pc, doc, vec, meta, backend, target, rebuilding, raced, broken,
                    undropped, stored>>
    BY <1>10 DEF Reembed
  <2>3. vectors'[d] = backend \/ (vectors'[d] = vectors[d] /\ d \in skipped')
    BY <1>10 DEF Reembed
  <2>4. todo' = todo \ {d} /\ d \in stored /\ skipped \subseteq skipped'
    BY <1>10 DEF Reembed
  <2>5. \A u \in Threads : (pc[u] # "list" /\ pc[u] # "reset") \/ u = a
    BY <1>10 DEF Reembed, RebuildExclusive, RebuildPcs
  <2>6. \A e \in Docs : vectors'[e] # None => e \in stored'
    BY <2>1, <2>2, <2>4
  <2>7. \A e \in Docs : Foreign(e)' => undropped' /\ (e \in todo' \/ e \in skipped')
    BY <1>10, <2>1, <2>2, <2>3, <2>4 DEF Reembed
  <2> QED
    BY <1>10, <2>1, <2>2, <2>4, <2>5, <2>6, <2>7 DEF Reembed
<1>11. ASSUME NEW a \in Threads, FinishRebuild(a) PROVE HonestInv'
  <2> SUFFICES ASSUME ~raced, ~broken PROVE HonestInv'
    BY <1>11 DEF FinishRebuild
  <2>1. target = backend /\ \A d \in Docs : Foreign(d) => Survives(d)
    BY <1>11 DEF FinishRebuild
  <2>2. /\ meta'.backend = backend /\ UNCHANGED <<backend, vectors, vec, doc, stored>>
        /\ UNCHANGED <<undropped, skipped>>
    BY <1>11, <2>1 DEF FinishRebuild
  <2>3. \A u \in Threads : u # a => pc'[u] = pc[u] /\ pc[u] \notin RebuildPcs
    BY <1>11 DEF FinishRebuild, RebuildExclusive, RebuildPcs
  <2>4. pc'[a] = "embed" /\ pc[a] = "reembed"
    BY <1>11 DEF FinishRebuild
  <2> QED
    BY <2>1, <2>2, <2>3, <2>4 DEF RebuildPcs
<1>12. ASSUME NEW a \in Threads, RebuildRaises(a) PROVE HonestInv'
  BY <1>12 DEF RebuildRaises
<1>13. ASSUME NEW a \in Threads, Embed(a) PROVE HonestInv'
  BY <1>13 DEF Embed
<1>14. ASSUME NEW a \in Threads, EmbedFails(a) PROVE HonestInv'
  BY <1>14 DEF EmbedFails
<1>15. ASSUME NEW a \in Threads, Upsert(a) PROVE HonestInv'
  <2> SUFFICES ASSUME ~raced, ~broken PROVE HonestInv'
    BY <1>15 DEF Upsert
  <2>1. vec[a] = backend /\ (rebuilding \/ meta.backend = backend) /\ doc[a] \in stored
    BY <1>15 DEF Upsert
  <2>2. \A e \in Docs : vectors'[e] = vectors[e] \/ (vectors'[e] = backend /\ e \in stored)
    BY <1>15, <2>1 DEF Upsert
  <2>3. UNCHANGED <<meta, backend, vec, doc, stored, target, todo, rebuilding, raced, broken,
                    undropped, skipped>>
    BY <1>15 DEF Upsert
  <2>4. \A u \in Threads : pc'[u] = pc[u] \/ (pc'[u] = "meta" /\ pc[u] = "upsert")
    BY <1>15 DEF Upsert
  <2>5. \A e \in Docs : /\ vectors'[e] # None => e \in stored
                       /\ Foreign(e)' => Foreign(e)
    BY <2>2, <2>3
  <2> QED
    BY <2>1, <2>2, <2>3, <2>4, <2>5
<1>16. ASSUME NEW a \in Threads, UpsertRaises(a) PROVE HonestInv'
  <2>1. \A e \in Docs : vectors'[e] \in {vectors[e], None}
    BY <1>16 DEF UpsertRaises
  <2>2. /\ UNCHANGED <<meta, backend, stored, target, todo, rebuilding, raced, broken, undropped>>
        /\ skipped \subseteq skipped'
    BY <1>16 DEF UpsertRaises
  <2>3. \A u \in Threads : pc'[u] = "idle" \/ (pc'[u] = pc[u] /\ vec'[u] = vec[u] /\ doc'[u] = doc[u])
    BY <1>16 DEF UpsertRaises
  <2>4. \A e \in Docs : /\ vectors'[e] # None => vectors'[e] = vectors[e]
                       /\ Foreign(e)' => Foreign(e)
    BY <2>1, <2>2
  <2> QED
    BY <2>1, <2>2, <2>3, <2>4
<1>17. ASSUME NEW a \in Threads, LeaveMeta(a) PROVE HonestInv'
  BY <1>17 DEF LeaveMeta
<1>18. ASSUME NEW a \in Threads, ResolveMeta(a) PROVE HonestInv'
  BY <1>18 DEF ResolveMeta
<1>19. ASSUME NEW a \in Threads, WriteMeta(a) PROVE HonestInv'
  <2> SUFFICES ASSUME ~raced, ~broken PROVE HonestInv'
    BY <1>19 DEF WriteMeta
  <2>1. meta.backend = backend /\ meta'.backend = backend
    BY <1>19 DEF WriteMeta
  <2>2. UNCHANGED <<vectors, stored, backend, target, todo, rebuilding, raced, broken,
                    undropped, skipped>>
    BY <1>19 DEF WriteMeta
  <2>3. \A u \in Threads : pc'[u] = "idle" \/ (pc'[u] = pc[u] /\ vec'[u] = vec[u] /\ doc'[u] = doc[u])
    BY <1>19 DEF WriteMeta
  <2> QED
    BY <2>1, <2>2, <2>3
<1>20. ASSUME NEW a \in Threads, Query(a) PROVE HonestInv'
  BY <1>20 DEF Query
<1>21. CASE UNCHANGED vars
  BY <1>21 DEF vars
<1> QED
  BY NextCases, <1>1, <1>2, <1>3, <1>4, <1>5, <1>6, <1>7, <1>8, <1>9, <1>10, <1>11,
     <1>12, <1>13, <1>14, <1>15, <1>16, <1>17, <1>18, <1>19, <1>20, <1>21

(* As long as backends are switched between requests only and no rebuild      *)
(* raised, an index that passes the check was embedded with the configured    *)
(* backend, with any number of filings, searches, rebuilds and switches       *)
(* (rag_index.py:238-318, 496-577).                                          *)
THEOREM LabelsAreHonest == Spec => []HonestUndisturbed
<1>1. HonestInv => HonestUndisturbed
  BY DEF HonestInv, HonestUndisturbed, Passes, Foreign, Survives, Compatible
<1> QED
  BY <1>1, HonestInit, HonestNext, RebuildInvariant, PTL DEF Spec

-----------------------------------------------------------------------------
(* What the index misses *)

(* Somebody has still to embed the document: the filing that stored it, or a  *)
(* rebuild that will list it or has it on its list.                          *)
Pending(d) ==
    \E a \in Threads :
        \/ a \in Indexers /\ doc[a] = d /\ pc[a] \in {"compat", "wait", "embed", "upsert"} \cup RebuildPcs
        \/ pc[a] = "list"
        \/ pc[a] = "reembed" /\ d \in todo

CompleteInv == ~broken => \A d \in stored \ skipped : vectors[d] # None \/ Pending(d)

(* A step that drops no vector and lets no thread give up a document.         *)
LEMMA PendingKept ==
    ASSUME CompleteInv, UNCHANGED <<stored, broken, vectors>>, skipped \subseteq skipped',
           \A d \in stored \ skipped' : Pending(d) => Pending(d)'
    PROVE  CompleteInv'
BY DEF CompleteInv

(* A step of one thread that leaves the rebuild's list alone and does not end *)
(* the thread's part in it.                                                  *)
LEMMA PendingMoves ==
    ASSUME TypeOK, NEW d, NEW a \in Threads, NEW label, Goto(a, label), UNCHANGED <<doc, todo>>,
           pc[a] \notin {"list", "reembed"}, label \in {"compat", "wait", "embed", "upsert"} \cup RebuildPcs,
           Pending(d)
    PROVE  Pending(d)'
<1>1. PICK u \in Threads :
        \/ u \in Indexers /\ doc[u] = d /\ pc[u] \in {"compat", "wait", "embed", "upsert"} \cup RebuildPcs
        \/ pc[u] = "list"
        \/ pc[u] = "reembed" /\ d \in todo
  BY DEF Pending
<1>2. u # a => pc'[u] = pc[u]
  BY DEF Goto, TypeOK, Typed
<1>3. u = a => doc[u] = d /\ pc'[u] \in {"compat", "wait", "embed", "upsert"} \cup RebuildPcs
  BY <1>1 DEF Goto, TypeOK, Typed
<1> QED
  BY <1>1, <1>2, <1>3 DEF Pending

(* Every action keeps CompleteInv.                                           *)
LEMMA CompleteNext ==
    ASSUME TypeOK, RebuildExclusive, CompleteInv, [Next]_vars
    PROVE  CompleteInv'
<1> USE NoneAssumption, ThreadsAssumption
    DEF TypeOK, Typed, Equipped, Goto, Ends, rebuild, switch, history, RebuildPcs
<1>1. CASE (\E b \in Backends : SwitchBackend(b)) \/ MarkStale
  BY <1>1 DEF SwitchBackend, MarkStale, CompleteInv, Pending
<1>3. ASSUME NEW a \in Indexers, NEW d \in Docs, IndexDocument(a, d) PROVE CompleteInv'
  <2>1. Pending(d)'
    <3>1. a \in Threads /\ doc'[a] = d /\ pc'[a] = "compat"
      BY <1>3 DEF IndexDocument, Threads
    <3> QED
      BY <3>1 DEF Pending
  <2>2. ASSUME NEW e, Pending(e) PROVE Pending(e)'
    <3>1. PICK u \in Threads :
            \/ u \in Indexers /\ doc[u] = e /\ pc[u] \in {"compat", "wait", "embed", "upsert"} \cup RebuildPcs
            \/ pc[u] = "list"
            \/ pc[u] = "reembed" /\ e \in todo
      BY <2>2 DEF Pending
    <3>2. u # a /\ pc'[u] = pc[u] /\ doc'[u] = doc[u] /\ todo' = todo
      BY <1>3, <3>1 DEF IndexDocument
    <3> QED
      BY <3>1, <3>2 DEF Pending
  <2> QED
    BY <1>3, <2>1, <2>2 DEF IndexDocument, CompleteInv
<1>4. ASSUME NEW a \in Searchers, Retrieve(a) PROVE CompleteInv'
  <2>1. a \in Threads /\ pc[a] = "idle"
    BY <1>4 DEF Retrieve, Threads
  <2>2. \A d \in stored : Pending(d) => Pending(d)'
    BY <1>4, <2>1, PendingMoves DEF Retrieve
  <2> QED
    BY <1>4, <2>2, PendingKept DEF Retrieve
<1>5. ASSUME NEW a \in Threads, EnsureCompatible(a) \/ FoundCompatible(a) PROVE CompleteInv'
  <2>1. \A d \in stored : Pending(d) => Pending(d)'
    BY <1>5, PendingMoves DEF EnsureCompatible, FoundCompatible
  <2> QED
    BY <1>5, <2>1, PendingKept DEF EnsureCompatible, FoundCompatible
<1>7. ASSUME NEW a \in Threads, StartRebuild(a) PROVE CompleteInv'
  <2>1. \A d \in stored : Pending(d) => Pending(d)'
    BY <1>7, PendingMoves DEF StartRebuild
  <2> QED
    BY <1>7, <2>1, PendingKept DEF StartRebuild
<1>8. ASSUME NEW a \in Threads, ResetCollection(a) PROVE CompleteInv'
  <2>1. pc'[a] = "list"
    BY <1>8 DEF ResetCollection
  <2> QED
    BY <2>1 DEF CompleteInv, Pending
<1>9. ASSUME NEW a \in Threads, ListDocuments(a) PROVE CompleteInv'
  <2>1. pc'[a] = "reembed" /\ todo' = stored /\ stored' = stored
    BY <1>9 DEF ListDocuments
  <2> QED
    BY <2>1 DEF CompleteInv, Pending
<1>10. ASSUME NEW a \in Threads, NEW d \in Docs, Reembed(a, d) PROVE CompleteInv'
  <2>1. UNCHANGED <<stored, pc, doc, broken>> /\ todo' = todo \ {d} /\ skipped \subseteq skipped'
    BY <1>10 DEF Reembed
  <2>2. d \in skipped' \/ vectors'[d] # None
    BY <1>10 DEF Reembed
  <2>3. \A e \in Docs : e # d => vectors'[e] = vectors[e]
    BY <1>10 DEF Reembed
  <2>4. \A e \in Docs : e # d /\ Pending(e) => Pending(e)'
    BY <2>1 DEF Pending
  <2> QED
    BY <2>1, <2>2, <2>3, <2>4 DEF CompleteInv
<1>11. ASSUME NEW a \in Threads, FinishRebuild(a) PROVE CompleteInv'
  <2>1. UNCHANGED <<stored, doc, vectors, broken, skipped, todo>> /\ todo = {} /\ pc[a] = "reembed"
    BY <1>11 DEF FinishRebuild
  <2>2. \A u \in Threads : pc'[u] = IF u = a THEN "embed" ELSE pc[u]
    BY <1>11 DEF FinishRebuild
  <2>3. \A e \in stored : Pending(e) => Pending(e)'
    BY <2>1, <2>2 DEF Pending
  <2> QED
    BY <2>1, <2>3 DEF CompleteInv
<1>12. ASSUME NEW a \in Threads, RebuildRaises(a) PROVE CompleteInv'
  BY <1>12 DEF RebuildRaises, CompleteInv
<1>13. ASSUME NEW a \in Threads, Embed(a) PROVE CompleteInv'
  <2>1. UNCHANGED <<stored, doc, vectors, broken, skipped, todo>> /\ pc[a] = "embed"
    BY <1>13 DEF Embed
  <2>2. /\ \A u \in Threads : u # a => pc'[u] = pc[u]
        /\ a \in Indexers => pc'[a] = "upsert"
        /\ a \notin Indexers => pc'[a] = "query"
    BY <1>13 DEF Embed
  <2>3. \A e \in stored : Pending(e) => Pending(e)'
    BY <2>1, <2>2 DEF Pending
  <2> QED
    BY <2>1, <2>3 DEF CompleteInv
<1>14. ASSUME NEW a \in Threads, EmbedFails(a) PROVE CompleteInv'
  <2>1. /\ UNCHANGED <<stored, vectors, broken, todo>> /\ pc[a] = "embed"
        /\ skipped \subseteq skipped' /\ (doc[a] # None => doc[a] \in skipped')
        /\ \A u \in Threads : u # a => pc'[u] = pc[u] /\ doc'[u] = doc[u]
    BY <1>14 DEF EmbedFails
  <2>2. \A e \in stored \ skipped' : Pending(e) => Pending(e)'
    BY <2>1 DEF Pending
  <2> QED
    BY <2>1, <2>2 DEF CompleteInv
<1>15. ASSUME NEW a \in Threads, Upsert(a) PROVE CompleteInv'
  <2>1. /\ UNCHANGED <<stored, doc, broken, skipped, todo>> /\ pc[a] = "upsert"
        /\ \A u \in Threads : u # a => pc'[u] = pc[u]
        /\ vec[a] # None /\ vectors' = [vectors EXCEPT ![doc[a]] = vec[a]]
    BY <1>15 DEF Upsert
  <2>2. \A e \in Docs : IF e = doc[a] THEN vectors'[e] # None ELSE vectors'[e] = vectors[e]
    BY <2>1
  <2>3. \A e \in Docs : e # doc[a] /\ Pending(e) => Pending(e)'
    BY <2>1 DEF Pending
  <2> QED
    BY <2>1, <2>2, <2>3 DEF CompleteInv
<1>16. ASSUME NEW a \in Threads, UpsertRaises(a) PROVE CompleteInv'
  <2>1. /\ UNCHANGED <<stored, broken, todo>> /\ pc[a] = "upsert"
        /\ skipped' = skipped \cup {doc[a]}
        /\ \A u \in Threads : u # a => pc'[u] = pc[u] /\ doc'[u] = doc[u]
    BY <1>16 DEF UpsertRaises
  <2>2. \A e \in Docs : e # doc[a] => vectors'[e] = vectors[e]
    BY <1>16 DEF UpsertRaises
  <2>3. \A e \in Docs : e # doc[a] /\ Pending(e) => Pending(e)'
    BY <2>1 DEF Pending
  <2> QED
    BY <2>1, <2>2, <2>3 DEF CompleteInv
<1>17. ASSUME NEW a \in Threads, LeaveMeta(a) \/ ResolveMeta(a) \/ WriteMeta(a) \/ Query(a)
       PROVE  CompleteInv'
  <2>1. /\ UNCHANGED <<stored, vectors, broken, skipped, todo>> /\ pc[a] \in {"meta", "write", "query"}
        /\ \A u \in Threads : u # a => pc'[u] = pc[u] /\ doc'[u] = doc[u]
    BY <1>17 DEF LeaveMeta, ResolveMeta, WriteMeta, Query
  <2>2. \A e \in stored : Pending(e) => Pending(e)'
    BY <2>1 DEF Pending
  <2> QED
    BY <2>1, <2>2 DEF CompleteInv
<1>21. CASE UNCHANGED vars
  BY <1>21 DEF vars, CompleteInv, Pending
<1> QED
  BY NextCases, <1>1, <1>3, <1>4, <1>5, <1>7, <1>8, <1>9, <1>10, <1>11,
     <1>12, <1>13, <1>14, <1>15, <1>16, <1>17, <1>21

(* Once everything is idle, the index misses no document but those whose      *)
(* embedding or upsert failed, whatever rebuilds and switches overtook their  *)
(* filing - unless a rebuild raised (rag_index.py:238-318, 496-577).          *)
THEOREM NothingIsMissed == Spec => []CompleteWhenIdle
<1>1. Init => CompleteInv
  <2> SUFFICES ASSUME Init PROVE CompleteInv
    OBVIOUS
  <2>1. PICK b \in Backends : vectors = [d \in Docs |-> IF d \in stored THEN b ELSE None]
    BY DEF Init
  <2>2. stored \subseteq Docs /\ b # None
    BY NoneAssumption DEF Init
  <2> QED
    BY <2>1, <2>2 DEF CompleteInv
<1>2. CompleteInv => CompleteWhenIdle
  BY DEF CompleteInv, CompleteWhenIdle, AllIdle, Pending, RebuildPcs
<1> QED
  BY <1>1, <1>2, CompleteNext, RebuildInvariant, PTL DEF Spec

=============================================================================
