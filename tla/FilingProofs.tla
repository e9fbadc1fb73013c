---------------------------- MODULE FilingProofs ----------------------------
(* Safety of the filing core, for any number of scans, reviews, reviewers. *)
EXTENDS Filing, TLAPS

USE DocsAssumption, PathsAssumption, BoundsAssumption, ActorsAssumption,
    SwitchesAssumption

(* The steps of the worker alone, of an actor filing, of a reviewer. *)
LEMMA NextCases ==
  ASSUME [Next]_vars
  PROVE  \/ \E d \in Docs, p \in Paths : Arrive(d, p)
         \/ ClearInbox
         \/ \E paths \in SUBSET Paths : StartJob(paths)
         \/ Cancel \/ NextFile \/ JobDone \/ ReadOk \/ IngestFails \/ Gate
         \/ \E r \in ReviewIds : CreateReview(r)
         \/ AutoFile \/ Finish
         \/ \E q \in Actors : File(q)
         \/ \E t \in Reviewers, r \in ReviewIds, next \in {"check", "reject"} :
              ClaimPending(t, r, next)
         \/ \E t \in Reviewers : \/ RejectRemove(t) \/ RejectResolve(t) \/ RejectFails(t)
                                 \/ Resolve(t) \/ Release(t)
         \/ CrashRestart
         \/ UNCHANGED vars
<1>1. CASE ProcessInbox
  BY <1>1 DEF ProcessInbox
<1>2. CASE \E p \in Paths : ProcessSingle(p)
  BY <1>2 DEF ProcessSingle
<1> QED
  BY <1>1, <1>2 DEF Next, WorkerStep, ReviewerStep, Approve, Reject, Actors

(* Every variable keeps its type, and an actor at a step of a handler holds  *)
(* what the handler passes on to that step (a path, a checksum, a name).     *)
LEMMA TypeInit == Init => TypeOK
<1> SUFFICES ASSUME Init PROVE TypeOK
  OBVIOUS
<1> USE DEF Init
<1>1. Typed
  BY DEF Typed, Statuses, WorkerPcs, ReviewerPcs, Actors
<1>2. Equipped
  BY DEF Equipped, FilingPcs, Actors, ReviewIds
<1> QED BY <1>1, <1>2 DEF TypeOK

\* Every action keeps the types, and what an actor needs for its step.
LEMMA TypeNext == TypeOK /\ [Next]_vars => TypeOK'
<1> SUFFICES ASSUME TypeOK, [Next]_vars PROVE TypeOK'
  OBVIOUS
<1> USE DEF TypeOK, Goto, Forget, folders, reviews, worker, locals
<1>1. ASSUME NEW d \in Docs, NEW p \in Paths, Arrive(d, p) PROVE TypeOK'
  <2> USE <1>1 DEF Arrive
  <2>1. Typed'
    BY DEF Typed
  <2>2. Equipped'
    BY DEF Equipped, Typed
  <2> QED BY <2>1, <2>2
<1>2. CASE ClearInbox
  <2> USE <1>2 DEF ClearInbox
  <2>1. Typed'
    BY DEF Typed
  <2>2. Equipped'
    BY DEF Equipped, Typed
  <2> QED BY <2>1, <2>2
<1>3. ASSUME NEW paths \in SUBSET Paths, StartJob(paths) PROVE TypeOK'
  <2> USE <1>3 DEF StartJob
  <2>1. Typed'
    BY DEF Typed, WorkerPcs, Actors
  <2>2. Equipped'
    BY DEF Equipped, Typed, FilingPcs, Actors
  <2> QED BY <2>1, <2>2
<1>4. CASE Cancel
  <2> USE <1>4 DEF Cancel
  <2>1. Typed'
    BY DEF Typed
  <2>2. Equipped'
    BY DEF Equipped, Typed
  <2> QED BY <2>1, <2>2
<1>5. CASE NextFile
  <2> USE <1>5 DEF NextFile, Unqueue
  <2>1. Typed'
    BY DEF Typed, WorkerPcs, Actors
  <2>2. Equipped'
    BY DEF Equipped, Typed, FilingPcs, Actors
  <2> QED BY <2>1, <2>2
<1>6. CASE JobDone \/ ReadOk \/ IngestFails
  <2> USE <1>6 DEF JobDone, ReadOk, IngestFails
  <2>1. Typed'
    BY DEF Typed, WorkerPcs, Actors
  <2>2. Equipped'
    BY DEF Equipped, Typed, FilingPcs, Actors
  <2> QED BY <2>1, <2>2
<1>7. CASE Gate
  <2> USE <1>7 DEF Gate, FileChecksum
  <2>0. Bytes[inbox[at[Worker]]] \in Sums
    BY DEF Typed, Equipped, Actors
  <2>1. Typed'
    BY <2>0 DEF Typed, WorkerPcs, Actors
  <2>2. Equipped'
    BY <2>0 DEF Equipped, Typed, FilingPcs, Actors
  <2> QED BY <2>1, <2>2
<1>8. ASSUME NEW r \in ReviewIds, CreateReview(r) PROVE TypeOK'
  <2> USE <1>8 DEF CreateReview
  <2>0. at[Worker] \in Paths /\ sum[Worker] \in Sums /\ PendingSums \subseteq PendingSums
    BY DEF Equipped, Actors
  <2>1. Typed'
    <3>1. status' \in [ReviewIds -> Statuses]
      BY DEF Typed, Statuses
    <3>2. proposal' \in [ReviewIds -> [path : Paths \cup {None},
                                       sum : Sums \cup {None}, warned : BOOLEAN]]
      <4>1. (suspect \/ sum[Worker] \in PendingSums) \in BOOLEAN
        BY DEF Typed
      <4> DEFINE warned == suspect \/ sum[Worker] \in PendingSums
      <4> HIDE DEF warned
      <4>2. warned \in BOOLEAN
        BY <4>1 DEF warned
      <4>3. proposal' = [proposal EXCEPT ![r] =
                 [path |-> at[Worker], sum |-> sum[Worker], warned |-> warned]]
        BY DEF warned
      <4> QED BY <2>0, <4>2, <4>3 DEF Typed
    <3> QED BY <3>1, <3>2 DEF Typed, WorkerPcs, Actors
  <2>2. Equipped'
    BY <2>0 DEF Equipped, Typed, FilingPcs, Actors
  <2> QED BY <2>1, <2>2
<1>9. CASE AutoFile \/ Finish
  <2> USE <1>9 DEF AutoFile, Finish
  <2>1. Typed'
    BY DEF Typed, WorkerPcs, Actors
  <2>2. Equipped'
    BY DEF Equipped, Typed, FilingPcs, Actors
  <2> QED BY <2>1, <2>2
<1>10. ASSUME NEW q \in Actors, File(q) PROVE TypeOK'
  <2> USE DEF AfterError, AfterFiled, AfterPartial
  <2>1. CASE CheckMissing(q) \/ NoNameLeft(q) \/ PlaceFails(q)
    <3>1. /\ pc' = [pc EXCEPT ![q] = AfterError(q)]
          /\ pc[q] \in {"check", "place"}
          /\ UNCHANGED <<folders, reviews, locals, worker, arrived>>
      BY <2>1 DEF CheckMissing, NoNameLeft, PlaceFails, FilingError
    <3>2. AfterError(q) \in {"finish", "release"} /\ (q = Worker <=> AfterError(q) = "finish")
      OBVIOUS
    <3> HIDE DEF AfterError
    <3>3. Typed'
      BY <1>10, <3>1, <3>2 DEF Typed, WorkerPcs, ReviewerPcs, Actors
    <3>4. Equipped'
      BY <1>10, <3>1, <3>2 DEF Equipped, Typed, FilingPcs, Actors
    <3> QED BY <3>3, <3>4
  <2>2. CASE CheckCancelled(q) \/ IndexRaises(q) \/ SaveRaises(q)
    <3>1. FilingRaises(q) /\ (q = Worker => pc[q] # "next")
      BY <2>2 DEF CheckCancelled, IndexRaises, SaveRaises
    <3>2. CASE q = Worker
      <4> USE <3>1, <3>2 DEF FilingRaises
      <4>1. Typed'
        BY DEF Typed, WorkerPcs, Actors
      <4>2. Equipped'
        BY DEF Equipped, Typed, FilingPcs, Actors
      <4> QED BY <4>1, <4>2
    <3>3. CASE q # Worker
      <4> USE <3>1, <3>3 DEF FilingRaises
      <4>1. Typed'
        BY DEF Typed, ReviewerPcs, Actors
      <4>2. Equipped'
        BY DEF Equipped, Typed, FilingPcs, Actors, ReviewIds
      <4> QED BY <4>1, <4>2
    <3> QED BY <3>2, <3>3
  <2>3. CASE PickName(q)
    <3> USE <1>10, <2>3 DEF PickName
    <3>1. Typed'
      BY DEF Typed, WorkerPcs, ReviewerPcs, Actors
    <3>2. Equipped'
      BY DEF Equipped, Typed, FilingPcs, Actors
    <3> QED BY <3>1, <3>2
  <2>4. CASE Place(q) \/ SaveFails(q) \/ RetireSource(q)
    <3>1. /\ inbox' \in [Paths -> Docs \cup {None}]
          /\ archive' \in [Names -> Docs \cup {None}]
      BY <1>10, <2>4 DEF Place, SaveFails, RetireSource, Typed, Equipped, FilingPcs, Actors
    <3>2. PICK next \in {"save", "index", AfterError(q)} : pc' = [pc EXCEPT ![q] = next]
      BY <2>4 DEF Place, SaveFails, RetireSource
    <3>3. /\ UNCHANGED <<rows, reviews, locals, worker, arrived>>
          /\ pc[q] \in FilingPcs
          /\ next = "save" => pc[q] = "place"
      BY <1>10, <2>4, <3>2 DEF Place, SaveFails, RetireSource, FilingPcs, Typed
    <3>4. Typed'
      BY <1>10, <3>1, <3>2, <3>3 DEF Typed, WorkerPcs, ReviewerPcs, Actors
    <3>5. Equipped'
      BY <1>10, <3>2, <3>3 DEF Equipped, Typed, FilingPcs, Actors
    <3> QED BY <3>4, <3>5
  <2>5. CASE SaveRow(q)
    <3>0. rows' \subseteq Row
      BY <1>10, <2>5 DEF SaveRow, Typed, Equipped, FilingPcs, Actors, Row, Unreviewed
    <3>a. /\ pc[q] = "save"
          /\ pc' = [pc EXCEPT ![q] = "retire"]
          /\ UNCHANGED <<inbox, archive, reviews, locals, worker, arrived>>
      BY <2>5 DEF SaveRow
    <3>1. Typed'
      BY <1>10, <3>0, <3>a DEF Typed, WorkerPcs, ReviewerPcs, Actors
    <3>2. Equipped'
      BY <1>10, <3>a DEF Equipped, Typed, FilingPcs, Actors
    <3> QED BY <3>1, <3>2
  <2>6. CASE Index(q)
    <3> USE <1>10, <2>6 DEF Index
    <3>1. Typed'
      BY DEF Typed, WorkerPcs, ReviewerPcs, Actors
    <3>2. Equipped'
      BY DEF Equipped, Typed, FilingPcs, Actors
    <3> QED BY <3>1, <3>2
  <2> QED BY <1>10, <2>1, <2>2, <2>3, <2>4, <2>5, <2>6 DEF File
<1>11. ASSUME NEW t \in Reviewers, NEW r \in ReviewIds,
              NEW next \in {"check", "reject"}, ClaimPending(t, r, next)
       PROVE  TypeOK'
  <2> USE <1>11 DEF ClaimPending, Claimable
  <2>1. Typed'
    BY DEF Typed, Equipped, ReviewerPcs, Actors, Statuses
  <2>2. Equipped'
    BY DEF Equipped, Typed, FilingPcs, Actors, ReviewIds
  <2> QED BY <2>1, <2>2
<1>12. ASSUME NEW t \in Reviewers,
              RejectRemove(t) \/ RejectResolve(t) \/ RejectFails(t) \/ Resolve(t) \/ Release(t)
       PROVE  TypeOK'
  <2>0. claim[t] \in ReviewIds \cup {None} /\ (pc[t] # "idle" => status[claim[t]] # "none")
    BY <1>12 DEF Typed, Equipped, Actors
  <2>1. status' \in [ReviewIds -> Statuses]
    BY <1>12 DEF RejectRemove, RejectResolve, RejectFails, Resolve, Release, Released,
                 Typed, Equipped, Statuses, Actors
  <2>2. inbox' \in [Paths -> Docs \cup {None}]
    BY <1>12 DEF RejectRemove, RejectResolve, RejectFails, Resolve, Release,
                 Typed, Equipped, Actors
  <2>3. CASE RejectRemove(t) \/ RejectFails(t)
    <3> USE <2>2, <2>3 DEF RejectRemove, RejectFails
    <3>1. Typed'
      BY DEF Typed, ReviewerPcs, Actors
    <3>2. Equipped'
      BY DEF Equipped, Typed, FilingPcs, Actors
    <3> QED BY <3>1, <3>2
  <2>4. CASE RejectResolve(t) \/ Resolve(t) \/ Release(t)
    <3>1. /\ pc' = [pc EXCEPT ![t] = "idle"]
          /\ at' = [at EXCEPT ![t] = None]
          /\ sum' = [sum EXCEPT ![t] = None]
          /\ claim' = [claim EXCEPT ![t] = None]
          /\ name' = [name EXCEPT ![t] = None]
          /\ pc[t] # "idle"
          /\ UNCHANGED <<archive, rows, proposal, worker, arrived>>
      BY <2>4 DEF RejectResolve, Resolve, Release
    <3>2. Typed'
      BY <2>1, <2>2, <3>1 DEF Typed, ReviewerPcs, Actors
    <3>3. \A r \in ReviewIds : status'[r] # "none" <=> status[r] # "none"
      BY <2>4, <2>0 DEF RejectResolve, Resolve, Release, Released, Typed
    <3>4. Equipped'
      BY <3>1, <3>3 DEF Equipped, Typed, FilingPcs, Actors, ReviewIds
    <3> QED BY <3>2, <3>4
  <2> QED BY <1>12, <2>3, <2>4
<1>13. CASE CrashRestart
  <2> USE <1>13 DEF CrashRestart, Recovered
  <2>1. Typed'
    BY DEF Typed, WorkerPcs, ReviewerPcs, Statuses, Actors
  <2>2. Equipped'
    BY DEF Equipped, Typed, FilingPcs, Actors, ReviewIds
  <2> QED BY <2>1, <2>2
<1>14. CASE UNCHANGED vars
  BY <1>14 DEF vars, Typed, Equipped
<1> QED
  BY NextCases, <1>1, <1>2, <1>3, <1>4, <1>5, <1>6, <1>7, <1>8, <1>9, <1>10,
     <1>11, <1>12, <1>13, <1>14

(* Types are kept by every behaviour. *)
THEOREM TypeCorrect == Spec => []TypeOK
BY TypeInit, TypeNext, PTL DEF Spec

-----------------------------------------------------------------------------
(* Claims. A step leaves the statuses and the reviewers' claims alone, or is *)
(* one of four that do not: create, claim, give up a claim, restart.         *)
GivesUp(t) ==
    /\ pc[t] # "idle"
    /\ claim' = [claim EXCEPT ![t] = None]
    /\ sum' = [sum EXCEPT ![t] = None]
    /\ pc' = [pc EXCEPT ![t] = "idle"]
    /\ proposal' = proposal
    /\ rows' = rows
    /\ \/ status' = status
       \/ \E s \in {"pending", "approved", "rejected"} :
            status' = [status EXCEPT ![claim[t]] = s]

\* How a step can touch a review or a claim.
LEMMA ClaimCases ==
  ASSUME TypeOK, ClaimExclusive, [Next]_vars
  PROVE  \/ /\ UNCHANGED <<status, proposal>>
            /\ \A t \in Reviewers : claim'[t] = claim[t] /\ sum'[t] = sum[t]
         \/ \E r \in ReviewIds : CreateReview(r)
         \/ \E t \in Reviewers, r \in ReviewIds, next \in {"check", "reject"} :
              ClaimPending(t, r, next)
         \/ \E t \in Reviewers : GivesUp(t)
         \/ CrashRestart
<1> USE DEF TypeOK, Typed, folders, reviews, worker, locals
<1>1. ASSUME NEW q \in Actors, File(q)
      PROVE  \/ /\ UNCHANGED <<status, proposal>>
                /\ \A t \in Reviewers : claim'[t] = claim[t] /\ sum'[t] = sum[t]
             \/ q \in Reviewers /\ GivesUp(q)
  <2>1. CASE CheckCancelled(q) \/ IndexRaises(q) \/ SaveRaises(q)
    <3>1. FilingRaises(q) /\ pc[q] # "idle"
      BY <2>1 DEF CheckCancelled, IndexRaises, SaveRaises
    <3> QED BY <1>1, <3>1 DEF FilingRaises, GivesUp, Goto, Forget, Actors
  <2>2. CASE ~(CheckCancelled(q) \/ IndexRaises(q) \/ SaveRaises(q))
    BY <1>1, <2>2 DEF File, CheckMissing, PickName, NoNameLeft, Place, PlaceFails,
       SaveRow, SaveFails, RetireSource, Index, FilingError, Goto
  <2> QED BY <2>1, <2>2
<1>2. ASSUME NEW t \in Reviewers,
             RejectRemove(t) \/ RejectResolve(t) \/ RejectFails(t) \/ Resolve(t) \/ Release(t)
      PROVE  \/ UNCHANGED <<status, proposal, claim, sum>>
             \/ GivesUp(t)
  <2>1. CASE RejectRemove(t) \/ RejectFails(t)
    BY <2>1 DEF RejectRemove, RejectFails
  <2>2. CASE RejectResolve(t) \/ Resolve(t)
    BY <2>2 DEF RejectResolve, Resolve, GivesUp, Goto, Forget
  <2>3. CASE Release(t)
    <3>1. claim[t] \in ReviewIds /\ status[claim[t]] = "processing"
      BY <2>3 DEF Release, ClaimExclusive, Equipped, Actors
    <3> QED BY <2>3, <3>1 DEF Release, Released, GivesUp, Goto, Forget
  <2> QED BY <1>2, <2>1, <2>2, <2>3
<1>3. CASE Finish
  BY <1>3 DEF Finish, Forget, Actors
<1> QED
  BY NextCases, <1>1, <1>2, <1>3 DEF Arrive, ClearInbox, StartJob, Cancel, NextFile,
     JobDone, ReadOk, IngestFails, Gate, AutoFile, vars, Actors

\* No action lets two reviewers into one review.
LEMMA ClaimNext == TypeOK /\ ClaimExclusive /\ [Next]_vars => ClaimExclusive'
<1> SUFFICES ASSUME TypeOK, ClaimExclusive, [Next]_vars PROVE ClaimExclusive'
  OBVIOUS
<1> USE DEF TypeOK, Typed, Actors, ReviewIds
<1>1. CASE UNCHANGED status /\ \A t \in Reviewers : claim'[t] = claim[t]
  BY <1>1 DEF ClaimExclusive
<1>2. ASSUME NEW r \in ReviewIds, CreateReview(r) PROVE ClaimExclusive'
  BY <1>2 DEF CreateReview, ClaimExclusive, locals
<1>3. ASSUME NEW t \in Reviewers, NEW r \in ReviewIds,
             NEW next \in {"check", "reject"}, ClaimPending(t, r, next)
      PROVE  ClaimExclusive'
  BY <1>3 DEF ClaimPending, Claimable, ClaimExclusive
<1>4. ASSUME NEW t \in Reviewers, GivesUp(t) PROVE ClaimExclusive'
  BY <1>4 DEF GivesUp, ClaimExclusive
<1>5. CASE CrashRestart
  BY <1>5 DEF CrashRestart, ClaimExclusive
<1> QED BY ClaimCases, <1>1, <1>2, <1>3, <1>4, <1>5

(* A double-clicked Approve, or an Approve racing a Reject, is carried out   *)
(* once: the compare-and-set of _claim_pending makes claims exclusive.       *)
THEOREM ClaimsAreExclusive == Spec => []ClaimExclusive
<1>1. Init => ClaimExclusive
  BY DEF Init, ClaimExclusive, Actors
<1> QED BY TypeCorrect, ClaimNext, <1>1, PTL DEF Spec

(* Once approved or rejected, a review is never touched again; _mark_resolved *)
(* updates unconditionally, and it is exclusiveness that makes it safe.       *)
THEOREM ResolutionIsFinal == Spec => ResolvedFinal
<1> DEFINE Stays == \A r \in ReviewIds :
                      status[r] \in {"approved", "rejected"} => status'[r] = status[r]
<1>1. TypeOK /\ ClaimExclusive /\ [Next]_vars => Stays
  <2> SUFFICES ASSUME TypeOK, ClaimExclusive, [Next]_vars PROVE Stays
    OBVIOUS
  <2> USE DEF TypeOK, Typed, Actors
  <2>1. ASSUME NEW r \in ReviewIds, CreateReview(r) PROVE Stays
    BY <2>1 DEF CreateReview
  <2>2. ASSUME NEW t \in Reviewers, NEW r \in ReviewIds,
               NEW next \in {"check", "reject"}, ClaimPending(t, r, next)
        PROVE  Stays
    BY <2>2 DEF ClaimPending, Claimable
  <2>3. ASSUME NEW t \in Reviewers, GivesUp(t) PROVE Stays
    BY <2>3 DEF GivesUp, ClaimExclusive, Equipped
  <2>4. CASE CrashRestart
    BY <2>4 DEF CrashRestart, Recovered
  <2> QED BY ClaimCases, <2>1, <2>2, <2>3, <2>4
<1>2. TypeOK /\ ClaimExclusive /\ [Next]_vars => [Stays]_vars
  BY <1>1
<1> QED BY TypeCorrect, ClaimsAreExclusive, <1>2, PTL DEF Spec, ResolvedFinal

-----------------------------------------------------------------------------
(* Approved reviews have their row. A reviewer past the save of its row      *)
(* carries the checksum of its review, and the row is there.                 *)
RowOf(r, s) == \E x \in rows : x.by = r /\ x.sum = s

RowInv ==
    /\ ApprovedHasRow
    /\ \A t \in Reviewers :
        /\ claim[t] # None => sum[t] = proposal[claim[t]].sum
        /\ pc[t] \in {"retire", "index", "resolve"} => RowOf(claim[t], sum[t])

\* Every action keeps the rows of approvals, done or under way.
LEMMA RowNext == TypeOK /\ ClaimExclusive /\ RowInv /\ [Next]_vars => RowInv'
<1> SUFFICES ASSUME TypeOK, ClaimExclusive, RowInv, [Next]_vars PROVE RowInv'
  OBVIOUS
<1> USE DEF TypeOK, Typed, Actors, ReviewIds
<1>1. rows \subseteq rows'
  <2>1. ASSUME NEW q \in Actors, File(q) PROVE rows \subseteq rows'
    BY <2>1 DEF File, CheckMissing, CheckCancelled, PickName, NoNameLeft, Place,
       PlaceFails, SaveRow, SaveFails, RetireSource, Index, IndexRaises, SaveRaises, FilingError,
       FilingRaises, folders
  <2> QED
    BY NextCases, <2>1 DEF Arrive, ClearInbox, StartJob, Cancel, NextFile, JobDone,
       ReadOk, IngestFails, Gate, CreateReview, AutoFile, Finish, ClaimPending,
       RejectRemove, RejectResolve, RejectFails, Resolve, Release, CrashRestart, vars, folders
<1>2. \A r, s : RowOf(r, s) => RowOf(r, s)'
  BY <1>1 DEF RowOf
<1>3. \A t \in Reviewers : claim'[t] # None => sum'[t] = proposal'[claim'[t]].sum
  <2>1. CASE UNCHANGED <<status, proposal>> /\
             \A t \in Reviewers : claim'[t] = claim[t] /\ sum'[t] = sum[t]
    BY <2>1 DEF RowInv
  <2>2. ASSUME NEW r \in ReviewIds, CreateReview(r)
        PROVE  \A t \in Reviewers : claim'[t] # None => sum'[t] = proposal'[claim'[t]].sum
    BY <2>2 DEF CreateReview, RowInv, Equipped, locals
  <2>3. ASSUME NEW t \in Reviewers, NEW r \in ReviewIds,
               NEW next \in {"check", "reject"}, ClaimPending(t, r, next)
        PROVE  \A u \in Reviewers : claim'[u] # None => sum'[u] = proposal'[claim'[u]].sum
    BY <2>3 DEF ClaimPending, RowInv
  <2>4. ASSUME NEW t \in Reviewers, GivesUp(t)
        PROVE  \A u \in Reviewers : claim'[u] # None => sum'[u] = proposal'[claim'[u]].sum
    BY <2>4 DEF GivesUp, RowInv
  <2>5. CASE CrashRestart
    BY <2>5 DEF CrashRestart
  <2> QED BY ClaimCases, <2>1, <2>2, <2>3, <2>4, <2>5
<1>4. ASSUME NEW t \in Reviewers, pc'[t] \in {"retire", "index", "resolve"}
      PROVE  RowOf(claim[t], sum[t])' /\ UNCHANGED <<claim[t], sum[t]>>
  <2>1. ASSUME NEW q \in Actors, File(q)
        PROVE  RowOf(claim[t], sum[t])' /\ UNCHANGED <<claim[t], sum[t]>>
    <3>1. CASE q # t
      <4>1. UNCHANGED <<pc[t], claim[t], sum[t]>>
        BY <2>1, <3>1 DEF File, CheckMissing, CheckCancelled, PickName, NoNameLeft,
           Place, PlaceFails, SaveRow, SaveFails, RetireSource, Index, IndexRaises, SaveRaises,
           FilingError, FilingRaises, folders, reviews, worker, locals, Goto, Forget
      <4> QED BY <1>2, <1>4, <4>1 DEF RowInv
    <3>2. CASE q = t /\ SaveRow(q)
      <4>1. [name |-> name[t], sum |-> sum[t], by |-> claim[t]] \in rows'
        BY <3>2 DEF SaveRow
      <4>2. UNCHANGED <<claim, sum>>
        BY <3>2 DEF SaveRow, locals
      <4> QED BY <4>1, <4>2 DEF RowOf
    <3>3. CASE q = t /\ (RetireSource(q) \/ Index(q))
      BY <1>2, <3>3 DEF RetireSource, Index, RowInv, locals
    <3>4. CASE q = t /\ ~SaveRow(q) /\ ~RetireSource(q) /\ ~Index(q)
      BY <1>4, <2>1, <3>4 DEF File, CheckMissing, CheckCancelled, PickName, NoNameLeft,
         Place, PlaceFails, SaveFails, IndexRaises, SaveRaises, FilingError, FilingRaises,
         AfterError, Goto
    <3> QED BY <2>1, <3>1, <3>2, <3>3, <3>4
  <2>2. ASSUME NEW u \in Reviewers, NEW r \in ReviewIds,
               NEW next \in {"check", "reject"}, ClaimPending(u, r, next)
        PROVE  RowOf(claim[t], sum[t])' /\ UNCHANGED <<claim[t], sum[t]>>
    BY <1>2, <1>4, <2>2 DEF ClaimPending, RowInv, Goto
  <2>3. ASSUME NEW u \in Reviewers,
               RejectRemove(u) \/ RejectResolve(u) \/ RejectFails(u) \/ Resolve(u) \/ Release(u)
        PROVE  RowOf(claim[t], sum[t])' /\ UNCHANGED <<claim[t], sum[t]>>
    BY <1>2, <1>4, <2>3 DEF RejectRemove, RejectResolve, RejectFails, Resolve, Release, RowInv,
       Goto, Forget, locals
  <2>4. CASE CrashRestart
    BY <1>4, <2>4 DEF CrashRestart
  <2>5. CASE UNCHANGED vars
    BY <1>2, <1>4, <2>5 DEF vars, RowInv
  <2>6. CASE \/ \E d \in Docs, p \in Paths : Arrive(d, p)
             \/ ClearInbox
             \/ \E paths \in SUBSET Paths : StartJob(paths)
             \/ Cancel \/ NextFile \/ JobDone \/ ReadOk \/ IngestFails \/ Gate
             \/ \E r \in ReviewIds : CreateReview(r)
             \/ AutoFile \/ Finish
    <3>1. UNCHANGED <<pc[t], claim[t], sum[t]>>
      BY <2>6 DEF Arrive, ClearInbox, StartJob, Cancel, NextFile, JobDone,
         ReadOk, IngestFails, Gate, CreateReview, AutoFile, Finish, Goto, Forget, locals
    <3> QED BY <1>2, <1>4, <3>1 DEF RowInv
  <2> QED BY NextCases, <2>1, <2>2, <2>3, <2>4, <2>5, <2>6
<1>5. ASSUME NEW r \in ReviewIds, status'[r] = "approved"
      PROVE  RowOf(r, proposal[r].sum)' /\ UNCHANGED proposal[r]
  <2>1. CASE status[r] = "approved"
    <3>1. UNCHANGED proposal[r]
      BY <2>1, ClaimCases DEF CreateReview, ClaimPending, GivesUp, CrashRestart
    <3> QED BY <1>1, <2>1, <3>1 DEF RowInv, ApprovedHasRow, RowOf
  <2>2. CASE status[r] # "approved"
    <3>1. PICK t \in Reviewers : Resolve(t)
      <4>1. ASSUME NEW q \in Actors, File(q) PROVE UNCHANGED status
        BY <4>1 DEF File, CheckMissing, CheckCancelled, PickName, NoNameLeft,
           Place, PlaceFails, SaveRow, SaveFails, RetireSource, Index, IndexRaises, SaveRaises,
           FilingError, FilingRaises, reviews
      <4> QED
        BY <1>5, <2>2, <4>1, NextCases DEF Arrive, ClearInbox, StartJob, Cancel,
           NextFile, JobDone, ReadOk, IngestFails, Gate, CreateReview, AutoFile, Finish,
           ClaimPending, RejectRemove, RejectResolve, RejectFails, Release, Released, CrashRestart,
           Recovered, vars, reviews
    <3>2. r = claim[t] /\ UNCHANGED <<proposal, rows>> /\ pc[t] = "resolve"
      BY <1>5, <2>2, <3>1 DEF Resolve, folders
    <3>3. RowOf(claim[t], sum[t]) /\ sum[t] = proposal[claim[t]].sum
      BY <3>2 DEF RowInv
    <3> QED BY <3>2, <3>3 DEF RowOf
  <2> QED BY <2>1, <2>2
<1> QED
  BY <1>3, <1>4, <1>5 DEF RowInv, ApprovedHasRow, RowOf

(* An approval is recorded only for a document that was saved: every         *)
(* approved review has its row, with the checksum the reviewer was shown.    *)
THEOREM ApprovalsAreFiled == Spec => []ApprovedHasRow
<1>1. Init => RowInv
  BY DEF Init, RowInv, ApprovedHasRow, Actors
<1>2. RowInv => ApprovedHasRow
  BY DEF RowInv
<1> QED BY TypeCorrect, ClaimsAreExclusive, RowNext, <1>1, <1>2, PTL DEF Spec

-----------------------------------------------------------------------------
(* Without a restart: a review that is open, or rejected, has no row, and a  *)
(* reviewer that has not saved its row, or is about to give up, has none.    *)
NoRow(r) == \A x \in rows : x.by # r

NoRowInv ==
    /\ \A r \in ReviewIds : status[r] \in {"none", "pending", "rejected"} => NoRow(r)
    /\ \A t \in Reviewers :
        pc[t] \in {"check", "place", "save", "release", "reject", "mark"} => NoRow(claim[t])

\* Every action keeps undecided and rejected reviews without a row.
LEMMA NoRowNext ==
  ASSUME ~AllowCrash
  PROVE  TypeOK /\ ClaimExclusive /\ NoRowInv /\ [Next]_vars => NoRowInv'
<1> SUFFICES ASSUME TypeOK, ClaimExclusive, NoRowInv, [Next]_vars PROVE NoRowInv'
  OBVIOUS
<1> USE DEF TypeOK, Typed, Actors, ReviewIds
<1>1. ASSUME NEW q \in Actors, SaveRow(q) PROVE NoRowInv'
  <2> DEFINE filer == IF q = Worker THEN Unreviewed ELSE claim[q]
             new == [name |-> name[q], sum |-> sum[q], by |-> filer]
  <2>0. rows' = rows \cup {new} /\ new.by = filer
    BY <1>1 DEF SaveRow
  <2>1. /\ UNCHANGED <<status, claim>>
        /\ pc' = [pc EXCEPT ![q] = "retire"]
        /\ \A x \in rows' : x \in rows \/ x.by = filer
    <3> HIDE DEF new, filer
    <3> QED BY <1>1, <2>0 DEF SaveRow, reviews, locals, Goto
  <2>2. CASE q = Worker
    <3>1. filer = 0
      BY <2>2 DEF Unreviewed
    <3>2. \A t \in Reviewers : pc[t] # "idle" => claim[t] \in ReviewIds
      BY DEF Equipped
    <3> HIDE DEF filer
    <3>3. ASSUME NEW r \in ReviewIds, NoRow(r) PROVE NoRow(r)'
      BY <2>1, <3>1, <3>3 DEF NoRow
    <3>4. ASSUME NEW r \in ReviewIds, status'[r] \in {"none", "pending", "rejected"}
          PROVE  NoRow(r)'
      BY <2>1, <3>3, <3>4 DEF NoRowInv
    <3>5. ASSUME NEW t \in Reviewers,
                 pc'[t] \in {"check", "place", "save", "release", "reject", "mark"}
          PROVE  NoRow(claim[t])' /\ claim'[t] = claim[t]
      <4>1. t # q /\ pc[t] = pc'[t]
        BY <2>1, <2>2, <3>5
      <4>2. claim[t] \in ReviewIds /\ NoRow(claim[t])
        BY <3>2, <3>5, <4>1 DEF NoRowInv
      <4> QED BY <2>1, <3>3, <4>2
    <3> QED BY <3>4, <3>5 DEF NoRowInv, NoRow
  <2>3. CASE q # Worker
    <3>1. q \in Reviewers /\ claim[q] \in ReviewIds /\ status[claim[q]] = "processing"
      BY <1>1, <2>3 DEF SaveRow, Equipped, ClaimExclusive
    <3> QED BY <2>1, <2>3, <3>1 DEF NoRowInv, NoRow, ClaimExclusive, Equipped
  <2> QED BY <2>2, <2>3
<1>2. ASSUME NEW q \in Actors, File(q), ~SaveRow(q) PROVE NoRowInv'
  <2>1. UNCHANGED <<rows, status>>
    BY <1>2 DEF File, CheckMissing, CheckCancelled, PickName, NoNameLeft, Place,
       PlaceFails, SaveFails, RetireSource, Index, IndexRaises, SaveRaises, FilingError,
       FilingRaises, folders, reviews
  <2>2. ASSUME NEW t \in Reviewers,
               pc'[t] \in {"check", "place", "save", "release", "reject", "mark"}
        PROVE  /\ pc[t] \in {"check", "place", "save", "release", "reject", "mark"}
               /\ claim'[t] = claim[t]
    BY <1>2, <2>2 DEF File, CheckMissing, CheckCancelled, PickName, NoNameLeft, Place,
       PlaceFails, SaveFails, RetireSource, Index, IndexRaises, SaveRaises, FilingError,
       FilingRaises,
       AfterError, AfterFiled, AfterPartial, Goto, Forget, locals
  <2> QED BY <2>1, <2>2 DEF NoRowInv, NoRow
<1>3. ASSUME NEW t \in Reviewers, NEW r \in ReviewIds,
             NEW next \in {"check", "reject"}, ClaimPending(t, r, next)
      PROVE  NoRowInv'
  BY <1>3 DEF ClaimPending, Claimable, Goto, folders, NoRowInv, NoRow
<1>4. ASSUME NEW t \in Reviewers,
             RejectRemove(t) \/ RejectResolve(t) \/ RejectFails(t) \/ Resolve(t) \/ Release(t)
      PROVE  NoRowInv'
  <2>1. /\ rows' = rows
        /\ \A u \in Reviewers :
             pc'[u] \in {"check", "place", "save", "release", "reject", "mark"}
               => /\ pc[u] \in {"check", "place", "save", "release", "reject", "mark"}
                  /\ claim'[u] = claim[u]
    BY <1>4 DEF RejectRemove, RejectResolve, RejectFails, Resolve, Release, Goto, Forget,
           folders, locals
  <2>2. ASSUME NEW r \in ReviewIds, status'[r] \in {"none", "pending", "rejected"}
        PROVE  NoRow(r)
    <3>1. CASE status'[r] = status[r]
      BY <2>2, <3>1 DEF NoRowInv
    <3>2. CASE status'[r] # status[r]
      <4>1. r = claim[t] /\ pc[t] \in {"release", "mark"}
        BY <1>4, <2>2, <3>2 DEF RejectRemove, RejectResolve, RejectFails, Resolve, Release,
           Released, reviews
      <4> QED BY <4>1 DEF NoRowInv
    <3> QED BY <3>1, <3>2
  <2> QED BY <2>1, <2>2 DEF NoRowInv, NoRow
<1>5. ASSUME NEW r \in ReviewIds, CreateReview(r) PROVE NoRowInv'
  BY <1>5 DEF CreateReview, folders, locals, Goto, NoRowInv, NoRow
<1>6. CASE \/ \E d \in Docs, p \in Paths : Arrive(d, p)
           \/ ClearInbox
           \/ \E paths \in SUBSET Paths : StartJob(paths)
           \/ Cancel \/ NextFile \/ JobDone \/ ReadOk \/ IngestFails \/ Gate
           \/ AutoFile \/ Finish
           \/ UNCHANGED vars
  <2>1. /\ UNCHANGED <<rows, status>>
        /\ \A t \in Reviewers : pc'[t] = pc[t] /\ claim'[t] = claim[t]
    BY <1>6 DEF Arrive, ClearInbox, StartJob, Cancel, NextFile, JobDone, ReadOk,
       IngestFails, Gate, AutoFile, Finish, vars, folders, reviews, locals, Goto, Forget
  <2> QED BY <2>1 DEF NoRowInv, NoRow
<1>7. ~CrashRestart
  BY DEF CrashRestart
<1> QED BY NextCases, <1>1, <1>2, <1>3, <1>4, <1>5, <1>6, <1>7

(* While the server lives, a rejected review has filed nothing.              *)
THEOREM RejectionsFileNothing ==
  ASSUME ~AllowCrash
  PROVE  Spec => []RejectedNeverFiled
<1>1. Init => NoRowInv
  BY DEF Init, NoRowInv, NoRow, Actors
<1>2. NoRowInv => RejectedNeverFiled
  BY DEF NoRowInv, NoRow, RejectedNeverFiled
<1>3. TypeOK /\ ClaimExclusive /\ NoRowInv /\ [Next]_vars => NoRowInv'
  BY NoRowNext
<1> QED BY TypeCorrect, ClaimsAreExclusive, <1>1, <1>2, <1>3, PTL DEF Spec

-----------------------------------------------------------------------------
(* One filer. Where only one actor ever files - one reviewer and approval     *)
(* always required, or the worker alone - the name it picked is still free    *)
(* when it copies the scan there, and its copy is the scan it then retires.   *)
Filers == Reviewers \cup {q \in {Worker} : FALSE \in ApprovalSettings}
OneFiler == \A q, u \in Filers : q = u

FilerInv ==
    /\ RowsBacked
    /\ \A q \in Actors :
        /\ pc[q] \in FilingPcs \cup {"check"} => q \in Filers
        /\ pc[q] = "place" => archive[name[q]] = None
        /\ pc[q] = "save" =>
            /\ archive[name[q]] # None
            /\ \A x \in rows : x.name # name[q]

(* Nothing is in a folder that never arrived; the copy about to be recorded,  *)
(* or just recorded, is the scan the filer took from the inbox.               *)
CustodyInv ==
    /\ \A p \in Paths : inbox[p] # None => inbox[p] \in arrived
    /\ \A n \in Names : archive[n] # None => archive[n] \in arrived
    /\ \A q \in Actors :
        /\ pc[q] \in {"save", "retire"} => archive[name[q]] = inbox[at[q]]
        /\ pc[q] = "retire" => \E x \in rows : x.name = name[q]

\* Apart from the steps of file_and_persist, no step touches the archive or the
\* documents table, or puts an actor into the filing steps but at their start.
LEMMA NotFiling ==
  ASSUME TypeOK, [Next]_vars, ~ \E q \in Actors : File(q)
  PROVE  /\ UNCHANGED <<archive, rows>>
         /\ \A q \in Actors : pc'[q] \in FilingPcs \cup {"check"} =>
              \/ pc'[q] = "check" /\ q \in Filers
              \/ UNCHANGED <<pc[q], name[q], at[q]>>
<1> USE DEF TypeOK, Typed, Actors, Goto, Forget, folders, reviews, worker, locals, FilingPcs
<1>1. CASE \/ \E d \in Docs, p \in Paths : Arrive(d, p)
           \/ ClearInbox \/ Cancel \/ UNCHANGED vars
  BY <1>1 DEF Arrive, ClearInbox, Cancel, vars
<1>2. CASE \/ \E paths \in SUBSET Paths : StartJob(paths)
           \/ NextFile \/ JobDone \/ ReadOk \/ IngestFails \/ Gate
           \/ \E r \in ReviewIds : CreateReview(r)
           \/ Finish
  BY <1>2 DEF StartJob, NextFile, JobDone, ReadOk, IngestFails, Gate, CreateReview, Finish
<1>3. CASE AutoFile
  <2>1. FALSE \in ApprovalSettings
    BY <1>3 DEF AutoFile, MustReview
  <2> QED BY <1>3, <2>1 DEF AutoFile, Filers
<1>4. CASE \E t \in Reviewers, r \in ReviewIds, next \in {"check", "reject"} :
             ClaimPending(t, r, next)
  BY <1>4 DEF ClaimPending, Filers
<1>5. CASE \E t \in Reviewers : \/ RejectRemove(t) \/ RejectResolve(t) \/ RejectFails(t)
                                \/ Resolve(t) \/ Release(t)
  BY <1>5 DEF RejectRemove, RejectResolve, RejectFails, Resolve, Release
<1>6. CASE CrashRestart
  BY <1>6 DEF CrashRestart
<1> QED BY NextCases, <1>1, <1>2, <1>3, <1>4, <1>5, <1>6

\* A step of file_and_persist moves its own actor only.
LEMMA FilingAlone ==
  ASSUME TypeOK, NEW q \in Actors, File(q)
  PROVE  /\ pc[q] \in FilingPcs \cup {"check"}
         /\ arrived' = arrived
         /\ \A u \in Actors \ {q} : UNCHANGED <<pc[u], name[u], at[u]>>
BY DEF File, CheckMissing, CheckCancelled, PickName, NoNameLeft, Place, PlaceFails,
   SaveRow, SaveFails, RetireSource, Index, IndexRaises, SaveRaises, FilingError, FilingRaises,
   Goto, Forget, locals, FilingPcs, TypeOK, Typed

\* Every action keeps the filer's name free until it is taken, and its copy
\* unrecorded until it is saved.
LEMMA FilerNext ==
  ASSUME OneFiler
  PROVE  TypeOK /\ FilerInv /\ [Next]_vars => FilerInv'
<1> SUFFICES ASSUME TypeOK, FilerInv, [Next]_vars PROVE FilerInv'
  OBVIOUS
<1>1. CASE ~ \E q \in Actors : File(q)
  BY <1>1, NotFiling DEF FilerInv, RowsBacked, FilingPcs
<1>2. ASSUME NEW q \in Actors, File(q) PROVE FilerInv'
  <2>1. /\ q \in Filers
        /\ \A u \in Actors \ {q} :
             /\ UNCHANGED <<pc[u], name[u]>>
             /\ pc[u] \notin FilingPcs \cup {"check"}
    BY <1>2, FilingAlone DEF FilerInv, OneFiler
  <2> USE DEF TypeOK, Typed, Goto, Forget, folders, reviews, worker, locals, FilingPcs
  <2>2. CASE PickName(q)
    BY <1>2, <2>1, <2>2 DEF PickName, FilerInv, RowsBacked
  <2>3. CASE Place(q)
    <3>1. name[q] \in Names /\ archive[name[q]] = None /\ pc[q] = "place"
      BY <1>2, <2>3 DEF Place, FilerInv, Equipped
    <3>2. \A x \in rows : x.name # name[q] /\ x.name \in Names
      BY <3>1 DEF FilerInv, RowsBacked, Row
    <3>3. archive' = [archive EXCEPT ![name[q]] = inbox[at[q]]] /\ inbox[at[q]] # None
      BY <2>3 DEF Place
    <3>4. UNCHANGED <<rows, name>> /\ pc' = [pc EXCEPT ![q] = "save"]
      BY <2>3 DEF Place
    <3> QED BY <1>2, <2>1, <3>1, <3>2, <3>3, <3>4 DEF FilerInv, RowsBacked
  <2>4. CASE SaveRow(q)
    <3> DEFINE new == [name |-> name[q], sum |-> sum[q],
                       by |-> IF q = Worker THEN Unreviewed ELSE claim[q]]
    <3>1. archive[name[q]] # None
      BY <1>2, <2>4 DEF SaveRow, FilerInv
    <3>2. rows' = rows \cup {new} /\ new.name = name[q]
      BY <2>4 DEF SaveRow
    <3>3. UNCHANGED <<archive, name>> /\ pc' = [pc EXCEPT ![q] = "retire"]
      BY <2>4 DEF SaveRow
    <3> HIDE DEF new
    <3> QED BY <1>2, <2>1, <3>1, <3>2, <3>3 DEF FilerInv, RowsBacked
  <2>5. CASE SaveFails(q)
    <3>1. /\ name[q] \in Names
          /\ \A x \in rows : x.name # name[q] /\ x.name \in Names
      BY <1>2, <2>5 DEF SaveFails, FilerInv, Equipped, Row
    <3> QED BY <1>2, <2>1, <2>5, <3>1 DEF SaveFails, AfterError, FilerInv, RowsBacked
  <2>6. CASE ~(PickName(q) \/ Place(q) \/ SaveRow(q) \/ SaveFails(q))
    <3>1. UNCHANGED <<archive, rows>>
      BY <1>2, <2>6 DEF File, CheckMissing, CheckCancelled, NoNameLeft, PlaceFails,
         RetireSource, Index, IndexRaises, SaveRaises, FilingError, FilingRaises
    <3>2. pc'[q] \notin {"place", "save"}
      BY <1>2, <2>6 DEF File, CheckMissing, CheckCancelled, NoNameLeft, PlaceFails,
         RetireSource, Index, IndexRaises, SaveRaises, FilingError, FilingRaises, AfterError,
         AfterFiled, AfterPartial
    <3> QED BY <2>1, <3>1, <3>2 DEF FilerInv, RowsBacked
  <2> QED BY <2>2, <2>3, <2>4, <2>5, <2>6
<1> QED BY <1>1, <1>2

(* With a single filer, crashes and failures included, every document row has *)
(* its file: the name was free when it was picked, and stays free until used. *)
THEOREM RowsStayBacked ==
  ASSUME OneFiler
  PROVE  Spec => []RowsBacked
<1>1. Init => FilerInv
  BY DEF Init, FilerInv, RowsBacked, FilingPcs
<1>2. FilerInv => RowsBacked
  BY DEF FilerInv
<1>3. TypeOK /\ FilerInv /\ [Next]_vars => FilerInv'
  BY FilerNext
<1> QED BY TypeCorrect, <1>1, <1>2, <1>3, PTL DEF Spec

-----------------------------------------------------------------------------
(* Custody. With a single filer and an inbox nobody clears, a scan leaves the  *)
(* folders only when a reviewer rejects it.                                    *)

\* The steps that touch a folder, the documents table or the arrivals.
LEMMA FolderCases ==
  ASSUME ~AllowClear, [Next]_vars
  PROVE  \/ \E d \in Docs, p \in Paths : Arrive(d, p)
         \/ \E q \in Actors : Place(q) \/ SaveRow(q) \/ SaveFails(q) \/ RetireSource(q)
         \/ \E t \in Reviewers : RejectRemove(t)
         \/ UNCHANGED <<inbox, archive, rows, arrived>>
BY NextCases DEF ClearInbox, StartJob, Cancel, NextFile, JobDone, ReadOk, IngestFails,
   Gate, CreateReview, AutoFile, Finish, ClaimPending, RejectResolve, RejectFails,
   Resolve, Release, CrashRestart, File, CheckMissing, CheckCancelled, PickName, NoNameLeft, PlaceFails,
   Index, IndexRaises, SaveRaises, FilingError, FilingRaises, vars, folders

\* Every action keeps the filer's copy equal to its source until it is retired.
LEMMA CustodyNext ==
  ASSUME OneFiler, ~AllowClear
  PROVE  TypeOK /\ FilerInv /\ CustodyInv /\ [Next]_vars => CustodyInv'
<1> SUFFICES ASSUME TypeOK, FilerInv, CustodyInv, [Next]_vars PROVE CustodyInv'
  OBVIOUS
<1> USE DEF TypeOK, Typed, Goto, folders, reviews, worker, locals, FilingPcs
<1>1. /\ \A p \in Paths : inbox'[p] # None => inbox'[p] \in arrived'
      /\ \A n \in Names : archive'[n] # None => archive'[n] \in arrived'
  <2>1. ASSUME NEW q \in Actors, Place(q) \/ SaveFails(q) \/ SaveRow(q) \/ RetireSource(q)
        PROVE  at[q] \in Paths /\ name[q] \in Names
    BY <2>1 DEF Place, SaveFails, SaveRow, RetireSource, Equipped
  <2>2. ASSUME NEW t \in Reviewers, RejectRemove(t) PROVE at[t] \in Paths
    BY <2>2 DEF RejectRemove, Equipped, Actors
  <2>3. CASE \E d \in Docs, p \in Paths : Arrive(d, p)
    BY <2>3 DEF Arrive, CustodyInv
  <2>4. ASSUME NEW q \in Actors, Place(q) \/ SaveFails(q) \/ SaveRow(q) \/ RetireSource(q)
        PROVE  /\ \A p \in Paths : inbox'[p] # None => inbox'[p] \in arrived'
               /\ \A n \in Names : archive'[n] # None => archive'[n] \in arrived'
    BY <2>1, <2>4 DEF Place, SaveFails, SaveRow, RetireSource, CustodyInv
  <2>5. ASSUME NEW t \in Reviewers, RejectRemove(t)
        PROVE  /\ \A p \in Paths : inbox'[p] # None => inbox'[p] \in arrived'
               /\ \A n \in Names : archive'[n] # None => archive'[n] \in arrived'
    BY <2>2, <2>5 DEF RejectRemove, CustodyInv
  <2> QED
    BY FolderCases, <2>3, <2>4, <2>5 DEF CustodyInv
<1>2. ASSUME NEW q \in Actors, pc'[q] \in {"save", "retire"}
      PROVE  /\ archive'[name'[q]] = inbox'[at'[q]]
             /\ pc'[q] = "retire" => \E x \in rows' : x.name = name'[q]
  <2>1. CASE \E u \in Actors : File(u)
    <3>1. File(q)
      BY <1>2, <2>1, FilingAlone DEF FilerInv, OneFiler
    <3>2. Place(q) \/ SaveRow(q)
      BY <1>2, <3>1 DEF File, CheckMissing, CheckCancelled, PickName, NoNameLeft,
         PlaceFails, SaveFails, RetireSource, Index, IndexRaises, SaveRaises, FilingError,
         FilingRaises, AfterError, AfterFiled, AfterPartial, Forget
    <3>3. CASE Place(q)
      BY <1>2, <3>3 DEF Place, Equipped
    <3>4. CASE SaveRow(q)
      <4>1. UNCHANGED <<archive, inbox, name, at>>
        BY <3>4 DEF SaveRow
      <4>2. archive[name[q]] = inbox[at[q]]
        BY <3>4 DEF SaveRow, CustodyInv
      <4> DEFINE new == [name |-> name[q], sum |-> sum[q],
                         by |-> IF q = Worker THEN Unreviewed ELSE claim[q]]
      <4>3. new \in rows' /\ new.name = name[q]
        BY <3>4 DEF SaveRow
      <4> HIDE DEF new
      <4> QED BY <4>1, <4>2, <4>3
    <3> QED BY <3>2, <3>3, <3>4
  <2>2. CASE ~ \E u \in Actors : File(u)
    <3>1. UNCHANGED <<archive, rows, pc[q], name[q], at[q]>>
      BY <1>2, <2>2, NotFiling
    <3>2. /\ archive[name[q]] = inbox[at[q]]
          /\ pc[q] = "retire" => \E x \in rows : x.name = name[q]
          /\ at[q] \in Paths
      BY <1>2, <3>1 DEF CustodyInv, Equipped
    <3>3. CASE \E d \in Docs, p \in Paths : Arrive(d, p)
      <4>1. archive[name[q]] # None
        BY <1>2, <3>1, <3>2 DEF FilerInv, RowsBacked
      <4> QED BY <3>1, <3>2, <3>3, <4>1 DEF Arrive
    <3>4. CASE UNCHANGED inbox
      BY <3>1, <3>2, <3>4
    <3>5. CASE \E t \in Reviewers : RejectRemove(t)
      <4>1. PICK t \in Reviewers : RejectRemove(t)
        BY <3>5
      <4>2. q = t
        BY <1>2, <3>1 DEF FilerInv, OneFiler, Filers
      <4> QED BY <1>2, <4>1, <4>2 DEF RejectRemove, Actors
    <3> QED BY <2>2, <3>3, <3>4, <3>5, FolderCases DEF File
  <2> QED BY <2>1, <2>2
<1> QED BY <1>1, <1>2 DEF CustodyInv

Filed(d) == \E x \in rows : archive[x.name] = d
Here(d) == InInbox(d) \/ InArchive(d)

\* A filed scan is in the archive.
LEMMA FiledIsHere == ASSUME TypeOK, NEW d, Filed(d) PROVE Here(d)
BY DEF Filed, Here, InArchive, TypeOK, Typed, Row

\* No step takes away the file behind a row.
LEMMA FiledForGood ==
  ASSUME OneFiler, ~AllowClear, TypeOK, FilerInv, [Next]_vars, NEW d, Filed(d)
  PROVE  Filed(d)'
<1> USE DEF TypeOK, Typed, folders
<1>1. PICK x \in rows : archive[x.name] = d
  BY DEF Filed
<1>2. x \in rows'
  BY FolderCases DEF Arrive, Place, SaveRow, SaveFails, RetireSource, RejectRemove
<1>3. archive'[x.name] = archive[x.name]
  <2>1. ASSUME NEW q \in Actors, Place(q) \/ SaveFails(q)
        PROVE  x.name # name[q] /\ name[q] \in Names /\ x.name \in Names
    <3>1. name[q] \in Names /\ x.name \in Names
      BY <2>1 DEF Place, SaveFails, Equipped, FilingPcs, Row
    <3> QED BY <2>1, <3>1 DEF Place, SaveFails, FilerInv, RowsBacked
  <2> QED
    BY FolderCases, <2>1 DEF Arrive, Place, SaveRow, SaveFails, RetireSource, RejectRemove
<1> QED BY <1>1, <1>2, <1>3 DEF Filed

\* A scan that is no longer here was just rejected.
LEMMA Departure ==
  ASSUME OneFiler, ~AllowClear, TypeOK, FilerInv, CustodyInv, [Next]_vars,
         NEW d \in Docs, Here(d), ~Here(d)'
  PROVE  \E t \in Reviewers : RejectRemove(t) /\ inbox[at[t]] = d
<1> USE DEF TypeOK, Typed, folders
<1>1. ASSUME NEW e \in Docs, NEW p \in Paths, Arrive(e, p) PROVE FALSE
  BY <1>1 DEF Arrive, Here, InInbox, InArchive
<1>2. ASSUME NEW q \in Actors, Place(q) PROVE FALSE
  <2>1. archive[name[q]] = None /\ name[q] \in Names
    BY <1>2 DEF Place, FilerInv, Equipped, FilingPcs
  <2> QED BY <1>2, <2>1 DEF Place, Here, InInbox, InArchive
<1>3. ASSUME NEW q \in Actors, SaveRow(q) PROVE FALSE
  BY <1>3 DEF SaveRow, Here, InInbox, InArchive
<1>4. ASSUME NEW q \in Actors, SaveFails(q) PROVE FALSE
  <2>1. archive[name[q]] = inbox[at[q]] /\ name[q] \in Names /\ at[q] \in Paths
    BY <1>4 DEF SaveFails, CustodyInv, Equipped, FilingPcs
  <2> QED BY <1>4, <2>1 DEF SaveFails, Here, InInbox, InArchive
<1>5. ASSUME NEW q \in Actors, RetireSource(q) PROVE FALSE
  <2>1. archive[name[q]] = inbox[at[q]] /\ name[q] \in Names /\ at[q] \in Paths
    BY <1>5 DEF RetireSource, CustodyInv, Equipped, FilingPcs
  <2> QED BY <1>5, <2>1 DEF RetireSource, Here, InInbox, InArchive
<1>6. ASSUME NEW t \in Reviewers, RejectRemove(t) PROVE inbox[at[t]] = d
  BY <1>6 DEF RejectRemove, Here, InInbox, InArchive
<1>7. ~ UNCHANGED <<inbox, archive, rows, arrived>>
  BY DEF Here, InInbox, InArchive
<1> QED BY FolderCases, <1>1, <1>2, <1>3, <1>4, <1>5, <1>6, <1>7

\* Types, the single filer's hold on its name, and the custody invariant.
LEMMA CustodyHolds ==
  ASSUME OneFiler, ~AllowClear
  PROVE  Spec => [](TypeOK /\ FilerInv /\ CustodyInv)
<1>1. Init => FilerInv /\ CustodyInv
  BY DEF Init, FilerInv, CustodyInv, RowsBacked, FilingPcs
<1>2. TypeOK /\ FilerInv /\ [Next]_vars => FilerInv'
  BY FilerNext
<1>3. TypeOK /\ FilerInv /\ CustodyInv /\ [Next]_vars => CustodyInv'
  BY CustodyNext
<1> QED BY TypeCorrect, <1>1, <1>2, <1>3, PTL DEF Spec

(* No failure, restart or race of the worker with the one filer loses a scan:  *)
(* it leaves inbox and archive only by being rejected.                         *)
THEOREM ScansAreKept ==
  ASSUME OneFiler, ~AllowClear
  PROVE  Spec => OnlyRejectDiscards
<1> DEFINE Kept ==
      \A d \in arrived :
        (InInbox(d) \/ InArchive(d)) /\ ~(InInbox(d) \/ InArchive(d))'
          => \E t \in Reviewers : pc[t] = "reject" /\ inbox[at[t]] = d
<1>1. TypeOK /\ FilerInv /\ CustodyInv /\ [Next]_vars => Kept
  BY Departure DEF Here, RejectRemove, TypeOK, Typed
<1>2. TypeOK /\ FilerInv /\ CustodyInv /\ [Next]_vars => [Kept]_vars
  BY <1>1
<1> QED BY CustodyHolds, <1>2, PTL DEF Spec, OnlyRejectDiscards

-----------------------------------------------------------------------------
(* The refinement of Custody, one scan at a time.                              *)

\* What becomes of a scan in a step, and which step it was.
LEMMA CustodyChanges ==
  ASSUME OneFiler, ~AllowClear, TypeOK, FilerInv, CustodyInv, [Next]_vars,
         NEW d \in Docs, CustodyOf(d)' # CustodyOf(d)
  PROVE  \/ /\ CustodyOf(d) = "absent" /\ CustodyOf(d)' = "held"
            /\ \E p \in Paths : Arrive(d, p)
         \/ /\ CustodyOf(d) = "held" /\ CustodyOf(d)' = "filed"
            /\ \E q \in Actors : SaveRow(q) /\ archive[name[q]] = d
         \/ /\ CustodyOf(d) = "held" /\ CustodyOf(d)' = "discarded"
            /\ \E t \in Reviewers : RejectRemove(t) /\ inbox[at[t]] = d
<1> USE DEF TypeOK, Typed, folders
<1>1. CustodyOf(d) = IF Filed(d) THEN "filed" ELSE IF Here(d) THEN "held"
                     ELSE IF d \in arrived THEN "discarded" ELSE "absent"
  BY DEF CustodyOf, Filed, Here
<1>2. CustodyOf(d)' = IF Filed(d)' THEN "filed" ELSE IF Here(d)' THEN "held"
                      ELSE IF d \in arrived' THEN "discarded" ELSE "absent"
  BY DEF CustodyOf, Filed, Here
<1>3. Here(d) => d \in arrived
  BY DEF Here, InInbox, InArchive, CustodyInv
<1>4. /\ Filed(d) => Here(d)
      /\ Filed(d)' => Here(d)'
  <2>1. TypeOK'
    BY TypeNext
  <2> QED BY <2>1, FiledIsHere DEF Filed, Here, InArchive, Row
<1>5. arrived \subseteq arrived'
  BY FolderCases DEF Arrive, Place, SaveRow, SaveFails, RetireSource, RejectRemove
<1>6. CASE Here(d)' /\ ~Here(d)
  <2>1. ASSUME NEW q \in Actors, Place(q) \/ SaveFails(q) \/ SaveRow(q) \/ RetireSource(q)
        PROVE  FALSE
    <3>1. at[q] \in Paths /\ name[q] \in Names
      BY <2>1 DEF Place, SaveFails, SaveRow, RetireSource, Equipped, FilingPcs
    <3> QED BY <1>6, <2>1, <3>1 DEF Place, SaveFails, SaveRow, RetireSource, Here,
           InInbox, InArchive
  <2>2. ASSUME NEW t \in Reviewers, RejectRemove(t) PROVE FALSE
    BY <1>6, <2>2 DEF RejectRemove, Here, InInbox, InArchive
  <2>3. PICK e \in Docs, p \in Paths : Arrive(e, p)
    BY <1>6, FolderCases, <2>1, <2>2 DEF Here, InInbox, InArchive
  <2>4. e = d /\ d \notin arrived
    BY <1>6, <2>3 DEF Arrive, Here, InInbox, InArchive
  <2>5. ~Filed(d)'
    BY <1>4, <1>6, <2>3 DEF Arrive, Filed
  <2> QED BY <1>1, <1>2, <1>4, <1>6, <2>3, <2>4, <2>5
<1>7. CASE ~Here(d)' /\ Here(d)
  <2>1. PICK t \in Reviewers : RejectRemove(t) /\ inbox[at[t]] = d
    BY <1>7, Departure
  <2>2. ~Filed(d)
    BY <1>4, <1>7, FiledForGood
  <2> QED BY <1>1, <1>2, <1>3, <1>4, <1>5, <1>7, <2>1, <2>2
<1>8. CASE (Here(d)' <=> Here(d)) /\ Filed(d)' /\ ~Filed(d)
  <2>1. ASSUME NEW q \in Actors, Place(q) \/ SaveFails(q) PROVE FALSE
    <3>1. /\ \A x \in rows : x.name # name[q] /\ x.name \in Names
          /\ name[q] \in Names
      BY <2>1 DEF Place, SaveFails, FilerInv, RowsBacked, Equipped, FilingPcs, Row
    <3> QED BY <1>8, <2>1, <3>1 DEF Place, SaveFails, Filed
  <2>2. PICK q \in Actors : SaveRow(q)
    BY <1>8, <2>1, FolderCases DEF Arrive, RetireSource, RejectRemove, Filed
  <2>3. archive[name[q]] = d
    <3> DEFINE new == [name |-> name[q], sum |-> sum[q],
                       by |-> IF q = Worker THEN Unreviewed ELSE claim[q]]
    <3>1. rows' = rows \cup {new} /\ new.name = name[q] /\ archive' = archive
      BY <2>2 DEF SaveRow
    <3> HIDE DEF new
    <3> QED BY <1>8, <3>1 DEF Filed
  <2> QED BY <1>1, <1>2, <1>4, <1>8, <2>2, <2>3
<1>9. CASE (Here(d)' <=> Here(d)) /\ (Filed(d)' <=> Filed(d))
  <2>1. d \in arrived' /\ d \notin arrived
    BY <1>1, <1>2, <1>5, <1>9
  <2>2. PICK e \in Docs, p \in Paths : Arrive(e, p)
    BY <2>1, FolderCases DEF Place, SaveRow, SaveFails, RetireSource, RejectRemove
  <2>3. Here(d)'
    BY <2>1, <2>2 DEF Arrive, Here, InInbox
  <2> QED BY <1>3, <1>9, <2>1, <2>3
<1> QED BY <1>6, <1>7, <1>8, <1>9, FiledForGood

\* A step changes the custody of one scan at most.
LEMMA OneChange ==
  ASSUME OneFiler, ~AllowClear, TypeOK, FilerInv, CustodyInv, [Next]_vars,
         NEW d \in Docs, NEW e \in Docs,
         CustodyOf(d)' # CustodyOf(d), CustodyOf(e)' # CustodyOf(e)
  PROVE  d = e
<1> USE DEF TypeOK, Typed, Goto, Actors
<1>1. \A q, u \in Actors : SaveRow(q) /\ SaveRow(u) => q = u
  BY DEF SaveRow
<1>2. \A t, u \in Reviewers : RejectRemove(t) /\ RejectRemove(u) => t = u
  BY DEF RejectRemove
<1>3. \A q \in Actors, t \in Reviewers : ~(SaveRow(q) /\ RejectRemove(t))
  BY DEF SaveRow, RejectRemove
<1>4. \A p \in Paths, c \in Docs, q \in Actors : ~(Arrive(c, p) /\ SaveRow(q))
  BY DEF SaveRow, Arrive
<1>5. \A p \in Paths, c \in Docs, t \in Reviewers : ~(Arrive(c, p) /\ RejectRemove(t))
  BY DEF RejectRemove, Arrive
<1>6. \A p, o \in Paths : Arrive(d, p) /\ Arrive(e, o) => d = e
  BY DEF Arrive
<1> QED BY CustodyChanges, <1>1, <1>2, <1>3, <1>4, <1>5, <1>6

\* A step of the filing core is a step of Custody, or none.
LEMMA CustodyStep ==
  ASSUME OneFiler, ~AllowClear
  PROVE  TypeOK /\ FilerInv /\ CustodyInv /\ [Next]_vars
            => [Promise!Next]_([d \in Docs |-> CustodyOf(d)])
<1> SUFFICES ASSUME TypeOK, FilerInv, CustodyInv, [Next]_vars
             PROVE  [Promise!Next]_([d \in Docs |-> CustodyOf(d)])
  OBVIOUS
<1>1. CASE \A d \in Docs : CustodyOf(d)' = CustodyOf(d)
  BY <1>1
<1>2. ASSUME NEW d \in Docs, CustodyOf(d)' # CustodyOf(d)
      PROVE  Promise!Next
  <2>1. \A e \in Docs : e # d => CustodyOf(e)' = CustodyOf(e)
    BY <1>2, OneChange
  <2>2. [e \in Docs |-> CustodyOf(e)]'
          = [[e \in Docs |-> CustodyOf(e)] EXCEPT ![d] = CustodyOf(d)']
    BY <2>1
  <2>3. \/ CustodyOf(d) = "absent" /\ CustodyOf(d)' = "held"
        \/ CustodyOf(d) = "held" /\ CustodyOf(d)' = "filed"
        \/ CustodyOf(d) = "held" /\ CustodyOf(d)' = "discarded"
    BY <1>2, CustodyChanges
  <2>4. Promise!Arrive(d) \/ Promise!File(d) \/ Promise!Discard(d)
    BY <2>2, <2>3 DEF Promise!Arrive, Promise!File, Promise!Discard, Promise!Move
  <2> QED BY <2>4 DEF Promise!Next
<1> QED BY <1>1, <1>2

(* The filing core implements Custody: a scan taken in is held until it is     *)
(* filed, for good, or discarded, and nothing else ever becomes of it.         *)
THEOREM FilingImplementsCustody ==
  ASSUME OneFiler, ~AllowClear
  PROVE  Spec => KeepsCustody
<1>1. Init => Promise!Init
  BY DEF Init, Promise!Init, CustodyOf, InInbox, InArchive
<1>2. TypeOK /\ FilerInv /\ CustodyInv /\ [Next]_vars
        => [Promise!Next]_([d \in Docs |-> CustodyOf(d)])
  BY CustodyStep
<1> QED BY CustodyHolds, <1>1, <1>2, PTL DEF Spec, KeepsCustody, Promise!Spec

=============================================================================
