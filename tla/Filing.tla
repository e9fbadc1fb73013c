------------------------------- MODULE Filing -------------------------------
(***************************************************************************)
(* The filing core: scans arrive in the inbox folder, the ingest worker     *)
(* reads them one at a time and either queues a review or files them, and   *)
(* reviewers (HTTP handler threads) approve or reject the queued reviews.   *)
(*                                                                          *)
(*   deepcatalog/inbox_worker.py   the worker: one job at a time            *)
(*   deepcatalog/job_control.py    the cancel scope, global to the process  *)
(*   deepcatalog/ingest.py         read, duplicate check, human gate        *)
(*   deepcatalog/review.py         claim, approve, reject, recover          *)
(*   deepcatalog/pipeline/agents.py  file_and_persist, run by both          *)
(*                                                                          *)
(* The worker is a coroutine on the event loop; it yields only while it     *)
(* reads (OCR and LLM), so only then can a cancel request run.  Reviewers    *)
(* and "clear inbox" are threads and interleave with every step.            *)
(***************************************************************************)
EXTENDS Integers, FiniteSets

CONSTANTS
    Docs,              \* scans, each an arrival of its own even if the bytes are equal
    Sums,              \* file checksums
    Bytes,             \* Bytes[d]: the checksum of scan d
    Paths,             \* inbox file names, numbered in listing order
    MaxNames,          \* archive names stem, stem_2, .. of the one category folder
    MaxReviews,        \* bound: reviews ever created
    Reviewers,         \* HTTP threads that approve and reject
    Worker,            \* the ingest worker
    ApprovalSettings,  \* values the require-approval setting takes over time
    AllowClear,        \* whether "clear inbox" is used
    AllowCrash,        \* whether the server dies and restarts
    None

ASSUME DocsAssumption == Bytes \in [Docs -> Sums] /\ None \notin Docs \cup Sums
ASSUME PathsAssumption == Paths \subseteq Nat /\ IsFiniteSet(Paths) /\ None \notin Paths
ASSUME BoundsAssumption ==
    MaxNames \in Nat /\ MaxReviews \in Nat /\ None \notin Nat
ASSUME ActorsAssumption == Worker \notin Reviewers
ASSUME SwitchesAssumption ==
    /\ ApprovalSettings \subseteq BOOLEAN
    /\ AllowClear \in BOOLEAN
    /\ AllowCrash \in BOOLEAN

Names == 1..MaxNames
ReviewIds == 1..MaxReviews
Actors == Reviewers \cup {Worker}
Statuses == {"none", "pending", "processing", "approved", "rejected"}
Unreviewed == 0  \* the filer of a document nobody reviewed

VARIABLES
    inbox,      \* the inbox folder: path -> scan
    archive,    \* the category folder: name -> scan
    rows,       \* the documents table
    status,     \* reviews.status, "none" before the review is created
    proposal,   \* the review's source path, checksum and duplicate warning
    pc,         \* where each actor is
    at,         \* the path an actor works on
    sum,        \* the checksum it carries (of the gate, or of the review)
    claim,      \* the review a reviewer has claimed
    name,       \* the archive name it picked
    queue,      \* the worker's snapshot of paths still to process
    cancelled,  \* the global cancel event is set
    suspect,    \* the worker's duplicate check found something
    arrived     \* history: scans that have reached the inbox

folders == <<inbox, archive, rows>>
reviews == <<status, proposal>>
worker == <<queue, cancelled, suspect>>
locals == <<at, sum, claim, name>>
vars == <<inbox, archive, rows, status, proposal, pc, at, sum, claim, name,
          queue, cancelled, suspect, arrived>>

ReviewerPcs == {"idle", "check", "place", "save", "retire", "index",
                "resolve", "release", "reject", "mark"}
WorkerPcs == {"idle", "next", "read", "gate", "decide", "check", "place",
              "save", "retire", "index", "finish"}
FilingPcs == {"place", "save", "retire", "index", "resolve"}

Row == [name : Names, sum : Sums, by : ReviewIds \cup {Unreviewed}]

(* What an actor holds at each of its steps. *)
Equipped ==
    /\ \A q \in Actors :
        /\ pc[q] \notin {"idle", "next", "finish"} => at[q] \in Paths
        /\ pc[q] \in FilingPcs \cup {"check", "decide"} => sum[q] \in Sums
        /\ pc[q] \in FilingPcs => name[q] \in Names
    /\ \A t \in Reviewers :
        /\ pc[t] # "idle" <=> claim[t] # None
        /\ claim[t] # None => status[claim[t]] # "none"
    /\ \A r \in ReviewIds : status[r] # "none" =>
        proposal[r].path \in Paths /\ proposal[r].sum \in Sums

Typed ==
    /\ inbox \in [Paths -> Docs \cup {None}]
    /\ archive \in [Names -> Docs \cup {None}]
    /\ rows \subseteq Row
    /\ status \in [ReviewIds -> Statuses]
    /\ proposal \in [ReviewIds -> [path : Paths \cup {None}, sum : Sums \cup {None},
                                   warned : BOOLEAN]]
    /\ pc \in [Actors -> ReviewerPcs \cup WorkerPcs]
    /\ pc[Worker] \in WorkerPcs
    /\ \A t \in Reviewers : pc[t] \in ReviewerPcs
    /\ at \in [Actors -> Paths \cup {None}]
    /\ sum \in [Actors -> Sums \cup {None}]
    /\ claim \in [Actors -> ReviewIds \cup {None}]
    /\ name \in [Actors -> Names \cup {None}]
    /\ queue \subseteq Paths
    /\ cancelled \in BOOLEAN
    /\ suspect \in BOOLEAN
    /\ arrived \subseteq Docs

TypeOK == Typed /\ Equipped

Init ==
    /\ inbox = [p \in Paths |-> None]
    /\ archive = [n \in Names |-> None]
    /\ rows = {}
    /\ status = [r \in ReviewIds |-> "none"]
    /\ proposal = [r \in ReviewIds |-> [path |-> None, sum |-> None, warned |-> FALSE]]
    /\ pc = [q \in Actors |-> "idle"]
    /\ at = [q \in Actors |-> None]
    /\ sum = [q \in Actors |-> None]
    /\ claim = [q \in Actors |-> None]
    /\ name = [q \in Actors |-> None]
    /\ queue = {}
    /\ cancelled = FALSE
    /\ suspect = FALSE
    /\ arrived = {}

-----------------------------------------------------------------------------
(* Queries on the reviews table. *)

PendingPaths == {proposal[r].path : r \in {x \in ReviewIds : status[x] = "pending"}}
PendingSums == {proposal[r].sum : r \in {x \in ReviewIds : status[x] = "pending"}}
Unused == {r \in ReviewIds : status[r] = "none"}

Goto(q, label) == pc' = [pc EXCEPT ![q] = label]

(* An actor lets go of everything it worked with. *)
Forget(q) ==
    /\ at' = [at EXCEPT ![q] = None]
    /\ sum' = [sum EXCEPT ![q] = None]
    /\ claim' = [claim EXCEPT ![q] = None]
    /\ name' = [name EXCEPT ![q] = None]

-----------------------------------------------------------------------------
(* The inbox folder. *)

(* A scan lands on a free inbox path: an upload, a drop, or a network scanner. *)
Arrive(d, p) ==
    /\ d \notin arrived
    /\ inbox[p] = None
    /\ inbox' = [inbox EXCEPT ![p] = d]
    /\ arrived' = arrived \cup {d}
    /\ UNCHANGED <<archive, rows, reviews, pc, locals, worker>>

(* DELETE /api/inbox: every scan goes, whatever is pending or being filed. *)
ClearInbox ==
    /\ AllowClear
    /\ \E p \in Paths : inbox[p] # None
    /\ inbox' = [p \in Paths |-> None]
    /\ UNCHANGED <<archive, rows, reviews, pc, locals, worker, arrived>>

-----------------------------------------------------------------------------
(* The worker. A job starts when the process lock is free, which is when the *)
(* worker is idle. The guard on Unused is the bound MaxReviews.              *)

StartJob(paths) ==
    /\ pc[Worker] = "idle"
    /\ paths # {}
    /\ Cardinality(paths) <= Cardinality(Unused)
    /\ queue' = paths
    /\ Goto(Worker, "next")
    /\ UNCHANGED <<folders, reviews, locals, cancelled, suspect, arrived>>

(* Poller, or POST /api/process-inbox: every listed file not awaiting review. *)
ProcessInbox == StartJob({p \in Paths : inbox[p] # None} \ PendingPaths)

(* POST /api/process or /api/retry of one path while nothing runs. *)
ProcessSingle(p) == p \notin PendingPaths /\ StartJob({p})

NeverAdvances(p) == queue  \* mutant: a failed file is retried at once, for ever
Unqueue(p) == queue \ {p}

(* The next file in listing order gets a fresh cancel scope. *)
NextFile ==
    /\ pc[Worker] = "next"
    /\ \E p \in queue :
        /\ \A o \in queue : p <= o
        /\ queue' = Unqueue(p)
        /\ at' = [at EXCEPT ![Worker] = p]
    /\ cancelled' = FALSE
    /\ Goto(Worker, "read")
    /\ UNCHANGED <<folders, reviews, sum, claim, name, suspect, arrived>>

JobDone ==
    /\ pc[Worker] = "next"
    /\ queue = {}
    /\ Goto(Worker, "idle")
    /\ UNCHANGED <<folders, reviews, locals, worker, arrived>>

(* POST /api/cancel, or /api/retry of the file being read. *)
Cancel ==
    /\ pc[Worker] = "read"
    /\ ~cancelled
    /\ cancelled' = TRUE
    /\ UNCHANGED <<folders, reviews, pc, locals, queue, suspect, arrived>>

(* OCR and extraction succeeded; the last cancel check has passed. *)
ReadOk ==
    /\ pc[Worker] = "read"
    /\ ~cancelled
    /\ inbox[at[Worker]] # None
    /\ Goto(Worker, "gate")
    /\ UNCHANGED <<folders, reviews, locals, worker, arrived>>

(* Cancelled, unreadable, gone, or a database error before anything is filed. *)
IngestFails ==
    /\ pc[Worker] \in {"read", "gate", "decide"}
    /\ Goto(Worker, "finish")
    /\ UNCHANGED <<folders, reviews, locals, worker, arrived>>

FileChecksum(d) == Bytes[d]

(* Checksum of the file as it is now, and a look at the documents table: an  *)
(* exact match always counts, a similar text may.                            *)
Gate ==
    /\ pc[Worker] = "gate"
    /\ inbox[at[Worker]] # None
    /\ LET s == FileChecksum(inbox[at[Worker]])
           exact == \E x \in rows : x.sum = s
       IN  /\ sum' = [sum EXCEPT ![Worker] = s]
           /\ \E similar \in BOOLEAN :
                /\ similar => rows # {}
                /\ suspect' = (exact \/ similar)
    /\ Goto(Worker, "decide")
    /\ UNCHANGED <<folders, reviews, at, claim, name, queue, cancelled, arrived>>

MustReview(required) == required \/ suspect \/ sum[Worker] \in PendingSums

(* The gate sends the file to a person. *)
CreateReview(r) ==
    /\ pc[Worker] = "decide"
    /\ \E required \in ApprovalSettings : MustReview(required)
    /\ status[r] = "none" /\ \A o \in Unused : r <= o
    /\ status' = [status EXCEPT ![r] = "pending"]
    /\ proposal' = [proposal EXCEPT ![r] =
                      [path |-> at[Worker], sum |-> sum[Worker],
                       warned |-> suspect \/ sum[Worker] \in PendingSums]]
    /\ Goto(Worker, "finish")
    /\ UNCHANGED <<folders, locals, worker, arrived>>

(* Nothing suspicious and no approval required: the worker files it itself. *)
AutoFile ==
    /\ pc[Worker] = "decide"
    /\ \E required \in ApprovalSettings : ~MustReview(required)
    /\ Goto(Worker, "check")
    /\ UNCHANGED <<folders, reviews, locals, worker, arrived>>

(* The cancel scope is dropped and the next file is taken. *)
Finish ==
    /\ pc[Worker] = "finish"
    /\ cancelled' = FALSE
    /\ suspect' = FALSE
    /\ Forget(Worker)
    /\ Goto(Worker, "next")
    /\ UNCHANGED <<folders, reviews, queue, arrived>>

-----------------------------------------------------------------------------
(* Reviewers. *)

ClaimOpen(r) == status[r] \in {"pending", "processing"}  \* mutant: no compare-and-set
ClaimAgain(r) == status[r] \in {"pending", "rejected"}  \* mutant: a rejection can be revised

(* UPDATE .. SET status = 'processing' WHERE id = ? AND status = 'pending'. *)
Claimable(r) == status[r] = "pending"

ClaimPending(t, r, next) ==
    /\ pc[t] = "idle"
    /\ Claimable(r)
    /\ status' = [status EXCEPT ![r] = "processing"]
    /\ claim' = [claim EXCEPT ![t] = r]
    /\ at' = [at EXCEPT ![t] = proposal[r].path]
    /\ sum' = [sum EXCEPT ![t] = proposal[r].sum]
    /\ Goto(t, next)
    /\ UNCHANGED <<folders, proposal, name, worker, arrived>>

Approve(t, r) == ClaimPending(t, r, "check")
Reject(t, r) == ClaimPending(t, r, "reject")

(* Reject removes the scan if asked to and it is still there, .. *)
RejectRemove(t) ==
    /\ pc[t] = "reject"
    /\ \/ inbox' = [inbox EXCEPT ![at[t]] = None]
       \/ inbox' = inbox
    /\ Goto(t, "mark")
    /\ UNCHANGED <<archive, rows, reviews, locals, worker, arrived>>

(* .. gives the claim back if the file cannot be removed, .. *)
RejectFails(t) ==
    /\ pc[t] = "reject"
    /\ inbox[at[t]] # None
    /\ Goto(t, "release")
    /\ UNCHANGED <<folders, reviews, locals, worker, arrived>>

(* .. and marks the review. *)
RejectResolve(t) ==
    /\ pc[t] = "mark"
    /\ status' = [status EXCEPT ![claim[t]] = "rejected"]
    /\ Forget(t)
    /\ Goto(t, "idle")
    /\ UNCHANGED <<folders, proposal, worker, arrived>>

Resolve(t) ==
    /\ pc[t] = "resolve"
    /\ status' = [status EXCEPT ![claim[t]] = "approved"]
    /\ Forget(t)
    /\ Goto(t, "idle")
    /\ UNCHANGED <<folders, proposal, worker, arrived>>

Released(s) == IF s = "processing" THEN "pending" ELSE s

Release(t) ==
    /\ pc[t] = "release"
    /\ status' = [status EXCEPT ![claim[t]] = Released(@)]
    /\ Forget(t)
    /\ Goto(t, "idle")
    /\ UNCHANGED <<folders, proposal, worker, arrived>>

-----------------------------------------------------------------------------
(* file_and_persist, run by the worker and by every approving reviewer.     *)

\* Mutant: approve_review does not look at the result.
ResultIgnored(q) == IF q = Worker THEN "finish" ELSE "resolve"

(* What an error result leads to: approve_review releases its claim. *)
AfterError(q) == IF q = Worker THEN "finish" ELSE "release"

(* What success, full or without an index, leads to. *)
AfterFiled(q) == IF q = Worker THEN "finish" ELSE "resolve"
PartialIsError(q) == AfterError(q)  \* mutant: only "success" counts as filed
AfterPartial(q) == AfterFiled(q)

FilingError(q) ==
    /\ Goto(q, AfterError(q))
    /\ UNCHANGED <<folders, reviews, locals, worker, arrived>>

(* An exception leaves approve_review without a release: the reviewer's      *)
(* thread ends and the review stays 'processing'.                            *)
FilingRaises(q) ==
    /\ IF q = Worker
         THEN Goto(q, "finish") /\ UNCHANGED locals
         ELSE Goto(q, "idle") /\ Forget(q)
    /\ UNCHANGED <<folders, reviews, worker, arrived>>

WaitForSource(q) == FALSE  \* mutant: a missing source is waited for
SourceMissing(q) == inbox[at[q]] = None

(* The source is checked, then the GLOBAL cancel event, then a free name is  *)
(* looked up; nothing is reserved.                                           *)
CheckMissing(q) == pc[q] = "check" /\ SourceMissing(q) /\ FilingError(q)

CheckCancelled(q) ==
    /\ pc[q] = "check"
    /\ inbox[at[q]] # None
    /\ cancelled
    /\ FilingRaises(q)

PickName(q) ==
    /\ pc[q] = "check"
    /\ inbox[at[q]] # None
    /\ ~cancelled
    /\ \E n \in Names :
        /\ archive[n] = None
        /\ \A m \in 1..(n - 1) : archive[m] # None
        /\ name' = [name EXCEPT ![q] = n]
    /\ Goto(q, "place")
    /\ UNCHANGED <<folders, reviews, at, sum, claim, worker, arrived>>

NoNameLeft(q) ==
    /\ pc[q] = "check"
    /\ inbox[at[q]] # None
    /\ ~cancelled
    /\ \A n \in Names : archive[n] # None
    /\ FilingError(q)

\* Mutant: delete_source keeps its default, so the scan is moved, not copied.
PlaceMoves(q) ==
    /\ pc[q] = "place"
    /\ inbox[at[q]] # None
    /\ archive' = [archive EXCEPT ![name[q]] = inbox[at[q]]]
    /\ inbox' = [inbox EXCEPT ![at[q]] = None]
    /\ Goto(q, "save")
    /\ UNCHANGED <<rows, reviews, locals, worker, arrived>>

(* Copy to a .part file, then os.replace onto the picked name: a file that   *)
(* took the name in the meantime is replaced.                                *)
Place(q) ==
    /\ pc[q] = "place"
    /\ inbox[at[q]] # None
    /\ archive' = [archive EXCEPT ![name[q]] = inbox[at[q]]]
    /\ Goto(q, "save")
    /\ UNCHANGED <<inbox, rows, reviews, locals, worker, arrived>>

\* Mutant: the error of move_to_archive is not looked at.
PlaceErrorIgnored(q) ==
    /\ pc[q] = "place"
    /\ Goto(q, "save")
    /\ UNCHANGED <<folders, reviews, locals, worker, arrived>>

PlaceFails(q) == pc[q] = "place" /\ FilingError(q)

SaveRow(q) ==
    /\ pc[q] = "save"
    /\ rows' = rows \cup {[name |-> name[q], sum |-> sum[q],
                           by |-> IF q = Worker THEN Unreviewed ELSE claim[q]]}
    /\ Goto(q, "retire")
    /\ UNCHANGED <<inbox, archive, reviews, locals, worker, arrived>>

(* The archive copy is removed again, whoever's it is by now. *)
SaveFails(q) ==
    /\ pc[q] = "save"
    /\ archive' = [archive EXCEPT ![name[q]] = None]
    /\ Goto(q, AfterError(q))
    /\ UNCHANGED <<inbox, rows, reviews, locals, worker, arrived>>

(* The copy cannot be removed either, and that exception passes through. *)
SaveRaises(q) == pc[q] = "save" /\ FilingRaises(q)

(* The inbox source is unlinked by path; an OSError is only logged. *)
RetireSource(q) ==
    /\ pc[q] = "retire"
    /\ \/ inbox' = [inbox EXCEPT ![at[q]] = None]
       \/ inbox' = inbox
    /\ Goto(q, "index")
    /\ UNCHANGED <<archive, rows, reviews, locals, worker, arrived>>

Index(q) ==
    /\ pc[q] = "index"
    /\ \/ Goto(q, AfterFiled(q))
       \/ Goto(q, AfterPartial(q))
    /\ UNCHANGED <<folders, reviews, locals, worker, arrived>>

\* Mutant: a failing index undoes the filing, though the source is gone.
IndexRollsBack(q) ==
    /\ pc[q] = "index"
    /\ archive' = [archive EXCEPT ![name[q]] = None]
    /\ rows' = {x \in rows : x.name # name[q]}
    /\ Goto(q, AfterError(q))
    /\ UNCHANGED <<inbox, reviews, locals, worker, arrived>>

IndexRaises(q) == pc[q] = "index" /\ FilingRaises(q)

File(q) ==
    \/ CheckMissing(q) \/ CheckCancelled(q) \/ PickName(q) \/ NoNameLeft(q)
    \/ Place(q) \/ PlaceFails(q)
    \/ SaveRow(q) \/ SaveFails(q) \/ SaveRaises(q)
    \/ RetireSource(q)
    \/ Index(q) \/ IndexRaises(q)

-----------------------------------------------------------------------------
(* Startup: recover_stale_processing runs before any request is served. *)
Recovered(s) == IF s = "processing" THEN "pending" ELSE s

CrashRestart ==
    /\ AllowCrash
    /\ \E q \in Actors : pc[q] # "idle"
    /\ pc' = [q \in Actors |-> "idle"]
    /\ at' = [q \in Actors |-> None]
    /\ sum' = [q \in Actors |-> None]
    /\ claim' = [q \in Actors |-> None]
    /\ name' = [q \in Actors |-> None]
    /\ queue' = {}
    /\ cancelled' = FALSE
    /\ suspect' = FALSE
    /\ status' = [r \in ReviewIds |-> Recovered(status[r])]
    /\ UNCHANGED <<folders, proposal, arrived>>

-----------------------------------------------------------------------------
WorkerStep ==
    \/ NextFile \/ JobDone
    \/ ReadOk \/ IngestFails \/ Gate
    \/ \E r \in ReviewIds : CreateReview(r)
    \/ AutoFile
    \/ File(Worker)
    \/ Finish

ReviewerStep(t) ==
    \/ File(t)
    \/ RejectRemove(t) \/ RejectResolve(t) \/ RejectFails(t)
    \/ Resolve(t) \/ Release(t)

Next ==
    \/ \E d \in Docs, p \in Paths : Arrive(d, p)
    \/ ClearInbox
    \/ ProcessInbox
    \/ \E p \in Paths : ProcessSingle(p)
    \/ Cancel
    \/ WorkerStep
    \/ \E t \in Reviewers, r \in ReviewIds : Approve(t, r) \/ Reject(t, r)
    \/ \E t \in Reviewers : ReviewerStep(t)
    \/ CrashRestart

(* Requests are never owed; a started job and a started request go on.      *)
Fairness == WF_vars(WorkerStep) /\ \A t \in Reviewers : WF_vars(ReviewerStep(t))

Spec == Init /\ [][Next]_vars
FairSpec == Spec /\ Fairness

-----------------------------------------------------------------------------
(* A claim is exclusive: the claimed review is 'processing', and no two      *)
(* reviewers act on the same one (a double-clicked Approve files once).      *)
ClaimExclusive ==
    /\ \A t \in Reviewers : claim[t] # None => status[claim[t]] = "processing"
    /\ \A t, u \in Reviewers : t # u /\ claim[t] # None => claim[t] # claim[u]

(* A resolved review never changes again, whatever else is still running.   *)
ResolvedFinal ==
    [][\A r \in ReviewIds :
         status[r] \in {"approved", "rejected"} => status'[r] = status[r]]_vars

(* An approved review has its row in the documents table, with its checksum. *)
ApprovedHasRow ==
    \A r \in ReviewIds : status[r] = "approved" =>
        \E x \in rows : x.by = r /\ x.sum = proposal[r].sum

(* A document whose review was rejected was never filed by that review.     *)
RejectedNeverFiled ==
    \A r \in ReviewIds : status[r] = "rejected" => \A x \in rows : x.by # r

(* Every document row has a file behind it.                                  *)
RowsBacked == \A x \in rows : archive[x.name] # None

(* A 'processing' review is being resolved by someone; a failed attempt      *)
(* returns it to 'pending' (_release_claim).                                 *)
ClaimOwned ==
    \A r \in ReviewIds : status[r] = "processing" =>
        \E t \in Reviewers : claim[t] = r

(* move_to_archive "uses a numeric suffix if the destination already         *)
(* exists": an archived scan is never replaced by another one.               *)
ArchiveNeverOverwritten ==
    [][\A n \in Names :
         archive[n] # None => archive'[n] \in {archive[n], None}]_vars

InInbox(d) == \E p \in Paths : inbox[p] = d
InArchive(d) == \E n \in Names : archive[n] = d

(* A scan the system has taken in is somewhere, in the inbox or the archive, *)
(* until a reviewer rejects it.                                              *)
OnlyRejectDiscards ==
    [][\A d \in arrived :
         (InInbox(d) \/ InArchive(d)) /\ ~(InInbox(d) \/ InArchive(d))'
            => \E t \in Reviewers : pc[t] = "reject" /\ inbox[at[t]] = d]_vars

(* What has become of a scan. *)
CustodyOf(d) ==
    IF \E x \in rows : archive[x.name] = d THEN "filed"
    ELSE IF InInbox(d) \/ InArchive(d) THEN "held"
    ELSE IF d \in arrived THEN "discarded"
    ELSE "absent"

Promise == INSTANCE Custody WITH custody <- [d \in Docs |-> CustodyOf(d)]

(* Filing keeps the promise of Custody: a filed scan stays filed.            *)
KeepsCustody == Promise!Spec

(* A job that holds the process lock gives it back.                          *)
JobEnds == pc[Worker] # "idle" ~> pc[Worker] = "idle"

(* An approve or reject request comes to an end.                             *)
RequestEnds == \A t \in Reviewers : pc[t] # "idle" ~> pc[t] = "idle"

=============================================================================
