----------------------------- MODULE ProgressBus -----------------------------
(***************************************************************************)
(* The progress bus (deepcatalog/progress.py) between the ingest worker and *)
(* the pages that watch it over Server-Sent Events, and how a page learns   *)
(* from the events whether it is busy (app/static/events.js).  What a page  *)
(* draws of the steps is the subject of Strip.                              *)
(*                                                                          *)
(* Everything on the server side runs on one event loop. publish() holds    *)
(* _lock over code that never suspends, so an awaited publish is part of     *)
(* the run of its caller: what the worker publishes between two suspensions  *)
(* beside the steps of a file is one burst.  A step is a payload here, and   *)
(* any file that was started may have another one at any time: the worker's  *)
(* own, two to four for each page that is read, those of file_and_persist,   *)
(* which publish_sync leaves to tasks of their own, and those of the pages   *)
(* that gather left running, which come when their file is finished.         *)
(***************************************************************************)
EXTENDS Integers, Sequences, SequencesExt

CONSTANTS
    Sizes,       \* the number of files of each job
    MaxJobs,     \* bound: jobs
    MaxSteps,    \* bound: steps published
    Pages,       \* browser pages
    MaxConnects, \* bound: connections of each page
    BufferSize,  \* _BUFFER_SIZE, 200 in the code
    QueueSize,   \* a subscriber's queue, 256 in the code
    None

ASSUME BoundsAssumption ==
    /\ MaxJobs \in Nat /\ MaxSteps \in Nat /\ Sizes \in [1..MaxJobs -> Nat \ {0}] /\ MaxConnects \in Nat
    /\ BufferSize \in Nat \ {0} /\ QueueSize \in Nat \ {0}

(* A file of a job, so that the same inbox file twice is two file_ids. *)
Files == UNION {{j} \X (1..Sizes[j]) : j \in 1..MaxJobs}
Types == {"job_started", "file_started", "step", "file_finished", "job_finished"}
Outcomes == {"review", "done", "error", "cancelled"}

ASSUME NoneAssumption == None \notin Files \cup Pages \cup Outcomes \cup {"empty"}

VARIABLES
    current,   \* the file the worker reads, None between jobs
    retrying,  \* the page whose Retry the job is, None for a job over the inbox
    answered,  \* pages whose Retry has ended and that are about to be told
    jobs,      \* jobs started
    raised,    \* history: files of a Retry whose pipeline ended with an exception
    steps,     \* steps published
    buffer,    \* _buffer
    connected, \* pages whose stream is open
    listening, \* the pages whose queue is in _subscribers
    replay,    \* the rest of a stream's snapshot
    queue,     \* a stream's queue
    busy,      \* who set a page's flag last: nobody, an event ("job") or a Retry
    missed,    \* history: pages whose snapshot had lost events they had not been sent
    connects,  \* connections a page has made
    log,       \* history: everything published
    start,     \* history: Len(log) before the first event of a stream
    got        \* history: what a stream has sent

streams == <<connected, listening, replay, queue, connects, start, got>>
worker == <<current, retrying, answered, jobs, raised, steps>>
vars == <<current, retrying, answered, jobs, raised, steps, buffer, connected, listening,
          replay, queue, busy, missed, connects, log, start, got>>

Event(type, f, status) == [type |-> type, file |-> f, status |-> status]
Step(f) == Event("step", f, None)
FileStarted(f) == Event("file_started", f, None)
FileFinished(f, status) == Event("file_finished", f, status)

Init ==
    /\ current = None
    /\ retrying = None
    /\ answered = {}
    /\ jobs = 0
    /\ raised = {}
    /\ steps = 0
    /\ buffer = <<>>
    /\ connected = {}
    /\ listening = {}
    /\ replay = [c \in Pages |-> <<>>]
    /\ queue = [c \in Pages |-> <<>>]
    /\ busy = [c \in Pages |-> "no"]
    /\ missed = {}
    /\ connects = [c \in Pages |-> 0]
    /\ log = <<>>
    /\ start = [c \in Pages |-> 0]
    /\ got = [c \in Pages |-> <<>>]

-----------------------------------------------------------------------------
(* publish *)

Untrimmed(s) == s  \* mutant: the deque has no maxlen
Latest(s) == SubSeq(s, IF Len(s) > BufferSize THEN Len(s) - BufferSize + 1 ELSE 1, Len(s))

\* Mutant: a stream joins _subscribers only after its replay.
ReplayedFirst(c) == c \in listening /\ replay[c] = <<>>
Listening(c) == c \in listening

(* Every event goes to the ring buffer and to every listening queue; a queue *)
(* that is full leaves _subscribers, and nothing tells its stream.           *)
Publish(events) ==
    /\ log' = log \o events
    /\ buffer' = Latest(buffer \o events)
    /\ queue' = [c \in Pages |->
                   IF Listening(c)
                     THEN LET q == queue[c] \o events
                          IN  SubSeq(q, 1, IF Len(q) > QueueSize THEN QueueSize ELSE Len(q))
                     ELSE queue[c]]
    /\ listening' = {c \in listening : Len(queue[c]) + Len(events) <= QueueSize}

-----------------------------------------------------------------------------
(* The worker. *)

Started(f) == <<Event("job_started", None, None), FileStarted(f)>>

StartWith(who, events, f) ==
    /\ current = None
    /\ jobs < MaxJobs
    /\ jobs' = jobs + 1
    /\ current' = f
    /\ retrying' = who
    /\ Publish(events)
    /\ UNCHANGED <<answered, raised, steps, connected, replay, busy, missed, connects, start, got>>

StartJob == StartWith(None, Started(<<jobs + 1, 1>>), <<jobs + 1, 1>>)

NothingToDo == StartWith(None, <<Event("job_finished", None, "empty")>>, None)

(* A page offers Retry on a file it has seen fail, and the server accepts it *)
(* when no job runs. The request is answered when the job has ended.         *)
Retry(c) ==
    /\ \E e \in Range(got[c]) :
         e.type = "file_finished" /\ e.status \in {"error", "cancelled"}
    /\ StartWith(c, Started(<<jobs + 1, 1>>), <<jobs + 1, 1>>)

(* A step of a file that has been started, by whoever still works on it. *)
SayStep(f) ==
    /\ FileStarted(f) \in Range(log)
    /\ steps < MaxSteps
    /\ steps' = steps + 1
    /\ Publish(<<Step(f)>>)
    /\ UNCHANGED <<current, retrying, answered, jobs, raised, connected, replay, busy, missed,
                   connects, start, got>>

NextFile ==
    IF retrying = None /\ current[2] < Sizes[current[1]]
      THEN <<current[1], current[2] + 1>> ELSE None

Farewell == <<Event("job_finished", None, None)>>

\* Mutant: a job that ends with a failed file does not say that it ended.
NoFarewell(status) ==
    IF NextFile # None THEN <<FileStarted(NextFile)>> ELSE IF status = "error" THEN <<>> ELSE Farewell

(* After a file the worker goes on to the next one, or ends the job. *)
AndThen(status) == IF NextFile # None THEN <<FileStarted(NextFile)>> ELSE Farewell

(* The read of the current file ends. *)
LeaveFile(events, answer) ==
    /\ current # None
    /\ Publish(events)
    /\ current' = NextFile
    /\ retrying' = None
    /\ answered' = answered \cup (answer \ {None})
    /\ UNCHANGED <<jobs, steps, connected, replay, busy, missed, connects, start, got>>

(* Queued for review, filed, failed or cancelled. *)
FinishFile(status) ==
    /\ LeaveFile(<<FileFinished(current, status)>> \o AndThen(status), {retrying})
    /\ UNCHANGED raised

(* An exception fails a file of the inbox; process_single_file lets it       *)
(* through, publishes nothing, and the request of the Retry fails.           *)
PipelineRaises ==
    /\ retrying # None
    /\ LeaveFile(<<>>, {})
    /\ raised' = raised \cup {current}

WorkerStep == (\E status \in Outcomes : FinishFile(status)) \/ PipelineRaises

-----------------------------------------------------------------------------
(* subscribe, and the page. *)

(* A page that connects again has missed what left the buffer meanwhile. *)
Connect(c) ==
    /\ c \notin connected
    /\ connects[c] < MaxConnects
    /\ connects' = [connects EXCEPT ![c] = @ + 1]
    /\ connected' = connected \cup {c}
    /\ listening' = listening \cup {c}
    /\ replay' = [replay EXCEPT ![c] = buffer]
    /\ queue' = [queue EXCEPT ![c] = <<>>]
    /\ start' = [start EXCEPT ![c] = Len(log) - Len(buffer)]
    /\ got' = [got EXCEPT ![c] = <<>>]
    /\ missed' = IF start[c] + Len(got[c]) < Len(log) - Len(buffer)
                 THEN missed \cup {c} ELSE missed
    /\ UNCHANGED <<worker, buffer, busy, log>>

(* The connection breaks; EventSource connects again by itself. *)
Disconnect(c) ==
    /\ c \in connected
    /\ connected' = connected \ {c}
    /\ listening' = listening \ {c}
    /\ replay' = [replay EXCEPT ![c] = <<>>]
    /\ queue' = [queue EXCEPT ![c] = <<>>]
    /\ UNCHANGED <<worker, buffer, busy, missed, connects, log, start, got>>

(* handleWorkflowEvent: the flag of a page once it has handled event e. *)
Shown(flag, e) ==
    CASE e.type = "job_started" -> "job"
      [] e.type = "job_finished" -> "no"
      [] OTHER -> flag

Handle(c, e) ==
    /\ busy' = [busy EXCEPT ![c] = Shown(@, e)]
    /\ missed' = IF e.type = "job_started" THEN missed \ {c} ELSE missed
    /\ got' = [got EXCEPT ![c] = Append(@, e)]
    /\ UNCHANGED <<worker, buffer, log, connected, listening, connects, start>>

(* A stream sends its snapshot first, then its queue. *)
SendReplay(c) ==
    /\ c \in connected
    /\ replay[c] # <<>>
    /\ Handle(c, Head(replay[c]))
    /\ replay' = [replay EXCEPT ![c] = Tail(@)]
    /\ UNCHANGED queue

SendQueued(c) ==
    /\ c \in connected
    /\ replay[c] = <<>>
    /\ queue[c] # <<>>
    /\ Handle(c, Head(queue[c]))
    /\ queue' = [queue EXCEPT ![c] = Tail(@)]
    /\ UNCHANGED replay

Send(c) == SendReplay(c) \/ SendQueued(c)

(* The answer to a Retry says success, and the page takes that as the start. *)
RetryAnswered(c) ==
    /\ c \in answered
    /\ answered' = answered \ {c}
    /\ busy' = [busy EXCEPT ![c] = "retry"]
    /\ UNCHANGED <<current, retrying, jobs, raised, steps, buffer, missed, log, streams>>

-----------------------------------------------------------------------------
Next ==
    \/ StartJob \/ NothingToDo \/ WorkerStep \/ \E f \in Files : SayStep(f)
    \/ \E c \in Pages : Connect(c) \/ Disconnect(c) \/ Send(c) \/ Retry(c) \/ RetryAnswered(c)

(* The loop runs what is ready: the worker's LLM and OCR calls have           *)
(* timeouts, and a stream that is read sends.                                *)
Fairness == WF_vars(WorkerStep) /\ \A c \in Pages : WF_vars(Send(c))

Spec == Init /\ [][Next]_vars
FairSpec == Spec /\ Fairness

-----------------------------------------------------------------------------
EventType == [type : Types, file : Files \cup {None}, status : Outcomes \cup {"empty", None}]

(* The types, and the ring buffer and the queues within their limits. *)
TypeOK ==
    /\ current \in Files \cup {None}
    /\ retrying \in Pages \cup {None} /\ answered \subseteq Pages
    /\ jobs \in 0..MaxJobs
    /\ raised \subseteq Files
    /\ steps \in 0..MaxSteps
    /\ Range(log) \subseteq EventType
    /\ IsSuffix(buffer, log) /\ Len(buffer) <= BufferSize
    /\ listening \subseteq connected /\ connected \subseteq Pages
    /\ \A c \in Pages : Len(queue[c]) <= QueueSize /\ Len(replay[c]) <= BufferSize
    /\ busy \in [Pages -> {"no", "job", "retry"}] /\ missed \subseteq Pages
    /\ connects \in [Pages -> 0..MaxConnects]

(* A stream sends what was published from the start of its replay on, each   *)
(* event once and in order: nothing falls between the snapshot and the        *)
(* queue. A stream that was dropped stops somewhere in it (progress.py:105).  *)
NothingMissed ==
    \A c \in connected :
        LET sent == got[c] \o replay[c] \o queue[c]
            due == SubSeq(log, start[c] + 1, Len(log))
        IN  IF c \in listening THEN sent = due ELSE IsPrefix(sent, due)

(* The last job of the log has started and nothing says that it ended.       *)
EndUntold ==
    \E i \in DOMAIN log : /\ log[i].type = "job_started"
                           /\ \A j \in i..Len(log) : log[j].type # "job_finished"
Abandoned == current = None /\ EndUntold /\ <<jobs, 1>> \in raised

(* A page that an event made busy learns that the job ended, or has lost its *)
(* subscription, or the end of the job to the limit of the ring buffer while  *)
(* it was not connected, or the job was a Retry that raised.                 *)
BusyEnds ==
    \A c \in Pages :
        busy[c] = "job" ~> \/ busy[c] # "job" \/ c \notin listening
                           \/ c \in missed \/ Abandoned

=============================================================================
