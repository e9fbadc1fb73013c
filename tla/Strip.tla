------------------------------- MODULE Strip -------------------------------
(***************************************************************************)
(* The strip of steps a page shows (app/static/events.js).  The handler of *)
(* a step event does not draw it: it queues the step, and an asynchronous  *)
(* loop, drainStepAnimQueue, draws the queued steps one by one and sleeps  *)
(* in between, so that each stays visible for a moment.  A reset of the    *)
(* strip empties the queue and forgets that a drain is running, but does   *)
(* not stop it: it sleeps on, and another drain starts beside it.          *)
(*                                                                         *)
(* What the pipeline says is the page's environment: the steps of a read,  *)
(* of the OCR and of a filing, steps published by tasks that run after     *)
(* their file was left, the steps of pages that gather left running, files *)
(* that are never finished.  The page has to cope with all of it, so any   *)
(* step of any file that was ever started may be said at any time, as long *)
(* as the bus, modelled in ProgressBus, keeps the order.                   *)
(***************************************************************************)
EXTENDS Integers, Sequences, SequencesExt

CONSTANTS
    FileIds,    \* the files processed, each under an id of its own
    StepIds,    \* the steps of the pipeline
    NoFile,
    MaxEvents,  \* bound: events published
    MaxHellos   \* bound: connections of the page after the first

ASSUME StripAssumption == NoFile \notin FileIds /\ MaxEvents \in Nat /\ MaxHellos \in Nat

VARIABLES
    said,       \* the events published, oldest first
    heard,      \* how many of them the page has handled
    hellos,     \* connections made after the first
    active,     \* activeFileId
    strip,      \* stepStatus
    pending,    \* stepAnimQueue
    draining,   \* stepAnimRunning
    pauses,     \* drains that sleep after they drew a step
    held,       \* the steps that drains hold while the one drawn stays visible
    finishing,  \* file_finished events that wait for the animation
    slept       \* steps held by a drain when the strip was last reset: history

stripVars == <<said, heard, hellos, active, strip, pending, draining, pauses, held,
               finishing, slept>>

\* A terminal status, done, error or skipped, is drawn like any other.
Statuses == {"running", "done"}
Endings == {"done", "error", "cancelled"}  \* done: filed, or queued for review

Announce(type, f) == [type |-> type, file |-> f]
StepOf(f, s, st) == [type |-> "step", file |-> f, step |-> s, status |-> st]
Finished(f, outcome) == [type |-> "file_finished", file |-> f, status |-> outcome]

StepItems == [type : {"step"}, file : FileIds, step : StepIds, status : Statuses]
FileEnds == [type : {"file_finished"}, file : FileIds, status : Endings]
Announcements == [type : {"job_started", "job_empty", "file_started"}, file : FileIds \union {NoFile}]

StripTypeOK ==
    /\ said \in Seq(StepItems \union FileEnds \union Announcements)
    /\ heard \in 0..Len(said) /\ hellos \in Nat
    /\ active \in FileIds \union {NoFile}
    /\ strip \in [StepIds -> Statuses \union {"idle"}]
    /\ pending \in Seq(StepItems) /\ draining \in BOOLEAN /\ pauses \in Nat
    /\ held \in Seq(StepItems) /\ finishing \in Seq(FileEnds) /\ slept \in SUBSET StepIds

Idle == [s \in StepIds |-> "idle"]

StripInit ==
    /\ said = <<>> /\ heard = 0 /\ hellos = 0 /\ active = NoFile /\ strip = Idle
    /\ pending = <<>> /\ draining = FALSE /\ pauses = 0 /\ held = <<>>
    /\ finishing = <<>> /\ slept = {}

-----------------------------------------------------------------------------
(* What the pipeline publishes.  The end of a job that was not empty leaves *)
(* the strip as it is.                                                      *)

Begun == {e.file : e \in {d \in Range(said) : d.type = "file_started"}}
Ended == {e.file : e \in {d \in Range(said) : d.type = "file_finished"}}

Tell(e) ==
    /\ Len(said) < MaxEvents
    /\ said' = Append(said, e)
    /\ UNCHANGED <<heard, hellos, active, strip, pending, draining, pauses, held, finishing, slept>>

TellJob == \E type \in {"job_started", "job_empty"} : Tell(Announce(type, NoFile))
TellFile(f) == f \notin Begun /\ Tell(Announce("file_started", f))
TellStep(f) == f \in Begun /\ \E s \in StepIds, st \in Statuses : Tell(StepOf(f, s, st))
TellFinished(f) ==
    f \in Begun \ Ended /\ \E outcome \in Endings : Tell(Finished(f, outcome))

-----------------------------------------------------------------------------
(* Drains. *)

LateStepsShown(f) == TRUE  \* mutant: steps of an earlier file are not filtered
Concerns(f) == active \in {NoFile, f}

\* resetStepStatuses: the timers it clears are not those the drains sleep on.
Reset ==
    /\ strip' = Idle /\ pending' = <<>> /\ draining' = FALSE
    /\ slept' = {i.step : i \in Range(held)}
    /\ UNCHANGED <<pauses, held>>

\* The first of the queued steps that concerns the file shown.
NextItem(q, i) ==
    /\ i \in DOMAIN q /\ Concerns(q[i].file)
    /\ \A j \in 1..(i - 1) : ~Concerns(q[j].file)

\* A drain goes round its loop until it sleeps: after it drew a step, or with a
\* terminal status in hand, whose step is drawn running and has not been for long.
\* The other drains that pause are n; flag is stepAnimRunning meanwhile.
Drain(q, n, flag) ==
    \/ \E i \in DOMAIN q :
         /\ NextItem(q, i)
         /\ pending' = SubSeq(q, i + 1, Len(q)) /\ draining' = flag
         /\ \/ /\ strip' = [strip EXCEPT ![q[i].step] = q[i].status]
               /\ pauses' = n + 1 /\ UNCHANGED held
            \/ /\ q[i].status # "running" /\ strip[q[i].step] = "running"
               /\ held' = Append(held, q[i]) /\ pauses' = n /\ UNCHANGED strip
    \/ /\ \A i \in DOMAIN q : ~Concerns(q[i].file)
       /\ pending' = <<>> /\ draining' = FALSE /\ pauses' = n /\ UNCHANGED <<strip, held>>

\* The pause of 80 or STEP_MIN_VISIBLE_MS milliseconds is over.
Resume ==
    /\ pauses > 0
    /\ Drain(pending, pauses - 1, draining)
    /\ UNCHANGED <<said, heard, hellos, active, finishing, slept>>

\* The step held is drawn, whatever file is shown by now.
DrawHeld ==
    /\ \E i \in DOMAIN held : /\ strip' = [strip EXCEPT ![held[i].step] = held[i].status]
                              /\ held' = RemoveAt(held, i)
    /\ pauses' = pauses + 1
    /\ UNCHANGED <<said, heard, hellos, active, pending, draining, finishing, slept>>

-----------------------------------------------------------------------------
(* handleWorkflowEvent *)

HearStart(e) ==
    /\ e.type \in {"job_started", "job_empty", "file_started"}
    /\ active' = e.file /\ Reset /\ UNCHANGED finishing

\* A step that is drawn running already only changes its text.
Ignored(e) == ~Concerns(e.file) \/ (e.status = "running" /\ strip[e.step] = "running")

HearStep(e) ==
    /\ e.type = "step"
    /\ \/ Ignored(e) /\ UNCHANGED <<strip, pending, draining, pauses, held>>
       \/ /\ ~Ignored(e) /\ draining
          /\ pending' = Append(pending, e) /\ UNCHANGED <<strip, draining, pauses, held>>
       \/ /\ ~Ignored(e) /\ ~draining
          /\ Drain(Append(pending, e), pauses, TRUE)
    /\ UNCHANGED <<active, finishing, slept>>

NoWait == TRUE  \* mutant: a file is finished before its last steps are drawn
Still == pending = <<>> /\ ~draining

Settled(to) == [s \in StepIds |-> IF strip[s] = "running" THEN to ELSE strip[s]]

\* finish: a failed file keeps the step it failed in.
Finish(e) ==
    \/ /\ e.file = active /\ e.status = "done"
       /\ strip' = Settled("done") /\ UNCHANGED active
    \/ /\ e.file = active /\ e.status = "cancelled"
       /\ strip' = Settled("idle") /\ active' = NoFile
    \/ (e.file # active \/ e.status = "error") /\ UNCHANGED <<strip, active>>

HearFinished(e) ==
    /\ e.type = "file_finished"
    /\ \/ Still /\ Finish(e) /\ UNCHANGED finishing
       \/ ~Still /\ finishing' = Append(finishing, e) /\ UNCHANGED <<strip, active>>
    /\ UNCHANGED <<pending, draining, pauses, held, slept>>

Hear ==
    /\ heard < Len(said) /\ heard' = heard + 1
    /\ LET e == said[heard + 1] IN HearStart(e) \/ HearStep(e) \/ HearFinished(e)
    /\ UNCHANGED <<said, hellos>>

\* waitForAnim looks again.
FinishLate ==
    /\ Still
    /\ \E i \in DOMAIN finishing : /\ Finish(finishing[i])
                                   /\ finishing' = RemoveAt(finishing, i)
    /\ UNCHANGED <<said, heard, hellos, pending, draining, pauses, held, slept>>

\* The connection is made anew.  hello resets the strip, not the active file, and
\* the events follow from wherever the ring buffer begins.
Hello ==
    /\ hellos < MaxHellos /\ hellos' = hellos + 1
    /\ heard' \in 0..Len(said)
    /\ Reset /\ UNCHANGED <<said, active, finishing>>

StripNext ==
    \/ TellJob \/ \E f \in FileIds : TellFile(f) \/ TellStep(f) \/ TellFinished(f)
    \/ Hear \/ Resume \/ DrawHeld \/ FinishLate \/ Hello

StripSpec == StripInit /\ [][StripNext]_stripVars

-----------------------------------------------------------------------------
\* A step that the strip of a file shows as running was said to run of that very
\* file, and any other status it shows was said of it too.  Excepted are the
\* terminal steps that a drain held when the strip was reset: it draws them on the
\* strip of the next file.
StripHonest ==
    active # NoFile =>
        \A s \in StepIds :
            /\ strip[s] = "running" => StepOf(active, s, "running") \in Range(said)
            /\ strip[s] # "idle" =>
                 s \in slept \/ \E st \in Statuses : StepOf(active, s, st) \in Range(said)

AtRest == heard = Len(said) /\ pending = <<>> /\ pauses = 0 /\ held = <<>> /\ finishing = <<>>

\* The last that was said of the step is that it runs.
LastRunning(f, s) ==
    \E i \in DOMAIN said :
        /\ said[i] = StepOf(f, s, "running")
        /\ \A j \in (i + 1)..Len(said) : said[j] # StepOf(f, s, "done")

\* And the file did not end since, unless it failed in that step.
LeftOpen(f, s) ==
    \E i \in DOMAIN said :
        /\ said[i] = StepOf(f, s, "running")
        /\ \A j \in (i + 1)..Len(said) :
             said[j] \notin {StepOf(f, s, "done"), Finished(f, "done"), Finished(f, "cancelled")}

\* However the drains overlapped and the connection broke, once the page has heard
\* and drawn everything it shows a step as running only if the pipeline left it so:
\* nothing said later ended the step, nor the file other than by failing.  A page
\* that knows of no active file draws the steps of every file and does not take
\* their end for its own.
StripSettles ==
    AtRest => \A s \in StepIds :
        strip[s] = "running" => IF active = NoFile THEN \E f \in FileIds : LastRunning(f, s)
                                                   ELSE LeftOpen(active, s)
=============================================================================
