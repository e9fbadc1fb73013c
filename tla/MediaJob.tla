------------------------------- MODULE MediaJob -------------------------------
(***************************************************************************)
(* One run_media_job (deepcatalog/media_worker.py): the caller's polling   *)
(* loop, the child process that parses or renders an untrusted file, the   *)
(* pipe between them and the signals that end the child.  Calls share      *)
(* nothing, so one stands for all.  What pypdf, Pillow or Poppler do with  *)
(* the file is the choice of an answer; time is the event that the         *)
(* deadline, or the timeout of a join, has passed.                         *)
(***************************************************************************)
EXTENDS Naturals

VARIABLES
    isolated,   \* DEEPCATALOG_MEDIA_WORKER: the job has a process of its own
    large,      \* the answer does not fit in the pipe
    call,       \* where the caller is
    late,       \* the deadline of the call has passed
    timedOut,   \* the caller left its loop for that
    child,      \* where the child is
    answer,     \* what the child found: ok or err
    pipe,       \* how much of the answer the child has written
    signals,    \* what was sent to end the child; limit comes from the kernel
    outcome     \* what the caller returned or raised

mediaVars == <<isolated, large, call, late, timedOut, child, answer, pipe, signals,
               outcome>>

CallPcs == {"polling", "checking", "lastPoll", "receiving", "judging", "terminated",
            "killed", "closing", "waiting", "terminatedLast", "returned"}

MediaTypeOK ==
    /\ isolated \in BOOLEAN /\ large \in BOOLEAN /\ late \in BOOLEAN
    /\ timedOut \in BOOLEAN
    /\ call \in CallPcs
    /\ child \in {"none", "working", "sending", "sent", "leaving", "gone"}
    /\ answer \in {"none", "ok", "err"}
    /\ pipe \in {"empty", "partial", "whole"}
    /\ signals \in SUBSET {"term", "kill", "limit"}
    /\ outcome \in {"none", "ok", "err", "timeout", "failed", "broken"}

MediaInit ==
    /\ isolated \in BOOLEAN /\ large \in BOOLEAN
    /\ call = "polling" /\ late = FALSE /\ timedOut = FALSE
    /\ child = IF isolated THEN "working" ELSE "none"
    /\ answer = "none" /\ pipe = "empty" /\ signals = {} /\ outcome = "none"

Alive == child \in {"working", "sending", "sent", "leaving"}
WriteEndClosed == child \in {"leaving", "gone"}
Readable == pipe # "empty" \/ WriteEndClosed
PipeClosed == call \in {"waiting", "terminatedLast", "returned"}

-----------------------------------------------------------------------------
\* The child: _harden_worker_process and _execute_job, then conn.send.  An
\* answer the pipe cannot hold waits for the caller to read.
Work ==
    /\ child = "working" /\ answer = "none"
    /\ answer' \in {"ok", "err"}
    /\ \/ child' = "sending" /\ pipe' = "partial"
       \* The answer cannot be sent: the finally closes the pipe.
       \/ child' = "leaving" /\ UNCHANGED pipe
    /\ UNCHANGED <<isolated, large, call, late, timedOut, signals, outcome>>

SendRest ==
    /\ child = "sending" /\ (large => call = "receiving")
    /\ child' = "sent" /\ pipe' = "whole"
    /\ UNCHANGED <<isolated, large, call, late, timedOut, answer, signals, outcome>>

\* The caller has closed its end: the send raises.
SendBreaks ==
    /\ child = "sending" /\ PipeClosed
    /\ child' = "leaving"
    /\ UNCHANGED <<isolated, large, call, late, timedOut, answer, pipe, signals, outcome>>

\* rmtree of the private TMPDIR, conn.close, and the end of the process.
Leave ==
    /\ \/ child = "sent" /\ child' = "leaving"
       \/ child = "leaving" /\ child' = "gone"
    /\ UNCHANGED <<isolated, large, call, late, timedOut, answer, pipe, signals, outcome>>

\* RLIMIT_CPU, the out-of-memory killer or a crash of a native parser.
Crash ==
    /\ child \in {"working", "sending"}
    /\ child' = "gone" /\ signals' = signals \union {"limit"}
    /\ UNCHANGED <<isolated, large, call, late, timedOut, answer, pipe, outcome>>

\* A signal takes effect, later than the caller waits for it or sooner.
Die ==
    /\ Alive /\ signals \intersect {"term", "kill"} # {}
    /\ child' = "gone"
    /\ UNCHANGED <<isolated, large, call, late, timedOut, answer, pipe, signals, outcome>>

TimePasses ==
    /\ ~late /\ late' = TRUE
    /\ UNCHANGED <<isolated, large, call, timedOut, child, answer, pipe, signals, outcome>>

-----------------------------------------------------------------------------
Go(label) ==
    /\ call' = label
    /\ UNCHANGED <<isolated, large, late, timedOut, child, answer, pipe, signals, outcome>>

Signal(s, label) ==
    /\ call' = label /\ signals' = signals \union {s}
    /\ UNCHANGED <<isolated, large, late, timedOut, child, answer, pipe, outcome>>

Settle(o, label) ==
    /\ call' = label /\ outcome' = o
    /\ UNCHANGED <<isolated, large, late, timedOut, child, answer, pipe, signals>>

\* The worker is switched off: _execute_job in the calling thread.
RunInProcess ==
    /\ ~isolated /\ call = "polling" /\ answer' \in {"ok", "err"}
    /\ outcome' = answer' /\ call' = "returned"
    /\ UNCHANGED <<isolated, large, late, timedOut, child, pipe, signals>>

\* Mutant: the deadline is looked at once the child has gone.
DeadlineUnmet ==
    /\ isolated /\ call = "polling" /\ late /\ ~Alive
    /\ call' = "judging" /\ timedOut' = TRUE
    /\ UNCHANGED <<isolated, large, late, child, answer, pipe, signals, outcome>>

DeadlineMet ==
    /\ isolated /\ call = "polling" /\ late
    /\ call' = "judging" /\ timedOut' = TRUE
    /\ UNCHANGED <<isolated, large, late, child, answer, pipe, signals, outcome>>

\* poll says there is something to read: an answer, or the end of the pipe.
Take == Go(IF pipe = "empty" THEN "judging" ELSE "receiving")

\* The deadline may pass during the poll.
PollPipe == /\ isolated /\ call = "polling"
        /\ \/ Readable /\ Take
           \/ ~Readable /\ ~late /\ Go("checking")

\* Mutant: a child that has gone cannot have answered.
GoneIsSilent == call = "checking" /\ Go(IF Alive THEN "polling" ELSE "judging")

CheckAlive == call = "checking" /\ Go(IF Alive THEN "polling" ELSE "lastPoll")

\* The child may have answered between the poll and is_alive.
LastPoll == call = "lastPoll" /\ Take

\* recv has no deadline: it ends with the answer or with the pipe, whose end is
\* an EOFError, which is caught, when it comes right behind the header.
Receive ==
    /\ call = "receiving"
    /\ \/ pipe = "whole" /\ Settle(answer, "closing")
       \/ pipe # "whole" /\ WriteEndClosed /\ (Settle("broken", "closing") \/ Go("judging"))

\* No answer: end a child that is alive, and say why there is none.
Judge ==
    /\ call = "judging"
    /\ IF Alive \/ timedOut THEN Signal("term", "terminated")
                            ELSE Settle("failed", "closing")

\* join(2), kill, join(1): a join ends with the child or with its timeout.
AfterTerm == /\ call = "terminated"
             /\ \/ Alive /\ Signal("kill", "killed")
                \/ ~Alive /\ Settle("timeout", "closing")

AfterKill == call = "killed" /\ Settle("timeout", "closing")

\* The finally: close the pipe; a child that is still alive has five seconds,
\* and is terminated then.
Close == call = "closing" /\ Go(IF Alive THEN "waiting" ELSE "returned")
AfterWait == /\ call = "waiting"
             /\ \/ ~Alive /\ Go("returned")
                \/ Alive /\ Signal("term", "terminatedLast")
AfterLast == call = "terminatedLast" /\ Go("returned")

CallerStep == \/ RunInProcess \/ DeadlineMet \/ PollPipe \/ CheckAlive \/ LastPoll
              \/ Receive \/ Judge \/ AfterTerm \/ AfterKill
              \/ Close \/ AfterWait \/ AfterLast

MediaNext == \/ Work \/ SendRest \/ SendBreaks \/ Leave \/ Crash \/ Die
             \/ TimePasses \/ CallerStep

-----------------------------------------------------------------------------
\* What the caller reports is what happened, however the answer, the end of the
\* child and the deadline race: an answer is the child's; "exited without result"
\* is only said of a child that did not get its answer through; a timeout only
\* when time was up, or the child had closed the pipe without an answer and was
\* not gone yet.
MediaHonest ==
    /\ outcome \in {"ok", "err"} => outcome = answer
    /\ outcome = "failed" => pipe # "whole"
    /\ outcome = "timeout" => late \/ pipe = "empty"
    /\ outcome = "broken" => "limit" \in signals

\* A call that has returned leaves no child behind that was not told to end.
ChildReaped == call = "returned" /\ Alive => signals # {}

\* Once its deadline has passed a call ends, and so does its child, however long
\* the parser would run.
MediaEnds == late ~> (call = "returned" /\ ~Alive)
===============================================================================
